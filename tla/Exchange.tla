------------------------------ MODULE Exchange ------------------------------
(***************************************************************************)
(* register_and_exchange (crates/qvole-protocol/src/exchange.rs) between    *)
(* any number of runs in one room: the two peers of a code, their earlier   *)
(* or later attempts, and runs with another code whose room name collides.  *)
(*                                                                          *)
(* The cryptography is ideal.  A run stands for its two blinded points and  *)
(* its certificate fingerprint, all fresh per run; a key stands for what it *)
(* is derived from.  Nonces and padding are left out: a payload resent or   *)
(* rebuilt verifies like the first.                                         *)
(*                                                                          *)
(* The loop body sends what is due, waits for one datagram and handles it.  *)
(* Whether a resend interval has passed is not modelled: a resend may       *)
(* happen at any loop top.  A datagram dropped by the inbound window is one *)
(* not received, and so is one that reaches the relay before the run is     *)
(* admitted.  The REG and cookie round trip is one step here, RecvRegd; the *)
(* relay's side of it is in Relay.                                          *)
(***************************************************************************)
EXTENDS Integers, Sequences, FiniteSets

CONSTANTS
  Sessions, Codes, Code, Point,     \* as in Handshake
  MaxCandidates,                    \* MAX_CANDIDATES
  MaxBuffered                       \* MAX_BUFFERED_CONFIRMS

ASSUME ExchangeAssumption ==
  /\ Code \in [Sessions -> Codes]
  /\ Point \in [Sessions -> Nat]
  /\ \A s, t \in Sessions : s # t => Point[s] # Point[t]
  /\ MaxCandidates \in Nat \ {0}
  /\ MaxBuffered \in Nat

VARIABLES
  net,                \* messages that the relay has for the rest of the room
  received_regd,
  candidates,         \* per run, ordered by confirm_last_sent, oldest first
  buffered_confirms,
  built,              \* every confirm payload ever built (history)
  outcome             \* how each run ended, as in Handshake

localVars == <<received_regd, candidates, buffered_confirms>>
vars == <<net, localVars, built, outcome>>

Pending == [status |-> "running"]
Failed == [status |-> "failed"]
Running(s) == outcome[s] = Pending

\* detect_outbound_addr until the relay has told the external address.
my_addr(s) == IF received_regd[s] THEN "external" ELSE "local"

Init ==
  /\ net = {}
  /\ received_regd = [s \in Sessions |-> FALSE]
  /\ candidates = [s \in Sessions |-> << >>]
  /\ buffered_confirms = [s \in Sessions |-> << >>]
  /\ built = {}
  /\ outcome = [s \in Sessions |-> Pending]

----------------------------------------------------------------------------
(* process_spake_msg and the derivations below it.                          *)

\* (Mutant: the comparison looks at one side only.)
is_server_Always(s, p) == TRUE
is_server(s, p) == Point[s] > Point[p]

\* The server uses its N-point with the client's M-point.
EffectivePoint(s, p) == IF is_server(s, p) THEN <<s, "N">> ELSE <<s, "M">>
EffectivePeerPoint(s, p) == IF is_server(s, p) THEN <<p, "M">> ELSE <<p, "N">>

derive_session_key(s, p) ==
  [code |-> Code[s],
   points |-> {EffectivePoint(s, p), EffectivePeerPoint(s, p)},
   fingerprints |-> {s, p}]

\* A payload is known by what goes into its HMAC and its ciphertext; the keys
\* are the ones the sender derives for the receiver.
build_confirm_payload(s, p) == [sender |-> s, receiver |-> p, addr |-> my_addr(s)]

\* (Mutant: the HMAC is not compared.)
process_confirm_msg_AnyKey(m, s, p) == m.sender = p
process_confirm_msg(m, s, p) ==
  /\ derive_session_key(m.sender, m.receiver) = derive_session_key(s, p)
  /\ m.sender = p
  /\ m.receiver = s

Spake2(s) == [kind |-> "spake2", from |-> s]
Confirm(payload) == [kind |-> "confirm", payload |-> payload]

----------------------------------------------------------------------------
(* The relay.  It forwards a message to every other client of the room, so  *)
(* any other run may receive it, once, repeatedly or never.                 *)

\* REGD <room> OK <addr>
RecvRegd(s) ==
  /\ Running(s)
  /\ ~ received_regd[s]
  /\ received_regd' = [received_regd EXCEPT ![s] = TRUE]
  /\ UNCHANGED <<net, candidates, buffered_confirms, built, outcome>>

Lose(m) ==
  /\ net' = net \ {m}
  /\ UNCHANGED <<localVars, built, outcome>>

----------------------------------------------------------------------------
(* The top of the loop.                                                     *)

SendSpake2(s) ==
  /\ Running(s)
  /\ received_regd[s]
  /\ net' = net \cup {Spake2(s)}
  /\ UNCHANGED <<localVars, built, outcome>>

Peers(s) == {candidates[s][i].receiver : i \in 1 .. Len(candidates[s])}

MoveToEnd(q, i) == Append(SubSeq(q, 1, i - 1) \o SubSeq(q, i + 1, Len(q)), q[i])

ResendConfirm(s) ==
  /\ Running(s)
  /\ \E i \in 1 .. Len(candidates[s]) :
       /\ net' = net \cup {Confirm(candidates[s][i])}
       /\ candidates' = [candidates EXCEPT ![s] = MoveToEnd(@, i)]
  /\ UNCHANGED <<received_regd, buffered_confirms, built, outcome>>

GiveUp(s) ==
  /\ Running(s)
  /\ outcome' = [outcome EXCEPT ![s] = Failed]
  /\ UNCHANGED <<net, localVars, built>>

----------------------------------------------------------------------------
(* Receiving.                                                               *)

Authenticate(s, m) ==
  outcome' = [outcome EXCEPT ![s] =
    [status |-> "done", peer |-> m.sender, addr |-> m.addr,
     is_server |-> is_server(s, m.sender)]]

\* The candidate whose confirm is oldest makes room.  (Mutant: one too late.)
Evict_Late(q) == IF Len(q) > MaxCandidates THEN Tail(q) ELSE q
Evict(q) == IF Len(q) >= MaxCandidates THEN Tail(q) ELSE q

\* The buffered confirms that a new candidate verifies; the first one counts.
\* (Mutant: the replay is forgotten.)
Replayed_None(s, p) == {}
Replayed(s, p) ==
  {i \in 1 .. Len(buffered_confirms[s]) : process_confirm_msg(buffered_confirms[s][i], s, p)}

RecvSpake2(s, p) ==
  LET cp == build_confirm_payload(s, p)
  IN /\ Running(s)
     /\ Spake2(p) \in net
     /\ p # s /\ p \notin Peers(s)
     /\ candidates' = [candidates EXCEPT ![s] = Append(Evict(@), cp)]
     /\ built' = built \cup {cp}
     /\ net' = net \cup {Confirm(cp)}
     /\ \/ Replayed(s, p) = {} /\ UNCHANGED outcome
        \/ \E i \in Replayed(s, p) :
             /\ \A j \in Replayed(s, p) : i <= j
             /\ Authenticate(s, buffered_confirms[s][i])
     /\ UNCHANGED <<received_regd, buffered_confirms>>

RecvConfirm(s, m) ==
  /\ Running(s)
  /\ m.sender # s /\ Confirm(m) \in net
  /\ \/ /\ \E p \in Peers(s) : process_confirm_msg(m, s, p)
        /\ Authenticate(s, m)
        /\ UNCHANGED buffered_confirms
     \/ /\ \A p \in Peers(s) : ~ process_confirm_msg(m, s, p)
        /\ Len(buffered_confirms[s]) < MaxBuffered
        /\ buffered_confirms' = [buffered_confirms EXCEPT ![s] = Append(@, m)]
        /\ UNCHANGED outcome
  /\ UNCHANGED <<net, received_regd, candidates, built>>

----------------------------------------------------------------------------
Recv(s) ==
  \/ \E p \in Sessions : RecvSpake2(s, p)
  \/ \E m \in built : RecvConfirm(s, m)

Progress(s) ==
  RecvRegd(s) \/ SendSpake2(s) \/ ResendConfirm(s) \/ Recv(s)

Next ==
  \/ \E s \in Sessions : Progress(s) \/ GiveUp(s)
  \/ \E m \in net : Lose(m)

Spec == Init /\ [][Next]_vars

\* A run keeps going round its loop, so what is due is sent again and again,
\* and the relay answers.  The network is fair: of what is sent for ever it
\* does not lose everything.
Fairness ==
  \A s \in Sessions :
    /\ WF_vars(RecvRegd(s)) /\ WF_vars(SendSpake2(s)) /\ WF_vars(ResendConfirm(s))
    /\ \A p \in Sessions : SF_vars(RecvSpake2(s, p))
    /\ \A p \in Sessions, a \in {"local", "external"} :
         SF_vars(\E m \in built : m.sender = p /\ m.addr = a /\ RecvConfirm(s, m))

----------------------------------------------------------------------------
(* Properties.                                                              *)

Payload == [sender : Sessions, receiver : Sessions, addr : {"local", "external"}]
Message == [kind : {"spake2"}, from : Sessions] \cup [kind : {"confirm"}, payload : Payload]
Outcome == {Pending, Failed} \cup
  [status : {"done"}, peer : Sessions, addr : {"local", "external"}, is_server : BOOLEAN]

\* Every variable has its type, and the two tables stay within their limits.
TypeOK ==
  /\ net \subseteq Message
  /\ received_regd \in [Sessions -> BOOLEAN]
  /\ built \subseteq Payload
  /\ candidates \in [Sessions -> Seq(Payload)]
  /\ buffered_confirms \in [Sessions -> Seq(Payload)]
  /\ outcome \in [Sessions -> Outcome]
  /\ \A s \in Sessions : /\ Len(candidates[s]) <= MaxCandidates
                         /\ Len(buffered_confirms[s]) <= MaxBuffered

\* The exchange keeps the promise of Handshake.
H == INSTANCE Handshake WITH
       Addrs <- {"local", "external"},
       engaged <- {<<m.sender, m.receiver, m.addr>> : m \in built}

\* register_and_exchange implements Handshake: whatever is lost, repeated or
\* overtaken, it returns Ok only with a run of the same code that has built a
\* confirm for this very run, with the address that run put into it.
Implements == H!AbsSpec

Done(s) == outcome[s].status = "done"
Alone(s, t) == \A u \in Sessions \ {s, t} : Code[u] # Code[s]

\* When both peers of a code succeed, and nobody else used it, they have
\* authenticated each other and one of them is the server.
PairAgrees ==
  \A s, t \in Sessions :
    s # t /\ Code[s] = Code[t] /\ Alone(s, t) /\ Done(s) /\ Done(t)
      => /\ outcome[s].peer = t /\ outcome[t].peer = s
         /\ outcome[s].is_server # outcome[t].is_server

\* A confirm that overtook its spake2 message is not forgotten: no run sits on
\* a buffered confirm that one of its candidates would verify, also after that
\* candidate was evicted and came back.
NoConfirmMissed ==
  \A s \in Sessions : Running(s) =>
    \A i \in 1 .. Len(buffered_confirms[s]), p \in Peers(s) :
      ~ process_confirm_msg(buffered_confirms[s][i], s, p)

\* Two peers that keep trying do not miss each other for ever on a lossy
\* network: one of them authenticates, unless one gives up.
SomeoneAuthenticates == <>(\E s \in Sessions : ~ Running(s))

\* README.md: "Both peers send to each other's external address at once".
PeerExternal == \A s \in Sessions : Done(s) => outcome[s].addr = "external"
=============================================================================
