--------------------------- MODULE ExchangeProofs ---------------------------
(***************************************************************************)
(* The exchange implements Handshake, for any number of runs and any table  *)
(* limits.                                                                  *)
(***************************************************************************)
EXTENDS Exchange, SequenceTheorems, TLAPS

\* The payloads a run has built for others.
Own(s) == {m \in built : m.sender = s /\ m.receiver # s}

\* What the tables and the network hold was built by the run it names.
Genuine ==
  /\ \A m \in Payload : Confirm(m) \in net => m \in built
  /\ \A s \in Sessions : \A i \in 1 .. Len(candidates[s]) : candidates[s][i] \in Own(s)
  /\ \A s \in Sessions : \A i \in 1 .. Len(buffered_confirms[s]) :
       buffered_confirms[s][i] \in built

\* What a run that succeeded has concluded.
Concluded ==
  \A s \in Sessions : Done(s) =>
    /\ outcome[s].peer # s
    /\ Code[outcome[s].peer] = Code[s]
    /\ outcome[s].is_server = is_server(s, outcome[s].peer)

IInv == TypeOK /\ Genuine /\ Concluded /\ NoConfirmMissed

----------------------------------------------------------------------------
(* Sequences.                                                               *)

\* Moving an element to the end loses none and adds none.
LEMMA MoveToEndKeeps ==
  ASSUME NEW S, NEW q \in Seq(S), NEW i \in 1 .. Len(q)
  PROVE  /\ MoveToEnd(q, i) \in Seq(S)
         /\ Len(MoveToEnd(q, i)) = Len(q)
         /\ \A k \in 1 .. Len(MoveToEnd(q, i)) :
              \E j \in 1 .. Len(q) : MoveToEnd(q, i)[k] = q[j]
  <1> DEFINE a == SubSeq(q, 1, i - 1)
             b == SubSeq(q, i + 1, Len(q))
             c == a \o b
  <1>1. a \in Seq(S) /\ Len(a) = i - 1 /\ \A k \in 1 .. Len(a) : a[k] = q[k]
    OBVIOUS
  <1>2. b \in Seq(S) /\ Len(b) = Len(q) - i /\ \A k \in 1 .. Len(b) : b[k] = q[i + k]
    BY SMTT(30)
  <1> HIDE DEF a, b
  <1>3. /\ c \in Seq(S) /\ Len(c) = Len(q) - 1
        /\ \A k \in 1 .. Len(c) : c[k] = IF k <= Len(a) THEN a[k] ELSE b[k - Len(a)]
    <2>1. Len(a) + Len(b) = Len(q) - 1
      BY <1>1, <1>2
    <2>2. /\ c \in Seq(S) /\ Len(c) = Len(a) + Len(b)
          /\ \A k \in 1 .. Len(a) + Len(b) :
               c[k] = IF k <= Len(a) THEN a[k] ELSE b[k - Len(a)]
      BY <1>1, <1>2, ConcatProperties, Zenon
    <2> HIDE DEF c
    <2> QED BY <2>1, <2>2
  <1>4. ASSUME NEW k \in 1 .. Len(c)
        PROVE  \E j \in 1 .. Len(q) : c[k] = q[j]
    <2>1. CASE k <= i - 1
      BY <2>1, <1>1, <1>3
    <2>2. CASE k > i - 1
      <3>1. c[k] = b[k - (i - 1)] /\ k - (i - 1) \in 1 .. Len(b)
        BY <2>2, <1>1, <1>2, <1>3
      <3> QED BY <3>1, <1>2, SMTT(30)
    <2> QED BY <2>1, <2>2
  <1>5. MoveToEnd(q, i) = Append(c, q[i])
    BY DEF MoveToEnd, a, b
  <1> HIDE DEF c
  <1> QED BY <1>3, <1>4, <1>5

\* Evicting keeps the rest and leaves room for one more.
LEMMA EvictKeeps ==
  ASSUME NEW S, NEW q \in Seq(S), Len(q) <= MaxCandidates
  PROVE  /\ Evict(q) \in Seq(S)
         /\ Len(Evict(q)) < MaxCandidates
         /\ \A k \in 1 .. Len(Evict(q)) : \E j \in 1 .. Len(q) : Evict(q)[k] = q[j]
  BY ExchangeAssumption DEF Evict

\* A confirm verifies only with the run that built it, for this run, from the
\* same code.
LEMMA Verified ==
  ASSUME NEW m \in Payload, NEW s \in Sessions, NEW p \in Sessions,
         process_confirm_msg(m, s, p)
  PROVE  m.sender = p /\ m.receiver = s /\ Code[p] = Code[s]
  BY DEF process_confirm_msg, derive_session_key

----------------------------------------------------------------------------
(* The invariant.                                                           *)

\* A run that failed is not running.
LEMMA FailedEnded == Pending # Failed
  <1>1. Pending.status = "running" /\ Failed.status = "failed"
    BY DEF Pending, Failed
  <1> QED BY <1>1

\* Nothing has been built, sent or concluded in the beginning.
LEMMA InitIInv == Init => IInv
  BY ExchangeAssumption
  DEF Init, IInv, TypeOK, Genuine, Concluded, NoConfirmMissed, Outcome, Pending, Done, Confirm, Peers

\* Steps that leave the tables and the payloads alone.
LEMMA QuietStep ==
  ASSUME IInv, NEW s \in Sessions,
         RecvRegd(s) \/ SendSpake2(s) \/ GiveUp(s) \/ \E m \in net : Lose(m)
  PROVE  IInv'
  <1>1. UNCHANGED <<candidates, buffered_confirms, built>>
    BY DEF RecvRegd, SendSpake2, GiveUp, Lose, localVars
  <1>2. net' \subseteq net \cup {Spake2(s)} /\ received_regd' \in [Sessions -> BOOLEAN]
    BY Zenon DEF RecvRegd, SendSpake2, GiveUp, Lose, localVars, IInv, TypeOK
  <1>3. outcome' = outcome \/ outcome' = [outcome EXCEPT ![s] = Failed]
    BY DEF RecvRegd, SendSpake2, GiveUp, Lose
  <1>4. TypeOK'
    <2>1. Spake2(s) \in Message
      BY DEF Spake2, Message
    <2>2. Failed \in Outcome
      BY DEF Outcome
    <2> QED BY <1>1, <1>2, <1>3, <2>1, <2>2, Zenon DEF IInv, TypeOK
  <1>5. Genuine'
    BY <1>1, <1>2 DEF IInv, Genuine, Own, Confirm, Spake2
  <1>6. Concluded'
    <2>1. ASSUME NEW t \in Sessions, Done(t)'
          PROVE  Done(t) /\ outcome'[t] = outcome[t]
      BY <1>3, <2>1 DEF IInv, TypeOK, Done, Failed
    <2> QED BY <2>1 DEF IInv, Concluded
  <1>7. NoConfirmMissed'
    <2>1. ASSUME NEW t \in Sessions, Running(t)'
          PROVE  Running(t)
      BY <1>3, <2>1, FailedEnded DEF IInv, TypeOK, Running
    <2>2. \A t \in Sessions : Peers(t)' = Peers(t)
      BY <1>1 DEF Peers
    <2> QED BY <1>1, <2>1, <2>2 DEF IInv, NoConfirmMissed
  <1> QED BY <1>4, <1>5, <1>6, <1>7 DEF IInv

\* A confirm is sent again and its candidate becomes the youngest.
LEMMA ResendStep ==
  ASSUME IInv, NEW s \in Sessions, ResendConfirm(s)
  PROVE  IInv'
  <1>1. PICK i \in 1 .. Len(candidates[s]) :
          /\ net' = net \cup {Confirm(candidates[s][i])}
          /\ candidates' = [candidates EXCEPT ![s] = MoveToEnd(@, i)]
    BY Zenon DEF ResendConfirm
  <1>2. UNCHANGED <<received_regd, buffered_confirms, built, outcome>>
    BY DEF ResendConfirm
  <1> DEFINE q == candidates[s]
             c == MoveToEnd(q, i)
  <1>3. q \in Seq(Payload) /\ q[i] \in built /\ q[i] \in Payload
    BY DEF IInv, TypeOK, Genuine, Own
  <1>4. /\ c \in Seq(Payload) /\ Len(c) = Len(q)
        /\ \A k \in 1 .. Len(c) : \E j \in 1 .. Len(q) : c[k] = q[j]
    BY <1>3, MoveToEndKeeps, Zenon
  <1>5. \A t \in Sessions : candidates'[t] = IF t = s THEN c ELSE candidates[t]
    BY <1>1 DEF IInv, TypeOK
  <1> HIDE DEF c
  <1>6. TypeOK'
    <2>1. Confirm(q[i]) \in Message
      BY <1>3 DEF Confirm, Message
    <2>2. candidates' \in [Sessions -> Seq(Payload)]
      BY <1>1, <1>4 DEF IInv, TypeOK, c
    <2> QED BY <1>1, <1>2, <1>4, <1>5, <2>1, <2>2 DEF IInv, TypeOK
  <1>7. Genuine'
    <2>1. \A m \in Payload : Confirm(m) \in net' => m \in built
      BY <1>1, <1>3 DEF IInv, Genuine, Confirm
    <2>2. \A t \in Sessions : \A k \in 1 .. Len(candidates'[t]) : candidates'[t][k] \in Own(t)
      BY <1>4, <1>5, Zenon DEF IInv, Genuine
    <2> QED BY <1>2, <2>1, <2>2 DEF IInv, Genuine, Own
  <1>8. Concluded'
    BY <1>2 DEF IInv, Concluded, Done, is_server
  <1>9. NoConfirmMissed'
    <2>1. \A t \in Sessions : Peers(t)' \subseteq Peers(t)
      <3> SUFFICES ASSUME NEW t \in Sessions, NEW k \in 1 .. Len(candidates'[t])
                   PROVE  candidates'[t][k].receiver \in Peers(t)
        BY Zenon DEF Peers
      <3>1. PICK j \in 1 .. Len(candidates[t]) : candidates'[t][k] = candidates[t][j]
        BY <1>4, <1>5, Zenon
      <3> QED BY <3>1, Zenon DEF Peers
    <2>2. \A t \in Sessions : Running(t)' = Running(t)
      BY <1>2 DEF Running
    <2> QED BY <1>2, <2>1, <2>2 DEF IInv, NoConfirmMissed
  <1> QED BY <1>6, <1>7, <1>8, <1>9 DEF IInv

\* The facts the two ways to authenticate share: s concludes from the payload m.
LEMMA Conclusion ==
  ASSUME IInv, NEW s \in Sessions, NEW m \in Payload, NEW p \in Sessions,
         p # s, process_confirm_msg(m, s, p), Authenticate(s, m)
  PROVE  /\ outcome' \in [Sessions -> Outcome]
         /\ Concluded'
         /\ \A t \in Sessions : Running(t)' => Running(t)
         /\ m.sender = p /\ m.receiver = s /\ Code[p] = Code[s]
  <1> DEFINE o == [status |-> "done", peer |-> m.sender, addr |-> m.addr,
                   is_server |-> is_server(s, m.sender)]
  <1>1. m.sender = p /\ m.receiver = s /\ Code[p] = Code[s]
    BY Verified
  <1>2. outcome' = [outcome EXCEPT ![s] = o]
    BY DEF Authenticate
  <1>3. o \in Outcome /\ o # Pending
    <2>1. is_server(s, m.sender) \in BOOLEAN /\ m.addr \in {"local", "external"}
      BY DEF is_server, Payload
    <2>2. o.status = "done" /\ Pending.status = "running"
      BY DEF Pending
    <2> QED BY <1>1, <2>1, <2>2 DEF Outcome
  <1>4. o.status = "done" /\ o.peer = p /\ o.is_server = is_server(s, p)
    BY <1>1
  <1> HIDE DEF o
  <1>5. outcome' \in [Sessions -> Outcome] /\ \A t \in Sessions : Running(t)' => Running(t)
    BY <1>2, <1>3 DEF IInv, TypeOK, Running
  <1>6. Concluded'
    <2> SUFFICES ASSUME NEW t \in Sessions, Done(t)'
                 PROVE  /\ outcome'[t].peer # t
                        /\ Code[outcome'[t].peer] = Code[t]
                        /\ outcome'[t].is_server = is_server(t, outcome'[t].peer)
      BY DEF Concluded
    <2>1. CASE t = s
      <3>1. outcome'[t] = o
        BY <1>2, <2>1 DEF IInv, TypeOK
      <3> QED BY <1>1, <1>4, <2>1, <3>1
    <2>2. CASE t # s
      <3>1. outcome'[t] = outcome[t]
        BY <1>2, <2>2 DEF IInv, TypeOK
      <3> QED BY <3>1 DEF IInv, Concluded, Done
    <2> QED BY <2>1, <2>2
  <1> QED BY <1>1, <1>5, <1>6

\* A confirm arrives: it is accepted or buffered.
LEMMA ConfirmStep ==
  ASSUME IInv, NEW s \in Sessions, NEW m \in built, RecvConfirm(s, m)
  PROVE  IInv'
  <1>1. UNCHANGED <<net, received_regd, candidates, built>> /\ m \in Payload
    BY DEF RecvConfirm, IInv, TypeOK
  <1>2. CASE /\ \E p \in Peers(s) : process_confirm_msg(m, s, p)
             /\ Authenticate(s, m)
             /\ UNCHANGED buffered_confirms
    <2>1. PICK p \in Peers(s) : process_confirm_msg(m, s, p)
      BY <1>2
    <2>2. p \in Sessions /\ p # s
      <3>1. PICK i \in 1 .. Len(candidates[s]) : p = candidates[s][i].receiver
        BY <2>1 DEF Peers
      <3>2. candidates[s][i] \in built /\ candidates[s][i].receiver # s
        BY DEF IInv, Genuine, Own
      <3>3. candidates[s][i] \in Payload
        BY <3>2 DEF IInv, TypeOK
      <3> QED BY <3>1, <3>2, <3>3 DEF Payload
    <2>3. /\ outcome' \in [Sessions -> Outcome] /\ Concluded'
          /\ \A t \in Sessions : Running(t)' => Running(t)
      BY <1>1, <1>2, <2>1, <2>2, Conclusion, SMTT(30)
    <2>4. TypeOK' /\ Genuine'
      BY <1>1, <1>2, <2>3 DEF IInv, TypeOK, Genuine, Own
    <2>5. NoConfirmMissed'
      <3>1. \A t \in Sessions : Peers(t)' = Peers(t)
        BY <1>1 DEF Peers
      <3> QED BY <1>2, <2>3, <3>1 DEF IInv, NoConfirmMissed
    <2> QED BY <2>3, <2>4, <2>5 DEF IInv
  <1>3. CASE /\ \A p \in Peers(s) : ~ process_confirm_msg(m, s, p)
             /\ Len(buffered_confirms[s]) < MaxBuffered
             /\ buffered_confirms' = [buffered_confirms EXCEPT ![s] = Append(@, m)]
             /\ UNCHANGED outcome
    <2> DEFINE b == Append(buffered_confirms[s], m)
    <2>1. /\ b \in Seq(Payload) /\ Len(b) = Len(buffered_confirms[s]) + 1
          /\ \A k \in 1 .. Len(b) :
               b[k] = m \/ \E j \in 1 .. Len(buffered_confirms[s]) : b[k] = buffered_confirms[s][j]
      BY <1>1 DEF IInv, TypeOK
    <2>2. /\ buffered_confirms' \in [Sessions -> Seq(Payload)]
          /\ \A t \in Sessions :
               buffered_confirms'[t] = IF t = s THEN b ELSE buffered_confirms[t]
      BY <1>3, <2>1 DEF IInv, TypeOK
    <2> HIDE DEF b
    <2>3. TypeOK'
      BY <1>1, <1>3, <2>1, <2>2, ExchangeAssumption DEF IInv, TypeOK
    <2>4. Genuine' /\ Concluded'
      BY <1>1, <1>3, <2>1, <2>2 DEF IInv, Genuine, Own, Concluded, Done
    <2>5. NoConfirmMissed'
      <3>1. \A t \in Sessions : Peers(t)' = Peers(t) /\ Running(t)' = Running(t)
        BY <1>1, <1>3 DEF Peers, Running
      <3> QED BY <1>3, <2>1, <2>2, <3>1 DEF IInv, NoConfirmMissed
    <2> QED BY <2>3, <2>4, <2>5 DEF IInv
  <1> QED BY <1>2, <1>3 DEF RecvConfirm

\* A spake2 message of p arrives: s builds a confirm for p, which becomes a
\* candidate, and the buffered confirms are tried with it.
LEMMA SpakeStep ==
  ASSUME IInv, NEW s \in Sessions, NEW p \in Sessions, RecvSpake2(s, p)
  PROVE  IInv'
  <1> DEFINE cp == build_confirm_payload(s, p)
             c == Append(Evict(candidates[s]), cp)
  <1>1. /\ UNCHANGED <<received_regd, buffered_confirms>>
        /\ p # s /\ p \notin Peers(s)
        /\ candidates' = [candidates EXCEPT ![s] = c]
        /\ built' = built \cup {cp}
        /\ net' = net \cup {Confirm(cp)}
    BY DEF RecvSpake2
  <1>2. cp \in Payload /\ cp.sender = s /\ cp.receiver = p
    BY DEF build_confirm_payload, my_addr, Payload
  <1>3. /\ c \in Seq(Payload) /\ Len(c) <= MaxCandidates
        /\ \A k \in 1 .. Len(c) :
             c[k] = cp \/ \E j \in 1 .. Len(candidates[s]) : c[k] = candidates[s][j]
    <2> DEFINE d == Evict(candidates[s])
    <2>1. /\ d \in Seq(Payload)
          /\ Len(d) < MaxCandidates
          /\ \A k \in 1 .. Len(d) : \E j \in 1 .. Len(candidates[s]) : d[k] = candidates[s][j]
      <3>1. candidates[s] \in Seq(Payload) /\ Len(candidates[s]) <= MaxCandidates
        BY DEF IInv, TypeOK
      <3> QED BY <3>1, EvictKeeps, Zenon
    <2> HIDE DEF cp, d
    <2>2. MaxCandidates \in Nat
      BY ExchangeAssumption
    <2>3. c = Append(d, cp)
      BY DEF d
    <2>4. Append(d, cp) \in Seq(Payload) /\ Len(Append(d, cp)) = Len(d) + 1
      BY <1>2, <2>1
    <2>5. \A k \in 1 .. Len(d) + 1 : Append(d, cp)[k] = IF k = Len(d) + 1 THEN cp ELSE d[k]
      BY <1>2, <2>1
    <2> HIDE DEF c
    <2> QED BY <2>1, <2>2, <2>3, <2>4, <2>5
  <1> HIDE DEF c, cp
  <1>4. /\ candidates' \in [Sessions -> Seq(Payload)]
        /\ \A t \in Sessions : candidates'[t] = IF t = s THEN c ELSE candidates[t]
    BY <1>1, <1>3 DEF IInv, TypeOK
  <1>5. Genuine'
    <2>1. \A m \in Payload : Confirm(m) \in net' => m \in built'
      BY <1>1, <1>2 DEF IInv, Genuine, Confirm
    <2>2. ASSUME NEW t \in Sessions, NEW k \in 1 .. Len(candidates'[t])
          PROVE  candidates'[t][k] \in Own(t)'
      BY <1>1, <1>2, <1>3, <1>4 DEF IInv, Genuine, Own
    <2>3. \A t \in Sessions : \A i \in 1 .. Len(buffered_confirms'[t]) :
            buffered_confirms'[t][i] \in built'
      BY <1>1 DEF IInv, Genuine
    <2> QED BY <2>1, <2>2, <2>3 DEF Genuine
  <1>6. Confirm(cp) \in Message
    BY <1>2 DEF Confirm, Message
  <1>7. \A t \in Sessions : Peers(t)' \subseteq (IF t = s THEN Peers(t) \cup {p} ELSE Peers(t))
    <2> SUFFICES ASSUME NEW t \in Sessions, NEW k \in 1 .. Len(candidates'[t])
                 PROVE  candidates'[t][k].receiver
                          \in (IF t = s THEN Peers(t) \cup {p} ELSE Peers(t))
      BY Zenon DEF Peers
    <2>1. CASE t = s
      BY <1>2, <1>3, <1>4, <2>1 DEF Peers
    <2>2. CASE t # s
      BY <1>4, <2>2, Zenon DEF Peers
    <2> QED BY <2>1, <2>2
  <1>8. CASE Replayed(s, p) = {} /\ UNCHANGED outcome
    <2>1. TypeOK' /\ Concluded'
      BY <1>1, <1>2, <1>3, <1>4, <1>6, <1>8 DEF IInv, TypeOK, Concluded, Done
    <2>2. NoConfirmMissed'
      <3>1. \A i \in 1 .. Len(buffered_confirms[s]) :
              ~ process_confirm_msg(buffered_confirms[s][i], s, p)
        BY <1>8 DEF Replayed
      <3>2. \A t \in Sessions : Running(t)' = Running(t)
        BY <1>8 DEF Running
      <3> QED BY <1>1, <1>7, <3>1, <3>2 DEF IInv, NoConfirmMissed
    <2> QED BY <1>5, <2>1, <2>2 DEF IInv
  <1>9. CASE \E i \in Replayed(s, p) : Authenticate(s, buffered_confirms[s][i])
    <2>1. PICK i \in 1 .. Len(buffered_confirms[s]) :
            /\ process_confirm_msg(buffered_confirms[s][i], s, p)
            /\ Authenticate(s, buffered_confirms[s][i])
      BY <1>9 DEF Replayed
    <2>2. buffered_confirms[s][i] \in Payload
      BY DEF IInv, TypeOK
    <2>3. /\ outcome' \in [Sessions -> Outcome] /\ Concluded'
          /\ \A t \in Sessions : Running(t)' => Running(t)
      BY <1>1, <2>1, <2>2, Conclusion, SMTT(30)
    <2>4. ~ Running(s)'
      BY <2>1 DEF Authenticate, Running, Pending, IInv, TypeOK
    <2>5. TypeOK'
      BY <1>1, <1>2, <1>3, <1>4, <1>6, <2>3 DEF IInv, TypeOK
    <2>6. NoConfirmMissed'
      BY <1>1, <1>7, <2>3, <2>4 DEF IInv, NoConfirmMissed
    <2> QED BY <1>5, <2>3, <2>5, <2>6 DEF IInv
  <1> QED BY <1>8, <1>9 DEF RecvSpake2

----------------------------------------------------------------------------
(* The theorems.                                                            *)

\* The invariant is inductive.
LEMMA IInvStep == IInv /\ [Next]_vars => IInv'
  <1> SUFFICES ASSUME IInv, [Next]_vars PROVE IInv'
    OBVIOUS
  <1>1. ASSUME NEW s \in Sessions, RecvRegd(s) \/ SendSpake2(s) \/ GiveUp(s)
        PROVE  IInv'
    BY <1>1, QuietStep
  <1>2. ASSUME NEW m \in net, Lose(m)
        PROVE  IInv'
    <2>1. \E s \in Sessions : TRUE
      BY DEF IInv, TypeOK, Message, Payload
    <2> QED BY <1>2, <2>1, QuietStep
  <1>3. ASSUME NEW s \in Sessions, ResendConfirm(s)
        PROVE  IInv'
    BY <1>3, ResendStep
  <1>4. ASSUME NEW s \in Sessions, NEW p \in Sessions, RecvSpake2(s, p)
        PROVE  IInv'
    BY <1>4, SpakeStep
  <1>5. ASSUME NEW s \in Sessions, NEW m \in built, RecvConfirm(s, m)
        PROVE  IInv'
    BY <1>5, ConfirmStep
  <1>6. CASE UNCHANGED vars
    <2>1. /\ UNCHANGED <<net, received_regd, candidates, buffered_confirms, built, outcome>>
          /\ \A t \in Sessions : Peers(t)' = Peers(t)
      BY <1>6 DEF vars, localVars, Peers
    <2> QED BY <2>1 DEF IInv, TypeOK, Genuine, Own, Concluded, Done, NoConfirmMissed, Running
  <1> QED BY <1>1, <1>2, <1>3, <1>4, <1>5, <1>6 DEF Next, Progress, Recv

\* Every reachable state satisfies the invariant.
LEMMA Invariance == Spec => []IInv
  BY InitIInv, IInvStep, PTL DEF Spec

\* The tables of register_and_exchange keep their types and their limits,
\* MAX_CANDIDATES and MAX_BUFFERED_CONFIRMS, with any number of runs.
THEOREM ExchangeTypeCorrect == Spec => []TypeOK
  <1>1. IInv => TypeOK
    BY DEF IInv
  <1> QED BY <1>1, Invariance, PTL

\* A confirm that arrived before its spake2 message is used as soon as the
\* message arrives, whatever was evicted in between.
THEOREM ConfirmNotMissed == Spec => []NoConfirmMissed
  <1>1. IInv => NoConfirmMissed
    BY DEF IInv
  <1> QED BY <1>1, Invariance, PTL

\* Two runs alone with their code that both succeed name each other, and
\* exactly one of them is the server.
THEOREM PairsAgree == Spec => []PairAgrees
  <1>1. IInv => PairAgrees
    <2> SUFFICES ASSUME IInv, NEW s \in Sessions, NEW t \in Sessions,
                        s # t, Code[s] = Code[t], Alone(s, t), Done(s), Done(t)
                 PROVE  /\ outcome[s].peer = t /\ outcome[t].peer = s
                        /\ outcome[s].is_server # outcome[t].is_server
      BY DEF PairAgrees
    <2>1. \A o \in Outcome : o.status = "done" => o.peer \in Sessions
      BY DEF Outcome, Pending, Failed
    <2>2. outcome[s].peer \in Sessions /\ outcome[t].peer \in Sessions
      BY <2>1 DEF IInv, TypeOK, Done
    <2>3. outcome[s].peer = t /\ outcome[t].peer = s
      BY <2>2 DEF IInv, Concluded, Alone
    <2>4. outcome[s].is_server = is_server(s, t) /\ outcome[t].is_server = is_server(t, s)
      BY <2>3 DEF IInv, Concluded
    <2>5. is_server(s, t) # is_server(t, s)
      BY ExchangeAssumption DEF is_server
    <2> QED BY <2>3, <2>4, <2>5
  <1> QED BY <1>1, Invariance, PTL

\* register_and_exchange implements Handshake for any number of runs, codes and
\* points and any table limits.  engaged is the history of the payloads built;
\* a confirm that is accepted, at once or from the buffer, is Accept, the other
\* spake2 messages are Engage, and everything else but giving up is invisible.
THEOREM ExchangeImplements == Spec => Implements
  <1> DEFINE E == {<<m.sender, m.receiver, m.addr>> : m \in built}
             Here == {"local", "external"}
  <1>1. Init => H!AbsInit
    BY DEF Init, H!AbsInit, Pending, H!Pending
  <1>2. ASSUME IInv, NEW s \in Sessions, NEW m \in Payload, NEW p \in Sessions, p # s,
               m \in built, Running(s), process_confirm_msg(m, s, p), Authenticate(s, m),
               NEW b \in Here, E' = E \cup {<<s, p, b>>}
        PROVE  H!AbsNext
    <2>1. m.sender = p /\ m.receiver = s /\ Code[p] = Code[s] /\ m.addr \in Here
      BY <1>2, Verified DEF Payload
    <2>2. <<p, s, m.addr>> \in E
      BY <1>2, <2>1
    <2>3. outcome' = [outcome EXCEPT ![s] = H!Authenticated(s, p, m.addr)]
      BY <1>2, <2>1 DEF Authenticate, H!Authenticated, is_server
    <2>4. outcome[s] = H!Pending
      BY <1>2 DEF Running, Pending, H!Pending
    <2>5. H!Accept(s, p, m.addr)
      BY <1>2, <2>1, <2>2, <2>3, <2>4 DEF H!Accept
    <2> QED BY <1>2, <2>1, <2>5 DEF H!AbsNext
  <1>3. ASSUME IInv, NEW s \in Sessions, NEW p \in Sessions, RecvSpake2(s, p)
        PROVE  H!AbsNext
    <2> DEFINE cp == build_confirm_payload(s, p)
    <2>1. /\ cp.sender = s /\ cp.receiver = p /\ cp.addr \in Here
          /\ built' = built \cup {cp} /\ Running(s) /\ p # s
      BY <1>3 DEF RecvSpake2, build_confirm_payload, my_addr
    <2> HIDE DEF cp
    <2>2. E' = E \cup {<<s, p, cp.addr>>}
      BY <2>1
    <2>3. CASE UNCHANGED outcome
      <3>1. outcome[s] = H!Pending
        BY <2>1 DEF Running, Pending, H!Pending
      <3>2. PICK b \in Here : cp.addr = b
        BY <2>1
      <3>3. H!Engage(s, p, b)
        BY <2>2, <2>3, <3>1, <3>2 DEF H!Engage
      <3> QED BY <2>1, <3>3 DEF H!AbsNext
    <2>4. CASE \E i \in Replayed(s, p) : Authenticate(s, buffered_confirms[s][i])
      <3>1. PICK i \in 1 .. Len(buffered_confirms[s]) :
              /\ process_confirm_msg(buffered_confirms[s][i], s, p)
              /\ Authenticate(s, buffered_confirms[s][i])
        BY <2>4 DEF Replayed
      <3> DEFINE m == buffered_confirms[s][i]
      <3>2. m \in Payload /\ m \in built /\ process_confirm_msg(m, s, p) /\ Authenticate(s, m)
        BY <1>3, <3>1 DEF IInv, TypeOK, Genuine
      <3> HIDE DEF E, Here, m
      <3> QED BY <1>2, <1>3, <2>1, <2>2, <3>2
    <2> QED BY <1>3, <2>3, <2>4 DEF RecvSpake2
  <1>4. ASSUME IInv, NEW s \in Sessions, NEW m \in built, RecvConfirm(s, m)
        PROVE  H!AbsNext \/ UNCHANGED <<E, outcome>>
    <2>1. built' = built /\ E' = E /\ Running(s) /\ m \in Payload
      BY <1>4 DEF RecvConfirm, IInv, TypeOK
    <2>2. CASE \E p \in Peers(s) : process_confirm_msg(m, s, p) /\ Authenticate(s, m)
      <3>1. PICK i \in 1 .. Len(candidates[s]) :
              process_confirm_msg(m, s, candidates[s][i].receiver) /\ Authenticate(s, m)
        BY <2>2 DEF Peers
      <3> DEFINE c == candidates[s][i]
      <3>2. c \in built /\ c \in Payload /\ c.sender = s /\ c.receiver # s
        BY <1>4 DEF IInv, TypeOK, Genuine, Own
      <3> HIDE DEF c
      <3>3. <<s, c.receiver, c.addr>> \in E /\ c.addr \in Here /\ c.receiver \in Sessions
        BY <3>2 DEF Payload
      <3>4. E' = E \cup {<<s, c.receiver, c.addr>>}
        BY <2>1, <3>3
      <3>5. process_confirm_msg(m, s, c.receiver) /\ Authenticate(s, m)
        BY <3>1 DEF c
      <3> HIDE DEF E, Here
      <3> QED BY <1>2, <1>4, <2>1, <3>2, <3>3, <3>4, <3>5
    <2>3. CASE UNCHANGED outcome
      BY <2>1, <2>3
    <2> QED BY <1>4, <2>2, <2>3 DEF RecvConfirm
  <1>5. ASSUME IInv, [Next]_vars
        PROVE  [H!AbsNext]_(H!absVars)
    <2>1. ASSUME NEW s \in Sessions, GiveUp(s)
          PROVE  H!AbsNext
      <3>1. H!GiveUp(s)
        BY <2>1 DEF GiveUp, H!GiveUp, Running, Pending, H!Pending, Failed, H!Failed
      <3> QED BY <3>1 DEF H!AbsNext
    <2>2. ASSUME NEW s \in Sessions, RecvRegd(s) \/ SendSpake2(s) \/ ResendConfirm(s)
          PROVE  UNCHANGED <<E, outcome>>
      BY <2>2 DEF RecvRegd, SendSpake2, ResendConfirm
    <2>3. ASSUME NEW m \in net, Lose(m)
          PROVE  UNCHANGED <<E, outcome>>
      BY <2>3 DEF Lose
    <2>4. CASE UNCHANGED vars
      BY <2>4 DEF vars, H!absVars
    <2>5. UNCHANGED <<E, outcome>> => UNCHANGED H!absVars
      BY DEF H!absVars
    <2> HIDE DEF E
    <2> QED BY <1>3, <1>4, <1>5, <2>1, <2>2, <2>3, <2>4, <2>5 DEF Next, Progress, Recv
  <1> QED BY <1>1, <1>5, Invariance, PTL DEF Spec, Implements, H!AbsSpec
=============================================================================
