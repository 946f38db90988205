---------------------------- MODULE MCExchange ----------------------------
(***************************************************************************)
(* Small instances of the exchange for TLC.                                 *)
(***************************************************************************)
EXTENDS Exchange, TLC

CONSTANTS s1, s2, s3, mine, other

TwoPeers == {s1, s2}
WithStranger == {s1, s2, s3}
Both == {mine, other}

OneCode == (s1 :> mine) @@ (s2 :> mine)
StrangerCode == (s1 :> mine) @@ (s2 :> mine) @@ (s3 :> other)

TwoPoints == (s1 :> 1) @@ (s2 :> 2)
ThreePoints == (s1 :> 1) @@ (s2 :> 3) @@ (s3 :> 2)

\* What is lost is what is never received, a run that gave up is one that does
\* nothing any more, and a confirm that reaches a stranger changes nothing for
\* the two peers: the safety properties need none of these steps.
KeepNext ==
  \E s \in Sessions :
    \/ RecvRegd(s) \/ SendSpake2(s) \/ ResendConfirm(s)
    \/ \E p \in Sessions : RecvSpake2(s, p)
    \/ Code[s] = mine /\ \E m \in built : RecvConfirm(s, m)
KeepSpec == Init /\ [][KeepNext]_vars

FairSpec == Spec /\ Fairness
=============================================================================
