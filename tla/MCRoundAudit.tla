---------------------------- MODULE MCRoundAudit ----------------------------
(* Instances of RoundAudit for TLC: a route with two checkpoints one way and *)
(* one the other, all planned at the hour of departure, and reports at two   *)
(* hours, one of them late.                                                  *)
EXTENDS RoundAudit, TLC

CONSTANTS c1, c2, back, out1, out2, end

ThreeCheckpoints == {c1, c2, back}
TwoStarts        == {out1, out2}
TheWay           == {out1, c1, c2, end}
TheRoute         == TheWay \cup {back, out2}

AtDeparture == [c \in Checkpoints |-> 0]

Enter(stop, time) == [stop |-> stop, event |-> "enter", time |-> time]
Exit(stop, time)  == [stop |-> stop, event |-> "exit", time |-> time]

\* c2 is only ever reached late, c1 is left once; the way back is touched late.
SomeLists ==
  {<<Enter(out1, 0)>>, <<Enter(out2, 1)>>, <<Enter(c1, 1)>>, <<Exit(c1, 1)>>, <<Enter(end, 1)>>,
   <<Enter(out1, 0), Enter(c1, 1)>>, <<Enter(c1, 0), Enter(c2, 1)>>,
   <<Enter(c1, 1), Enter(back, 1)>>}

ShortWay == {out1, c1}

\* One checkpoint reported again and again, on time and late.
FewLists == {<<Enter(out1, 0), Enter(c1, 1)>>, <<Enter(c1, 1), Enter(c1, 0)>>, <<Enter(c1, 0)>>}

\* It is all one which request is which; no liveness is checked with it.
AnyRequest == Permutations(Requests)

\* By the start on time, by the checkpoints late; the end, which is neither judged nor
\* fined, is left to its reporters.
PassedBy == [s \in Stops |-> CASE s = out1 -> {0} [] s \in {c1, c2} -> {1} [] OTHER -> {}]
=============================================================================
