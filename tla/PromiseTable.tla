---------------------------- MODULE PromiseTable ----------------------------
(***************************************************************************)
(* What the RPC engine promises a page that is not left: a call of a bound *)
(* function returns a promise; the request may be answered, a synchronous  *)
(* binding's always with a value; the first answer is final, and settles   *)
(* the promise in the end, unless it is lost on its way: then the promise  *)
(* stays pending, or a later answer settles it.  Only Win32 loses answers  *)
(* (Lossy).  No sequence numbers, queues or scripts.                       *)
(***************************************************************************)
EXTENDS Integers, Sequences

CONSTANTS Names, SyncNames, MaxCalls, Lossy

VARIABLE promises  \* one record for each call, in the order of the calls

Fresh(n) == [name |-> n, answer |-> "none", settled |-> FALSE]

Init == promises = << >>

Make(n) == promises' = Append(promises, Fresh(n))

Give(c, op) ==
  /\ promises[c].answer = "none"
  /\ op = "reject" => promises[c].name \notin SyncNames
  /\ promises' = [promises EXCEPT ![c].answer = op]

\* The answer that counts is on its way
Answered(c) == promises[c].answer \in {"resolve", "reject"} /\ ~promises[c].settled

Settle(c) ==
  /\ c \in DOMAIN promises
  /\ Answered(c)
  /\ promises' = [promises EXCEPT ![c].settled = TRUE]

Lose(c) ==
  /\ Lossy
  /\ Answered(c)
  /\ promises' = [promises EXCEPT ![c].answer = "lost"]

\* A later answer, to a promise that has lost the first one
SettleLate(c, op) ==
  /\ promises[c].answer = "lost"
  /\ op = "reject" => promises[c].name \notin SyncNames
  /\ promises' = [promises EXCEPT ![c] =
                    [name |-> promises[c].name, answer |-> op, settled |-> TRUE]]

Next ==
  \/ \E n \in Names : Make(n)
  \/ \E c \in DOMAIN promises :
       \/ \E op \in {"resolve", "reject"} : Give(c, op) \/ SettleLate(c, op)
       \/ Settle(c) \/ Lose(c)

Spec == Init /\ [][Next]_promises

\* An answer that is not lost settles its promise in the end
Fairness == \A c \in 1..MaxCalls : WF_promises(Settle(c))
=============================================================================
