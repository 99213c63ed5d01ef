------------------------------ MODULE Mailbox ------------------------------
(***************************************************************************)
(* What the event outbox promises to the receivers of webhooks, without    *)
(* rows, leases, workers or retries.  A letter is one event addressed to   *)
(* one endpoint.  Letters of one lane (one endpoint, one aggregate) are    *)
(* handed over in the order of their events, while they are open; a letter *)
(* is acknowledged only after it was handed over.  Giving up on a letter   *)
(* lets the lane go on; an operator may reopen it, and a reopened letter   *)
(* no longer holds up the ones behind it.                                  *)
(***************************************************************************)
EXTENDS Naturals

CONSTANT Letters \* triples <<event, endpoint, aggregate>>, events numbered in commit order

VARIABLES
  letter,   \* the state of each letter
  handed,   \* the letters their receiver has got at least once
  reopened  \* the letters an operator has reopened

vars == <<letter, handed, reopened>>

States == {"unwritten", "open", "acknowledged", "givenUp", "withdrawn"}

TypeOK ==
  /\ letter \in [Letters -> States]
  /\ handed \in SUBSET Letters
  /\ reopened \in SUBSET Letters

Init ==
  /\ letter = [k \in Letters |-> "unwritten"]
  /\ handed = {}
  /\ reopened = {}

Move(K, from, to) ==
  /\ \A k \in K : letter[k] \in from
  /\ letter' = [k \in Letters |-> IF k \in K THEN to ELSE letter[k]]

SameLane(j, k) == <<j[2], j[3]>> = <<k[2], k[3]>>

Ahead(k) == {j \in Letters : SameLane(j, k) /\ j[1] < k[1]}

\* One event is written to all its subscribers at once, after every earlier
\* event.
Write(K) ==
  /\ Move(K, {"unwritten"}, "open")
  /\ \A k \in K, j \in Letters : SameLane(j, k) /\ j[1] > k[1] => letter[j] = "unwritten"
  /\ UNCHANGED <<handed, reopened>>

\* The receiver gets the letter, possibly again, possibly without the sender
\* learning of it.
HandOver(k) ==
  /\ letter[k] = "open"
  /\ \A j \in Ahead(k) \ reopened : letter[j] # "open"
  /\ handed' = handed \union {k}
  /\ UNCHANGED <<letter, reopened>>

Acknowledge(k) ==
  /\ k \in handed
  /\ Move({k}, {"open"}, "acknowledged")
  /\ UNCHANGED <<handed, reopened>>

GiveUp(k) == Move({k}, {"open"}, "givenUp") /\ UNCHANGED <<handed, reopened>>

\* The endpoint or its subscription is gone.
Withdraw(K) == Move(K, {"open", "givenUp"}, "withdrawn") /\ UNCHANGED <<handed, reopened>>

Reopen(k) ==
  /\ Move({k}, {"givenUp"}, "open")
  /\ reopened' = reopened \union {k}
  /\ UNCHANGED handed

Next ==
  \/ \E K \in SUBSET Letters : Write(K) \/ Withdraw(K)
  \/ \E k \in Letters : HandOver(k) \/ Acknowledge(k) \/ GiveUp(k) \/ Reopen(k)

Spec == Init /\ [][Next]_vars
=============================================================================
