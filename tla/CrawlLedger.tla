----------------------------- MODULE CrawlLedger -----------------------------
(***************************************************************************)
(* What the queue of a scan promises, whatever its workers, its failures   *)
(* and its restarts do: a URL is admitted at most once, waits, is worked   *)
(* on, possibly goes back to waiting, and is settled at most once and for  *)
(* good; and only a URL being worked on is ever settled.                   *)
(***************************************************************************)
CONSTANT Url

VARIABLES waiting, working, settled

ledger == <<waiting, working, settled>>

Init == waiting = {} /\ working = {} /\ settled = {}

Known == waiting \cup working \cup settled

\* A run begins: abandoned work R waits again, waiting work D is dropped, and
\* the entry points A that are not known are admitted.
Begin(R, D, A) ==
  /\ R \subseteq working
  /\ D \subseteq waiting \cup R
  /\ A \cap (Known \ D) = {}
  /\ working' = working \ R
  /\ waiting' = ((waiting \cup R) \ D) \cup A
  /\ settled' = settled

\* Work is discovered.
Admit(S) ==
  /\ S \cap Known = {}
  /\ waiting' = waiting \cup S
  /\ UNCHANGED <<working, settled>>

Take(u) ==
  /\ u \in waiting
  /\ waiting' = waiting \ {u} /\ working' = working \cup {u}
  /\ settled' = settled

PutBack(u) ==
  /\ u \in working
  /\ working' = working \ {u} /\ waiting' = waiting \cup {u}
  /\ settled' = settled

\* Work is settled, and what it led to is admitted.
Settle(u, S) ==
  /\ u \in working /\ S \cap Known = {}
  /\ working' = working \ {u} /\ settled' = settled \cup {u}
  /\ waiting' = waiting \cup S

Next ==
  \/ \E R, D, A \in SUBSET Url : Begin(R, D, A)
  \/ \E S \in SUBSET Url : Admit(S)
  \/ \E u \in Url : Take(u) \/ PutBack(u)
  \/ \E u \in Url, S \in SUBSET Url : Settle(u, S)

Spec == Init /\ [][Next]_ledger
=============================================================================
