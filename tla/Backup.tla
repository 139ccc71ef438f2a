------------------------------- MODULE Backup -------------------------------
(***************************************************************************)
(* What the dump file is for: a server that starts again, after a stop or  *)
(* a crash, has exactly the records of its last dump; and when that dump   *)
(* was cut short, at most one record that is not of the table dumped.      *)
(***************************************************************************)
CONSTANT Tables   \* the contents a store may have: functions from keys

VARIABLES
  cur,     \* the records, as long as the server is up
  saved,   \* the records when the last dump began
  up,
  intact   \* FALSE when that dump was cut short

vars == <<cur, saved, up, intact>>

\* T holds what is left of S, and perhaps one record more.
Remains(S, T) ==
  \/ \A i \in DOMAIN T : i \in DOMAIN S /\ T[i] = S[i]
  \/ \E k \in DOMAIN T : \A i \in DOMAIN T \ {k} : i \in DOMAIN S /\ T[i] = S[i]

Init == cur = saved /\ ~up /\ intact = TRUE

\* While the server is up requests change its records in any way.
Change == up /\ cur' \in Tables /\ UNCHANGED <<saved, up, intact>>

Save == up /\ saved' = cur /\ intact' = TRUE /\ UNCHANGED <<cur, up>>

\* What was not saved is gone; the server may have stopped while it saved.
Stop ==
  /\ up /\ up' = FALSE /\ cur' = saved
  /\ \/ UNCHANGED intact
     \/ cur = saved /\ intact' = FALSE
  /\ UNCHANGED saved

Start ==
  /\ ~up /\ up' = TRUE
  /\ IF intact THEN cur' = saved ELSE cur' \in Tables /\ Remains(saved, cur')
  /\ UNCHANGED <<saved, intact>>

Next == Change \/ Save \/ Stop \/ Start

Spec == Init /\ [][Next]_vars
=============================================================================
