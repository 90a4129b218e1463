------------------------------ MODULE VaultLog ------------------------------
(***************************************************************************)
(* What a vault with row checksums promises about its rows: an append-only *)
(* log.  A row becomes visible whole, at once and with its final contents; *)
(* nothing but a power cut takes it away, and not once it is safe.         *)
(***************************************************************************)
CONSTANTS Rows, AllEntries, Nothing

VARIABLES
  log,  \* row -> the entry read_row returns for it, or Nothing
  safe  \* rows that no failure may take away

Landed == {r \in Rows : log[r] # Nothing}

Init ==
  /\ log = [r \in Rows |-> Nothing]
  /\ safe = {}

\* The last byte of a row reaches the file.
Land(r, e) ==
  /\ log[r] = Nothing
  /\ log' = [log EXCEPT ![r] = e]
  /\ UNCHANGED safe

\* The caller is told that these rows are durable.
Secure(S) ==
  /\ S \subseteq Landed
  /\ safe' = safe \cup S
  /\ UNCHANGED log

\* A power cut takes rows nobody was promised.
Lose(S) ==
  /\ S \cap safe = {}
  /\ log' = [r \in Rows |-> IF r \in S THEN Nothing ELSE log[r]]
  /\ UNCHANGED safe

Next ==
  \/ \E r \in Rows, e \in AllEntries : Land(r, e)
  \/ \E S \in SUBSET Rows : Secure(S) \/ Lose(S)

Spec == Init /\ [][Next]_<<log, safe>>
=============================================================================
