----------------------------- MODULE PutBatches -----------------------------
(***************************************************************************)
(* What put() of the asynchronous all-to-all promises its callers: every   *)
(* put is accepted once, as a whole, into one batch; batches never exceed  *)
(* the size of a buffer, and a batch is closed before the next one opens.  *)
(***************************************************************************)
EXTENDS Naturals, Sequences, FiniteSets

CONSTANTS Put, Length(_), BufferSize

VARIABLES
  open,    \* puts accepted into the current batch
  sealed   \* the closed batches, oldest first

batchVars == <<open, sealed>>

\* The words of the puts in a batch, and how many they are.
Words(batch) == UNION {{p} \X (1 .. Length(p)) : p \in batch}
Size(batch)  == Cardinality(Words(batch))

Init == open = {} /\ sealed = <<>>

Accept(p) ==
  /\ p \notin open
  /\ \A i \in DOMAIN sealed : p \notin sealed[i]
  /\ Size(open \cup {p}) <= BufferSize
  /\ open' = open \cup {p}
  /\ UNCHANGED sealed

Seal ==
  /\ open # {}
  /\ sealed' = Append(sealed, open)
  /\ open' = {}

Next == (\E p \in Put : Accept(p)) \/ Seal

Spec == Init /\ [][Next]_batchVars
=============================================================================
