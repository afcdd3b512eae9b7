---------------------------- MODULE SliceVisits ----------------------------
(***************************************************************************)
(* What the ring of a processor row promises the bottom-up search: every   *)
(* slice of a visited bitmap is searched by its owner first and then once  *)
(* by every other rank, and what comes home has been searched by all.      *)
(***************************************************************************)
EXTENDS Naturals, Sequences, SequencesExt

CONSTANTS Ranks, Slice, Owner(_)

VARIABLES
  path,   \* the ranks that searched each slice, in order
  home    \* slices the owner took back

sliceVars == <<path, home>>

SearchedBy(s) == ToSet(path[s])

Init == path = [s \in Slice |-> <<>>] /\ home = {}

Search(s, r) ==
  /\ s \notin home
  /\ r \notin SearchedBy(s)
  /\ path[s] = <<>> => r = Owner(s)
  /\ path' = [path EXCEPT ![s] = Append(@, r)]
  /\ UNCHANGED home

TakeHome(s) ==
  /\ s \notin home
  /\ SearchedBy(s) = Ranks
  /\ home' = home \cup {s}
  /\ UNCHANGED path

\* Each action changes what it is about; said first, a stutter is told quickly.
Next == \/ path' # path /\ \E s \in Slice, r \in Ranks : Search(s, r)
        \/ home' # home /\ \E s \in Slice : TakeHome(s)

Spec == Init /\ [][Next]_sliceVars
=============================================================================
