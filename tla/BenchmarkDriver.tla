-------------------------- MODULE BenchmarkDriver --------------------------
(***************************************************************************)
(* graph500_bfs: a process draws the roots, searches and validates one     *)
(* after the other, and prints the results. With LOGFILE set it writes     *)
(* what it has after every root; a process that is started again reads the *)
(* file and goes on behind the last root in it. Processes may be killed at *)
(* any time, and may be started with other parameters.                     *)
(*                                                                         *)
(* All ranks take the same path here: rank 0 decides and broadcasts. The   *)
(* graph of a set of parameters is the same in every process, and so are   *)
(* the random numbers.                                                     *)
(***************************************************************************)
EXTENDS Naturals, Sequences, FiniteSets, SequencesExt

CONSTANTS
  Params,     \* scale, edge factor and number of ranks
  NoParams,   \* the parameters in a log that was never written
  Vertex,
  EdgeVertex, \* vertices with an edge
  Boundary,   \* vertices whose local number is num_local_verts_
  NumRoots,   \* NUM_BFS_ROOTS
  Draws,      \* sequences of vertices that random numbers may give
  MaxStarts   \* bound: processes started

ASSUME DriverAssumption ==
  /\ NoParams \notin Params
  /\ IsFiniteSet(Vertex) /\ EdgeVertex \subseteq Vertex
  /\ Boundary \subseteq Vertex \ EdgeVertex
  /\ NumRoots \in Nat \ {0}
  /\ \A d \in Draws : d \in Seq(Vertex) /\ d # <<>>

VARIABLES
  draws,      \* the random numbers for each set of parameters
  file,       \* the log file: <<>> if there is none, or its content
  starts,
  pc,         \* "off", "read", "draw", "run", "log", "write" or "print"
  params,     \* of the running process
  logging,    \* LOGFILE is set
  log,        \* LogFileFormat: parameters and the results so far
  times,      \* bfs_times, validate_times and edge_counts
  rootStart,  \* root_start
  roots,      \* bfs_roots
  drawn,      \* counter / 2
  i,          \* the root in work
  ok          \* result_ok

process == <<params, logging, log, times, rootStart, roots, drawn, i, ok>>
vars == <<draws, file, starts, pc, process>>

Index    == 0 .. NumRoots - 1
Unset    == [params |-> NoParams, root |-> 0, valid |-> FALSE]
\* log = {0}; what is read from a file that was truncated and not written.
ZeroLog  == [params |-> NoParams, runs |-> <<>>]

\* A process before its first statement.
Blank(p, l) ==
  /\ params' = p /\ logging' = l
  /\ log' = ZeroLog
  /\ times' = [k \in Index |-> Unset]
  /\ rootStart' = 0 /\ roots' = <<>> /\ drawn' = 0 /\ i' = 0 /\ ok' = TRUE

Init ==
  /\ draws \in [Params -> Draws]
  /\ file = <<>> /\ starts = 0 /\ pc = "off"
  /\ params = NoParams /\ logging = FALSE
  /\ log = ZeroLog
  /\ times = [k \in Index |-> Unset]
  /\ rootStart = 0 /\ roots = <<>> /\ drawn = 0 /\ i = 0 /\ ok = TRUE

Start(p, l) ==
  /\ pc = "off" /\ starts < MaxStarts
  /\ starts' = starts + 1
  /\ pc' = "read"
  /\ Blank(p, l)
  /\ UNCHANGED <<draws, file>>

\* The process is killed, or calls MPI_Abort.
End == pc' = "off" /\ Blank(NoParams, FALSE)
Kill == pc # "off" /\ End /\ UNCHANGED <<draws, file, starts>>

-----------------------------------------------------------------------------
\* Mutant: the file is taken for one of this run.
OfThisRunAlways == TRUE

OfThisRun == file[1].params = params

\* read_log_file: go on behind the last root, or refuse a file of another run.
ReadLog ==
  /\ pc = "read"
  /\ IF logging /\ file # <<>>
       THEN IF OfThisRun
              THEN /\ log' = file[1]
                   /\ rootStart' = Len(file[1].runs)
                   /\ times' = [k \in Index |-> IF k < Len(file[1].runs)
                                                THEN file[1].runs[k + 1] ELSE times[k]]
                   /\ pc' = "draw"
                   /\ UNCHANGED <<params, logging, roots, drawn, i, ok>>
              ELSE End
       ELSE /\ pc' = "draw"
            /\ UNCHANGED process
  /\ UNCHANGED <<draws, file, starts>>

\* make_random_numbers: the k-th candidate.
Candidate(k) == LET d == draws[params] IN d[((k - 1) % Len(d)) + 1]

\* Mutant: a candidate is compared with the last root only.
IsDuplicateOfLast(v) == roots # <<>> /\ Last(roots) = v

IsDuplicate(v) == v \in ToSet(roots)

\* has_edge: the test of the bound lets the first local number behind the
\* bitmap pass, and the bit there may be anything.
HasEdge(v) == IF v \in EdgeVertex THEN {TRUE}
              ELSE IF v \in Boundary THEN BOOLEAN ELSE {FALSE}

\* counter > 2 * nglobalverts: after as many candidates as vertices the next
\* one is taken as it is.
Exhausted(k) == k > Cardinality(Vertex)

\* Mutant: the counter stays where it is when the candidate is a duplicate.
AdvanceOnNew(v) == IF IsDuplicate(v) THEN drawn ELSE drawn + 1

\* counter += 2, whatever the candidate is.
Advance(v) == drawn + 1

\* One iteration of the loop in find_roots.
DrawRoot ==
  LET v == Candidate(drawn + 1) IN
  /\ pc = "draw" /\ Len(roots) < NumRoots
  /\ drawn' = Advance(v)
  /\ \E hasEdge \in HasEdge(v) :
       roots' = IF Exhausted(drawn + 1) \/ (~ IsDuplicate(v) /\ hasEdge)
                THEN Append(roots, v) ELSE roots
  /\ UNCHANGED <<draws, file, starts, pc, params, logging, log, times, rootStart, i, ok>>

\* Mutant: the log starts afresh in every process.
FirstLogAlways == [params |-> params, runs |-> <<>>]

\* init_log, if nothing was read.
FirstLog == IF rootStart = 0 THEN [params |-> params, runs |-> <<>>] ELSE log
FirstRoot == rootStart

BeginRuns ==
  /\ pc = "draw" /\ Len(roots) = NumRoots
  /\ log' = FirstLog
  /\ i' = FirstRoot
  /\ pc' = "run"
  /\ UNCHANGED <<draws, file, starts, params, logging, times, rootStart, roots, drawn, ok>>

\* run_bfs, get_pred and validate_bfs_result: only a valid result is logged.
RunRoot ==
  /\ pc = "run" /\ i < NumRoots
  /\ \E valid \in BOOLEAN :
       /\ times' = [times EXCEPT ![i] = [params |-> params, root |-> roots[i + 1],
                                         valid |-> valid]]
       /\ ok' = valid
       /\ pc' = IF valid THEN "log" ELSE "print"
  /\ UNCHANGED <<draws, file, starts, params, logging, log, rootStart, roots, drawn, i>>

\* The last root is done.
EndRuns ==
  /\ pc = "run" /\ i = NumRoots
  /\ pc' = "print"
  /\ UNCHANGED <<draws, file, starts, process>>

\* update_log_file up to fopen, which truncates the file, or fails: "Cannot
\* create log file ... skipping".
UpdateLog ==
  /\ pc = "log"
  /\ IF logging
       THEN /\ log' = [log EXCEPT !.runs = Append(@, times[i])]
            /\ \/ file' = <<ZeroLog>> /\ pc' = "write" /\ UNCHANGED i
               \/ pc' = "run" /\ i' = i + 1 /\ UNCHANGED file
       ELSE pc' = "run" /\ i' = i + 1 /\ UNCHANGED <<log, file>>
  /\ UNCHANGED <<draws, starts, params, logging, times, rootStart, roots, drawn, ok>>

\* fwrite and fclose, and the next root.
WriteLog ==
  /\ pc = "write"
  /\ file' = <<log>>
  /\ i' = i + 1
  /\ pc' = "run"
  /\ UNCHANGED <<draws, starts, params, logging, log, times, rootStart, roots, drawn, ok>>

\* print_bfs_result, and the process ends.
PrintResult == pc = "print" /\ End /\ UNCHANGED <<draws, file, starts>>

Work == ReadLog \/ DrawRoot \/ BeginRuns \/ RunRoot \/ EndRuns \/ UpdateLog
        \/ WriteLog \/ PrintResult

Next == Kill \/ Work \/ \E p \in Params, l \in BOOLEAN : Start(p, l)

Spec == Init /\ [][Next]_vars

\* A process that is not killed goes on.
FairSpec == Spec /\ WF_vars(Work)
-----------------------------------------------------------------------------
(* Properties *)

Result == [params : Params \cup {NoParams}, root : Vertex, valid : BOOLEAN]
LogType(l) == /\ l.params \in Params \cup {NoParams}
              /\ l.runs \in Seq(Result) /\ Len(l.runs) <= NumRoots

\* Type invariant of a process and the file: no log has more runs than the
\* arrays have entries.
TypeOK ==
  /\ pc \in {"off", "read", "draw", "run", "log", "write", "print"}
  /\ Len(file) <= 1 /\ \A k \in DOMAIN file : LogType(file[k])
  /\ LogType(log)
  /\ times \in [Index -> Result \cup {Unset}]
  /\ roots \in Seq(Vertex) /\ Len(roots) <= NumRoots
  /\ rootStart \in 0 .. NumRoots /\ i \in 0 .. NumRoots

\* The log of a process counts its runs in num_runs and the loop in i: the
\* two agree, also after a restart, and the file is an earlier state of the
\* log or was just truncated. So no process overwrites another root's entry.
LogInStep ==
  pc \in {"run", "log"} /\ logging =>
    /\ Len(log.runs) = i
    /\ log.params = params
    /\ file = <<>> \/ file[1] = ZeroLog
         \/ (file[1].params = params /\ IsPrefix(file[1].runs, log.runs))

\* The random bit behind the bitmap played no part with these parameters.
BoundaryDrawn(p) == \E k \in DOMAIN draws[p] : draws[p][k] \in Boundary

\* A result is printed only when every root was searched and validated with
\* the parameters of the process, by it or by one it goes on from, and entry
\* k is the k-th root's.
PrintedResults ==
  pc = "print" /\ ok =>
    \A k \in Index : /\ times[k].params = params /\ times[k].valid
                     /\ BoundaryDrawn(params) \/ times[k].root = roots[k + 1]

\* As long as the random numbers suffice, the roots are distinct and have an
\* edge, or are taken for one that has.
RootsChosen ==
  pc \notin {"off", "read"} /\ ~ Exhausted(drawn) =>
    /\ IsInjective(roots)
    /\ ToSet(roots) \subseteq EdgeVertex \cup Boundary

\* Every process ends, also when no graph has enough roots.
DriverEnds == pc # "off" ~> pc = "off"
=============================================================================
