------------------------------- MODULE KwayMerge -------------------------------
(***************************************************************************)
(* common/kway_merge.h: a heap holds the head of every source, next() takes *)
(* the smallest and puts the next element of the same source in its place. *)
(* Elements are ordered by their id; ties go to the earlier source here and *)
(* to any source in the code (a merge never produces one).                 *)
(***************************************************************************)
EXTENDS Naturals, SequencesExt, FiniteSetsExt

\* init(): the first element of each source that has one.
Heads(sources) == {i \in DOMAIN sources : sources[i] # <<>>}

\* heap_.top()
Top(sources) ==
  CHOOSE i \in Heads(sources) :
    \A j \in Heads(sources) : \/ sources[i][1].id < sources[j][1].id
                              \/ sources[i][1].id = sources[j][1].id /\ i <= j

Elements(sources) == MapThenSumSet(LAMBDA i : Len(sources[i]), DOMAIN sources)

\* The elements in the order in which next() hands them out.
Merged(sources) ==
  LET state[n \in 0 .. Elements(sources)] ==
        IF n = 0 THEN [rest |-> sources, out |-> <<>>]
        ELSE LET rest == state[n - 1].rest
                 top  == Top(rest)
             IN [rest |-> [rest EXCEPT ![top] = Tail(@)],
                 out  |-> Append(state[n - 1].out, rest[top][1])]
  IN state[Elements(sources)].out
=============================================================================
