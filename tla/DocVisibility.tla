---------------------------- MODULE DocVisibility ----------------------------
(***************************************************************************)
(* What the real-time index promises to its clients, with no segment,      *)
(* queue, worker or disk in sight: a document is searchable from the       *)
(* moment it is written, it stays searchable for ever, and a search        *)
(* returns at least the documents that were searchable when it started     *)
(* and nothing that has never been written.                                *)
(*                                                                         *)
(* RealtimeIndex is shown to implement this specification: freezing,       *)
(* flushing, merging and committing segments are invisible to a client.    *)
(***************************************************************************)
CONSTANTS
  Docs,        \* the documents; one element is one addDocument call
  Searchers    \* the client threads that call IndexSearcher::search

VARIABLES
  visible,     \* the documents a search would find now
  floor,       \* per searcher: what was visible when its search began
  busy,        \* the searchers with a search in progress
  answer       \* per searcher: the result of its last finished search

vars == <<visible, floor, busy, answer>>

Init ==
  /\ visible = {}
  /\ floor   = [c \in Searchers |-> {}]
  /\ busy    = {}
  /\ answer  = [c \in Searchers |-> {}]

Write(d) ==
  /\ d \notin visible
  /\ visible' = visible \cup {d}
  /\ UNCHANGED <<floor, busy, answer>>

BeginSearch(c) ==
  /\ c \notin busy
  /\ busy'   = busy \cup {c}
  /\ floor'  = [floor EXCEPT ![c] = visible]
  /\ answer' = [answer EXCEPT ![c] = {}]
  /\ UNCHANGED visible

EndSearch(c) ==
  /\ c \in busy
  /\ busy' = busy \ {c}
  /\ \E hits \in SUBSET visible :
       /\ floor[c] \subseteq hits
       /\ answer' = [answer EXCEPT ![c] = hits]
  /\ UNCHANGED <<visible, floor>>

Next ==
  \/ \E d \in Docs : Write(d)
  \/ \E c \in Searchers : BeginSearch(c) \/ EndSearch(c)

Spec == Init /\ [][Next]_vars
=============================================================================
