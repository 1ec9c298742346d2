-------------------------- MODULE MCMemorySegment ---------------------------
(* Small instances of MemorySegment: three terms that collide in the hash
   table, the third with the longer string, and documents without stored
   fields, with a long list of positions, with two stored pages and without
   any token. *)
EXTENDS MemorySegment

TermsDef  == {"a", "b", "c"}
HashDef   == [t \in TermsDef |-> HashCap - 1]
StrLenDef == [t \in TermsDef |-> IF t = "c" THEN 2 ELSE 1]
DocsDef   == {"plain", "long", "wide", "blank"}
ToksDef   == [d \in DocsDef |->
                CASE d = "plain" -> <<"a">>
                  [] d = "long"  -> <<"a", "b", "a">>
                  [] d = "wide"  -> <<"c", "b", "b", "c">>
                  [] d = "blank" -> <<>>]
PartsDef  == [d \in DocsDef |-> CASE d = "plain" -> 0 [] d = "wide" -> 2 [] OTHER -> 1]
=============================================================================
