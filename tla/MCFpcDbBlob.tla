---------------------------- MODULE MCFpcDbBlob ----------------------------
(* Four databases: less than a chunk, exactly two, between two and three,  *)
(* and one that is too large to be transferred.                            *)
EXTENDS FpcDbBlob

MCDbs == {"empty", "two", "more", "huge"}
MCSizeOf == [v \in MCDbs |-> CASE v = "empty" -> 1 [] v = "two" -> 4
                               [] v = "more" -> 5 [] v = "huge" -> 7]
=============================================================================
