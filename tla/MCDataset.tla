------------------------------- MODULE MCDataset -------------------------------
(* Collected were the merged pull request a and x, which got a spam label; an *)
(* earlier collection had b and c.  The labels of e and of x were removed,    *)
(* that of e reported twice; the diff of x may be gone when it is asked for.  *)
EXTENDS Dataset, TLC

CONSTANTS s1, s2, s3

Row(p, l) == [pull |-> p, title |-> "own", label |-> l]

MCPullOf == s1 :> "e" @@ s2 :> "e" @@ s3 :> "x"

MCFetches == [p \in {"a", "b", "c", "e", "x", "g1", "g2", "g3"} |->
                IF p = "x" THEN {"own", "noDiff"} ELSE {"own"}]

MCRaw == <<Row("a", "LEGIT"), Row("x", "SLOP")>>

MCEarlier == "train" :> {Row("b", "LEGIT"), Row("x", "SLOP")} @@ "val" :> {Row("c", "LEGIT")}
               @@ "test" :> {Row("a", "LEGIT")}

(* Streams that do not meet, and two that do. *)
MCDraws == {"train" :> {Row("g1", "SLOP")} @@ "val" :> {Row("g2", "SLOP")} @@ "test" :> {Row(p, "SLOP")} :
              p \in {"g2", "g3"}}
=============================================================================
