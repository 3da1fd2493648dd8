--------------------------- MODULE MCSignatureStore ---------------------------
(* Two texts that share their first 500 characters and one that normalizes to   *)
(* the first of them, a tool, a session, and two owners.                        *)
EXTENDS SignatureStore, TLC

MCTexts == {"a", "a in tags", "b"}
MCNorm == [t \in MCTexts |-> IF t = "b" THEN "b" ELSE "a"]
MCPrefix == [t \in MCTexts |-> "prefix"]
MCScenes == {{"tools"}, {"sessions"}, {"texts"}}
MCMaxCalls == [c \in MCScenes |-> IF c = {"texts"} THEN 3 ELSE 5]
Symmetry == Permutations(Owners)
=============================================================================
