------------------------------ MODULE Selection ------------------------------
(* What a loop over a sequence makes of it.  One that copies some of the        *)
(* elements, or a comprehension with a condition: they are chosen by their      *)
(* index.  And one that carries something along.  These are SelectSeq and       *)
(* FoldLeft with definitions that the proof system can unfold.                  *)
EXTENDS Naturals, Sequences

UpTo(s, chosen) ==
    LET upTo[n \in 0..Len(s)] == IF n = 0 THEN <<>>
                                 ELSE IF n \in chosen THEN Append(upTo[n - 1], s[n])
                                 ELSE upTo[n - 1]
    IN  upTo

Selected(s, chosen) == UpTo(s, chosen)[Len(s)]

Filtered(s, Test(_)) == Selected(s, {i \in DOMAIN s : Test(s[i])})

Folded(Op(_, _), base, s) ==
    LET upTo[n \in 0..Len(s)] == IF n = 0 THEN base ELSE Op(upTo[n - 1], s[n])
    IN  upTo[Len(s)]
=============================================================================
