-------------------------------- MODULE Loops --------------------------------
(***************************************************************************)
(* Two loops over a sequence that several parts of the code have.  They    *)
(* are written as recursive functions, because the proofs need to take     *)
(* them step by step.                                                      *)
(***************************************************************************)
LOCAL INSTANCE Integers
LOCAL INSTANCE Sequences

(* The sum of the first k of the numbers ws, for every k. *)
Total(ws) ==
  LET total[k \in 0..Len(ws)] == IF k = 0 THEN 0 ELSE total[k - 1] + ws[k]
  IN total

(* The elements in T among the first k of s, for every k, in their order. *)
FilterUpTo(s, T) ==
  LET upTo[k \in 0..Len(s)] ==
        IF k = 0 THEN <<>>
        ELSE IF s[k] \in T THEN Append(upTo[k - 1], s[k]) ELSE upTo[k - 1]
  IN upTo

(* SelectSeq with a set for the test. *)
Filter(s, T) == FilterUpTo(s, T)[Len(s)]
=============================================================================
