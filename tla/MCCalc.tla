------------------------------- MODULE MCCalc -------------------------------
(* A small instance of the inference: chunks around its thresholds. *)
EXTENDS CalcInference

(* Close, far, middling with code, one whose words decide, the synthetic.  *)
FewChunks ==
  {[page |-> 7, similarity |-> 80, overlap |-> 100, code |-> FALSE],
   [page |-> 7, similarity |-> 30, overlap |-> 0, code |-> FALSE],
   [page |-> 8, similarity |-> 60, overlap |-> 25, code |-> TRUE],
   [page |-> 9, similarity |-> 30, overlap |-> 50, code |-> FALSE],
   [page |-> 0, similarity |-> 78, overlap |-> 100, code |-> FALSE]}
=============================================================================
