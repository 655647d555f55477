---------------------------- MODULE MCRetrieval ----------------------------
(* A small instance of the retrieval: four chunks and their profiles. *)
EXTENDS ContextRetrieval

CONSTANTS c1, c2, c3, c4

(* Two pages of two chunks. *)
TwoPages == {{c1, c2}, {c3, c4}}

(* Close in words, close in meaning only, far in both, and the same at a   *)
(* later place of its page.                                                *)
FourProfiles ==
  {[index |-> 0, overlap |-> 100, anchor |-> 50, cosine |-> 60, trigram |-> 40],
   [index |-> 0, overlap |-> 25, anchor |-> 0, cosine |-> 100, trigram |-> 5],
   [index |-> 0, overlap |-> 0, anchor |-> 0, cosine |-> 50, trigram |-> 10],
   [index |-> 1, overlap |-> 0, anchor |-> 0, cosine |-> 50, trigram |-> 10]}
=============================================================================
