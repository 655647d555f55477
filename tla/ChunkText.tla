------------------------------ MODULE ChunkText ------------------------------
(***************************************************************************)
(* chunk_text (scripts/import_docs.py): cuts the words of a file into      *)
(* overlapping chunks of bounded length.  A word is its length; a chunk is *)
(* the interval of the words it joins.                                     *)
(***************************************************************************)
EXTENDS Integers, Sequences, Loops

CONSTANTS
  size,           \* 800 characters
  overlap_words,  \* 35
  Lengths,        \* lengths of words
  MaxWords        \* bound on the words of a file

ASSUME ChunkAssumption ==
  /\ size \in Nat \ {0}
  /\ overlap_words \in Nat
  /\ Lengths \subseteq Nat \ {0}
  /\ MaxWords \in Nat

VARIABLES
  words,
  start,        \* first word of the chunk in work, from 1
  idx,          \* the word to look at
  current_len,  \* characters of the chunk in work
  chunks,
  chunking      \* the outer loop, the inner loop, returned

chunkVars == <<words, start, idx, current_len, chunks, chunking>>

Interval == [first : 1..MaxWords, last : 1..MaxWords]

ChunkTypeOK ==
  /\ words \in Seq(Lengths)
  /\ start \in 1..(Len(words) + 1)
  /\ idx \in start..(Len(words) + 1)
  /\ current_len \in Nat
  /\ chunks \in Seq(Interval)
  /\ chunking \in {"outer", "inner", "done"}

ChunkInit ==
  /\ words \in UNION {[1..n -> Lengths] : n \in 0..MaxWords}
  /\ start = 1
  /\ idx = 1
  /\ current_len = 0
  /\ chunks = <<>>
  /\ chunking = "outer"

-----------------------------------------------------------------------------
Larger(m, n) == IF m > n THEN m ELSE n

(* No words, or all of them have been looked at. *)
Return ==
  /\ chunking = "outer"
  /\ start > Len(words)
  /\ chunking' = "done"
  /\ UNCHANGED <<words, start, idx, current_len, chunks>>

StartChunk ==
  /\ chunking = "outer"
  /\ start <= Len(words)
  /\ idx' = start
  /\ current_len' = 0
  /\ chunking' = "inner"
  /\ UNCHANGED <<words, start, chunks>>

(* The length of the chunk with the next word: a blank goes between words. *)
Projected == current_len + words[idx] + (IF idx > start THEN 1 ELSE 0)

(* The first word of a chunk is taken whatever its length. *)
Fits == idx <= Len(words) /\ (Projected <= size \/ idx = start)

TakeWord ==
  /\ chunking = "inner"
  /\ Fits
  /\ current_len' = Projected
  /\ idx' = idx + 1
  /\ UNCHANGED <<words, start, chunks, chunking>>

(* Faulty variant: the overlap may take the start back to itself. *)
NextStartStalls == IF idx - overlap_words < start THEN start ELSE idx - overlap_words

(* The next chunk repeats the last words of this one, but never starts     *)
(* with the same word.                                                     *)
NextStart == Larger(start + 1, idx - overlap_words)

(* The chunk is complete: the words are used up or the next does not fit. *)
EndChunk ==
  /\ chunking = "inner"
  /\ ~ Fits
  /\ chunks' = Append(chunks, [first |-> start, last |-> idx - 1])
  /\ IF idx > Len(words)
       THEN chunking' = "done" /\ UNCHANGED start
       ELSE chunking' = "outer" /\ start' = NextStart
  /\ UNCHANGED <<words, idx, current_len>>

ChunkNext == Return \/ StartChunk \/ TakeWord \/ EndChunk

ChunkSpec == ChunkInit /\ [][ChunkNext]_chunkVars

-----------------------------------------------------------------------------
(* The characters of words i..j joined by blanks. *)
LengthOf(i, j) == Total(words)[j] - Total(words)[i - 1] + (j - i)

(* Every word of the file is in a chunk: each chunk starts later than the  *)
(* one before, so that the loop ends, but leaves no word between them out, *)
(* so that no text is lost for the retrieval.  A chunk of several words    *)
(* keeps to the size, and none ends before the next word would exceed it.  *)
CoversText ==
  /\ \A k \in 1..(Len(chunks) - 1) :
       /\ chunks[k + 1].first \in (chunks[k].first + 1)..(chunks[k].last + 1)
       /\ chunks[k + 1].last >= chunks[k].last
  /\ \A k \in 1..Len(chunks) :
       LET c == chunks[k] IN
         /\ c.first < c.last => LengthOf(c.first, c.last) <= size
         /\ c.last < Len(words) => LengthOf(c.first, c.last + 1) > size
  /\ chunking = "done" /\ words # <<>> =>
       /\ chunks # <<>>
       /\ chunks[1].first = 1
       /\ chunks[Len(chunks)].last = Len(words)
=============================================================================
