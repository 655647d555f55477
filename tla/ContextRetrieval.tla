-------------------------- MODULE ContextRetrieval --------------------------
(***************************************************************************)
(* _retrieve_context_chunks: the candidates of the trigram SELECT, the     *)
(* ANN SELECT in a transaction of its own, the weighted ranking.  An       *)
(* import may commit pages at any time.  Of a chunk only the numbers that  *)
(* enter the ranking are kept, in hundredths; the two cosines of a chunk,  *)
(* by pgvector and by numpy, are one number.                               *)
(***************************************************************************)
EXTENDS Integers, Sequences, FiniteSets

CONSTANTS
  Chunks,        \* chunks in the range of the route
  Pages,         \* sets of chunks that are committed together
  Profiles,      \* [index, overlap, anchor, cosine, trigram]
  TrigramLimit,  \* LIMIT 500
  AnnLimit,      \* limit=50
  Limit,         \* limit=6
  AnnOutcomes    \* what the server does with the ANN SELECT

Synthetic == "synthetic/fallback"  \* the chunk that repeats the query

ASSUME RetrievalAssumption ==
  /\ IsFiniteSet(Chunks) /\ Synthetic \notin Chunks
  /\ Pages \subseteq SUBSET Chunks
  /\ Profiles \subseteq [index : Nat, overlap : 0..100, anchor : 0..100,
                         cosine : 0..100, trigram : 0..100]
  /\ TrigramLimit \in Nat \ {0} /\ AnnLimit \in Nat /\ Limit \in Nat \ {0}
  /\ AnnOutcomes \subseteq {"rows", "refused"}

(* How a retrieval ends: it returns, or one of two exceptions leaves it. *)
Returns == {"done", "raised", "refused"}

VARIABLES
  db,         \* committed chunks with a vector
  profile,    \* the numbers of every chunk for this query
  long,       \* len(query_tokens) >= 4
  retrieving,
  snapshot,   \* what the trigram SELECT saw
  candidates, \* the rows it returned, in its order
  annRows,    \* the rows of the ANN SELECT
  result

retrievalVars == <<db, profile, long, retrieving, snapshot, candidates, annRows, result>>

RetrievalTypeOK ==
  /\ db \subseteq Chunks
  /\ profile \in [Chunks -> Profiles]
  /\ long \in BOOLEAN
  /\ retrieving \in {"trigram", "ann", "rank"} \union Returns
  /\ snapshot \subseteq db
  /\ candidates \in Seq(snapshot)
  /\ Len(candidates) <= TrigramLimit
  /\ annRows \subseteq db
  /\ Cardinality(annRows) <= AnnLimit
  /\ result \in Seq(snapshot \union {Synthetic})

RetrievalInit ==
  /\ db \in {UNION P : P \in SUBSET Pages}
  /\ profile \in [Chunks -> Profiles]
  /\ long \in BOOLEAN
  /\ retrieving = "trigram"
  /\ snapshot = {}
  /\ candidates = <<>>
  /\ annRows = {}
  /\ result = <<>>

-----------------------------------------------------------------------------

FirstOf(n, S) == IF Cardinality(S) < n THEN Cardinality(S) ELSE n

(* import_docs commits a page. *)
ImportPage ==
  /\ retrieving \notin Returns
  /\ \E page \in Pages : ~ page \subseteq db /\ db' = db \union page
  /\ UNCHANGED <<profile, long, retrieving, snapshot, candidates, annRows, result>>

(* ORDER BY trigram DESC, chunk_index ASC *)
Precedes(c, d) ==
  \/ profile[c].trigram > profile[d].trigram
  \/ profile[c].trigram = profile[d].trigram /\ profile[c].index < profile[d].index

(* The orders in which a SELECT with ORDER BY ... LIMIT n may return S. *)
Ordered(S, n) ==
  {rows \in [1..FirstOf(n, S) -> S] :
     /\ \A i, j \in 1..FirstOf(n, S) : i < j => rows[i] # rows[j] /\ ~ Precedes(rows[j], rows[i])
     /\ \A i \in 1..FirstOf(n, S) : \A c \in S :
          Precedes(c, rows[i]) => \E j \in 1..i : rows[j] = c}

SelectTrigram ==
  /\ retrieving = "trigram"
  /\ snapshot' = db
  /\ candidates' \in Ordered(db, TrigramLimit)
  /\ retrieving' = "ann"
  /\ UNCHANGED <<db, profile, long, annRows, result>>

(* ORDER BY distance LIMIT n; the HNSW index may miss a nearer chunk.      *)
(* Only a server that reads '[1,2]'::int2[] and has <=> for INT2[] columns *)
(* answers: PostgreSQL with pgvector does not.                             *)
SelectAnn ==
  /\ retrieving = "ann" /\ "rows" \in AnnOutcomes
  /\ annRows' \in {S \in SUBSET db : Cardinality(S) = FirstOf(AnnLimit, db)}
  /\ retrieving' = "rank"
  /\ UNCHANGED <<db, profile, long, snapshot, candidates, result>>

(* The server rejects the ANN SELECT (the literal, the operator): the      *)
(* exception leaves the retrieval, nothing catches it.                     *)
AnnRefused ==
  /\ retrieving = "ann" /\ "refused" \in AnnOutcomes
  /\ retrieving' = "refused"
  /\ UNCHANGED <<db, profile, long, snapshot, candidates, annRows, result>>

(* The connection is lost, or there is none. *)
Raise ==
  /\ retrieving \in {"trigram", "ann"}
  /\ retrieving' = "raised"
  /\ UNCHANGED <<db, profile, long, snapshot, candidates, annRows, result>>

(* The weighted sum, lowered for long queries with little overlap, capped  *)
(* at 0.99 and rounded to thousandths.                                     *)
Similarity(c) ==
  LET p == profile[c]
      sum == 40 * p.overlap + 20 * p.anchor + 25 * p.cosine + 15 * p.trigram
      score == IF long /\ p.overlap < 40 THEN (55 * sum) \div 100 ELSE sum
  IN ((IF score < 9900 THEN score ELSE 9900) + 5) \div 10

(* Faulty variant: only what both paths found is ranked. *)
InBothPaths == SelectSeq(candidates, LAMBDA c : c \in annRows)

(* candidates.values(): an ANN row is looked up there, not added. *)
Scored == candidates

(* The stable sort by similarity, best first. *)
RanksBefore(rows, i, j) ==
  \/ Similarity(rows[i]) > Similarity(rows[j])
  \/ Similarity(rows[i]) = Similarity(rows[j]) /\ i < j

Best(rows, n) ==
  [k \in 1..(IF Len(rows) < n THEN Len(rows) ELSE n) |->
     rows[CHOOSE i \in 1..Len(rows) :
            Cardinality({j \in 1..Len(rows) : RanksBefore(rows, j, i)}) = k - 1]]

(* The ranking, and the query itself if nothing was found. *)
RankChunks ==
  /\ retrieving = "rank"
  /\ result' = IF Scored = <<>> THEN <<Synthetic>> ELSE Best(Scored, Limit)
  /\ retrieving' = "done"
  /\ UNCHANGED <<db, profile, long, snapshot, candidates, annRows>>

RetrievalNext == ImportPage \/ SelectTrigram \/ SelectAnn \/ AnnRefused \/ Raise \/ RankChunks

RetrievalSpec == RetrievalInit /\ [][RetrievalNext]_retrievalVars

-----------------------------------------------------------------------------
Returned == {result[k] : k \in 1..Len(result)}

(* As many others as the first SELECT returns come before c, or beside it. *)
CutOff(c) ==
  Cardinality({d \in snapshot \ {c} : ~ Precedes(c, d)}) >= TrigramLimit

(* The calc service gets the best chunks of the library, each once,        *)
(* whatever the ANN index misses and whatever an import commits between    *)
(* the two SELECTs; a better one is missing only if the words of at least  *)
(* TrigramLimit others are as close to the query.  A retrieval that        *)
(* returns never returns nothing, and stands in for the library only if it *)
(* was empty.                                                              *)
BestOfLibrary ==
  retrieving = "done" =>
    /\ Len(result) \in 1..Limit
    /\ Cardinality(Returned) = Len(result)
    /\ Synthetic \in Returned <=> snapshot = {}
    /\ \A c \in snapshot \ Returned :
         \/ CutOff(c)
         \/ Len(result) = Limit /\ \A d \in Returned : Similarity(d) >= Similarity(c)

(* docs/DEVELOPMENT.md: without the HNSW index only the trigram path is    *)
(* left, so a retrieval that has its candidates returns, whatever becomes  *)
(* of the ANN SELECT.                                                      *)
TrigramFallback == candidates # <<>> => retrieving # "refused"
=============================================================================
