-------------------------- MODULE KnowledgeImport --------------------------
(***************************************************************************)
(* Import processes (scripts/import_docs.py) that write to one knowledge   *)
(* database.  A file is a transaction: its row in seiten and, chunk by     *)
(* chunk, an upsert of the vector and the row in chunks.  Equal embeddings *)
(* share the row of vektoren with their checksum, so transactions wait for *)
(* each other's rows, and PostgreSQL aborts one of those that wait in a    *)
(* circle.  A file is the sequence of the checksums of its chunks; the     *)
(* n-th file of importer p becomes the page <<p, n>>.                      *)
(***************************************************************************)
EXTENDS Integers, Sequences, FiniteSets

CONSTANTS
  Importers,
  Sums,      \* checksums of embeddings
  Batches,   \* what an importer may be given: sequences of files
  NoOne,
  NoPage

ASSUME ImportAssumption ==
  /\ Batches \subseteq Seq(Seq(Sums))
  /\ NoOne \notin Importers
  /\ NoPage \notin Importers \X Nat

VARIABLES
  files,       \* the files an importer was given
  finished,    \* how many of them it has finished
  importing,
  written,     \* how many chunks of the file in work it has written
  seiten,      \* committed pages
  chunk_rows,  \* committed chunks
  owner,       \* the page the row of vektoren with a checksum was inserted for
  locker       \* whose open transaction inserted or updated that row

importVars ==
  <<files, finished, importing, written, seiten, chunk_rows, owner, locker>>

PageKeys == Importers \X Nat
ChunkRow == [page : PageKeys, index : Nat, vektor : Sums]

ImportTypeOK ==
  /\ files \in [Importers -> Seq(Seq(Sums))]
  /\ finished \in [Importers -> Nat]
  /\ importing \in [Importers -> {"next", "page", "done", "failed"}]
  /\ written \in [Importers -> Nat]
  /\ seiten \subseteq PageKeys
  /\ chunk_rows \subseteq ChunkRow
  /\ owner \in [Sums -> PageKeys \union {NoPage}]
  /\ locker \in [Sums -> Importers \union {NoOne}]
  /\ \A p \in Importers :
       /\ finished[p] <= Len(files[p])
       /\ importing[p] = "page" =>
            finished[p] < Len(files[p]) /\ written[p] <= Len(files[p][finished[p] + 1])

ImportInit ==
  /\ files \in [Importers -> Batches]
  /\ finished = [p \in Importers |-> 0]
  /\ importing = [p \in Importers |-> "next"]
  /\ written = [p \in Importers |-> 0]
  /\ seiten = {}
  /\ chunk_rows = {}
  /\ owner = [c \in Sums |-> NoPage]
  /\ locker = [c \in Sums |-> NoOne]

-----------------------------------------------------------------------------
ThisFile(p) == files[p][finished[p] + 1]
ThisPage(p) == <<p, finished[p] + 1>>
FileOf(page) == files[page[1]][page[2]]
ThisSum(p) == ThisFile(p)[written[p] + 1]

RowOf(page, i) == [page |-> page, index |-> i, vektor |-> FileOf(page)[i]]

(* A file without text: no transaction. *)
SkipFile(p) ==
  /\ importing[p] = "next"
  /\ finished[p] < Len(files[p])
  /\ ThisFile(p) = <<>>
  /\ finished' = [finished EXCEPT ![p] = @ + 1]
  /\ UNCHANGED <<files, importing, written, seiten, chunk_rows, owner, locker>>

(* INSERT INTO seiten opens the transaction of the file. *)
InsertPage(p) ==
  /\ importing[p] = "next"
  /\ finished[p] < Len(files[p])
  /\ ThisFile(p) # <<>>
  /\ importing' = [importing EXCEPT ![p] = "page"]
  /\ written' = [written EXCEPT ![p] = 0]
  /\ UNCHANGED <<files, finished, seiten, chunk_rows, owner, locker>>

InWork(p) == importing[p] = "page" /\ written[p] < Len(ThisFile(p))

(* The upsert of p waits for the transaction of q. *)
Waits(p, q) == p # q /\ InWork(p) /\ locker[ThisSum(p)] = q

(* Faulty variant: the conflicting row is taken over by the new page. *)
TakesOver(p, c) == [owner EXCEPT ![c] = ThisPage(p)]

(* ON CONFLICT (checksum) DO UPDATE leaves bib_id and seite_id alone. *)
Upserted(p, c) == IF owner[c] = NoPage THEN [owner EXCEPT ![c] = ThisPage(p)] ELSE owner

(* One chunk: the upsert of its vector, once no other transaction holds    *)
(* the row, and the INSERT of the chunk, visible from the commit on.       *)
ImportChunk(p) ==
  /\ InWork(p)
  /\ locker[ThisSum(p)] \in {p, NoOne}
  /\ owner' = Upserted(p, ThisSum(p))
  /\ locker' = [locker EXCEPT ![ThisSum(p)] = p]
  /\ written' = [written EXCEPT ![p] = @ + 1]
  /\ UNCHANGED <<files, finished, importing, seiten, chunk_rows>>

Unlocked(p) == [c \in Sums |-> IF locker[c] = p THEN NoOne ELSE locker[c]]

Committed(p) == {RowOf(ThisPage(p), i) : i \in 1..written[p]}

(* Faulty variant: a commit after every chunk. *)
CommitsEveryChunk(p) ==
  /\ importing[p] = "page"
  /\ written[p] > 0
  /\ seiten' = seiten \union {ThisPage(p)}
  /\ chunk_rows' = chunk_rows \union Committed(p)
  /\ locker' = Unlocked(p)
  /\ IF written[p] = Len(ThisFile(p))
       THEN finished' = [finished EXCEPT ![p] = @ + 1] /\ importing' = [importing EXCEPT ![p] = "next"]
       ELSE UNCHANGED <<finished, importing>>
  /\ UNCHANGED <<files, written, owner>>

(* conn.commit() after the last chunk. *)
Commit(p) ==
  /\ importing[p] = "page"
  /\ written[p] = Len(ThisFile(p))
  /\ seiten' = seiten \union {ThisPage(p)}
  /\ chunk_rows' = chunk_rows \union Committed(p)
  /\ locker' = Unlocked(p)
  /\ finished' = [finished EXCEPT ![p] = @ + 1]
  /\ importing' = [importing EXCEPT ![p] = "next"]
  /\ UNCHANGED <<files, written, owner>>

(* Faulty variant: the exception is caught and the next file follows. *)
GoesOn(p) ==
  /\ finished' = [finished EXCEPT ![p] = @ + 1]
  /\ importing' = [importing EXCEPT ![p] = "next"]
  /\ locker' = Unlocked(p)
  /\ owner' = [c \in Sums |-> IF owner[c] = ThisPage(p) THEN NoPage ELSE owner[c]]
  /\ UNCHANGED <<files, written, seiten, chunk_rows>>

(* The exception leaves import_file and main; the connection rolls back:   *)
(* the rows the transaction inserted are gone, the process has ended.      *)
Rollback(p) ==
  /\ importing' = [importing EXCEPT ![p] = "failed"]
  /\ locker' = Unlocked(p)
  /\ owner' = [c \in Sums |-> IF owner[c] = ThisPage(p) THEN NoPage ELSE owner[c]]
  /\ UNCHANGED <<files, finished, written, seiten, chunk_rows>>

(* A statement of the transaction raises, or the process is killed. *)
FailImport(p) == importing[p] = "page" /\ Rollback(p)

(* The importers that wait for one another in a circle. *)
Circle(S) == \A p \in S : (\E q \in S : Waits(p, q)) /\ (\E q \in S : Waits(q, p))

(* The deadlock detection of PostgreSQL lets the statement of one of them  *)
(* raise.                                                                  *)
Deadlocked(p) ==
  /\ \E S \in SUBSET Importers : p \in S /\ Circle(S)
  /\ Rollback(p)

(* main has imported all files. *)
FinishImport(p) ==
  /\ importing[p] = "next"
  /\ finished[p] = Len(files[p])
  /\ importing' = [importing EXCEPT ![p] = "done"]
  /\ UNCHANGED <<files, finished, written, seiten, chunk_rows, owner, locker>>

ImportStep(p) ==
  SkipFile(p) \/ InsertPage(p) \/ ImportChunk(p) \/ Commit(p) \/ FinishImport(p)

ImportNext == \E p \in Importers : ImportStep(p) \/ FailImport(p) \/ Deadlocked(p)

ImportSpec == ImportInit /\ [][ImportNext]_importVars

(* A process runs unless it waits, and the detector looks at every circle. *)
ImportFairness ==
  /\ \A p \in Importers : WF_importVars(ImportStep(p))
  /\ WF_importVars(\E p \in Importers : Deadlocked(p))

-----------------------------------------------------------------------------
(* A page is in the database with all its chunks or not at all, and every  *)
(* chunk has the vector of its own text, in a row that belongs to a page   *)
(* of the database, whichever importers failed in between.                 *)
PagesAreWhole ==
  /\ \A page \in seiten : \A i \in 1..Len(FileOf(page)) : RowOf(page, i) \in chunk_rows
  /\ \A row \in chunk_rows :
       /\ row.page \in seiten
       /\ row.index \in 1..Len(FileOf(row.page))
       /\ row = RowOf(row.page, row.index)
       /\ owner[row.vektor] \in seiten

(* What an importer leaves behind is the pages of the files it finished,   *)
(* also when it ended with an exception.                                   *)
ImportsAPrefix ==
  \A p \in Importers : \A n \in 1..Len(files[p]) :
    <<p, n>> \in seiten <=> n <= finished[p] /\ files[p][n] # <<>>

(* A vector in the database keeps the page it was inserted for: a later    *)
(* import of an equal embedding, or its failure, does not take it away.    *)
VectorKeepsPage ==
  [][\A c \in Sums : owner[c] \in seiten => owner'[c] = owner[c]]_importVars
=============================================================================
