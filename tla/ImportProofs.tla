---------------------------- MODULE ImportProofs ----------------------------
(* Theorems about the import of documents.  KnowledgeImport.tla, for any   *)
(* importers and any files: pages are whole, an import leaves a prefix of  *)
(* its files, and a vector stays with its page.  ChunkText.tla, for any    *)
(* words, sizes and overlaps: no text is lost.                             *)
EXTENDS KnowledgeImport, ChunkText, DataLemmas

(* A row that is locked is locked by an open transaction and exists; a row *)
(* of an uncommitted page is locked by the transaction of that page.       *)
RowsAreLocked ==
  \A c \in Sums :
    /\ locker[c] # NoOne => importing[locker[c]] = "page" /\ owner[c] # NoPage
    /\ \/ owner[c] = NoPage
       \/ owner[c] \in seiten
       \/ locker[c] # NoOne /\ owner[c] = ThisPage(locker[c])

(* An open transaction is that of a file with text and holds the rows of   *)
(* all the vectors it has written.                                         *)
HoldsItsRows ==
  \A p \in Importers : importing[p] = "page" =>
    /\ ThisFile(p) # <<>>
    /\ \A i \in 1..written[p] : locker[ThisFile(p)[i]] = p

ImportInv == ImportTypeOK /\ PagesAreWhole /\ ImportsAPrefix /\ RowsAreLocked /\ HoldsItsRows

-----------------------------------------------------------------------------
LEMMA ImportInitInv == ImportInit => ImportInv
<1> SUFFICES ASSUME ImportInit PROVE ImportInv
  OBVIOUS
<1>1. files \in [Importers -> Seq(Seq(Sums))]
  BY ImportAssumption DEF ImportInit
<1>2. \A p \in Importers : finished[p] = 0 /\ importing[p] = "next" /\ files[p] \in Seq(Seq(Sums))
  BY <1>1 DEF ImportInit
<1>3. \A c \in Sums : owner[c] = NoPage /\ locker[c] = NoOne
  BY DEF ImportInit
<1>4. seiten = {} /\ chunk_rows = {}
  BY DEF ImportInit
<1>5. ImportTypeOK
  BY <1>1, <1>2 DEF ImportTypeOK, ImportInit
<1> QED
  BY <1>2, <1>3, <1>4, <1>5
  DEF ImportInv, PagesAreWhole, ImportsAPrefix, RowsAreLocked, HoldsItsRows

(* The file of the transaction in work. *)
LEMMA FileInWork ==
  ASSUME ImportTypeOK, NEW p \in Importers, finished[p] < Len(files[p])
  PROVE  /\ ThisFile(p) \in Seq(Sums)
         /\ finished[p] + 1 \in 1..Len(files[p])
         /\ ThisPage(p) \in PageKeys
         /\ FileOf(ThisPage(p)) = ThisFile(p)
         /\ finished[p] \in Nat
<1>1. files[p] \in Seq(Seq(Sums)) /\ finished[p] \in Nat
  BY DEF ImportTypeOK
<1>2. finished[p] + 1 \in 1..Len(files[p])
  BY <1>1
<1> QED
  BY <1>1, <1>2 DEF ThisFile, ThisPage, FileOf, PageKeys

(* The page in work is not committed. *)
LEMMA InWorkNotCommitted ==
  ASSUME ImportInv, NEW p \in Importers, finished[p] < Len(files[p])
  PROVE  ThisPage(p) \notin seiten
<1>1. finished[p] + 1 \in 1..Len(files[p]) /\ finished[p] \in Nat
  BY FileInWork DEF ImportInv
<1>2. ~ (finished[p] + 1 <= finished[p])
  BY <1>1
<1> QED
  BY <1>1, <1>2 DEF ImportInv, ImportsAPrefix, ThisPage

-----------------------------------------------------------------------------
LEMMA SkipFileStep == ASSUME NEW p \in Importers PROVE ImportInv /\ SkipFile(p) => ImportInv'
<1> SUFFICES ASSUME ImportInv, SkipFile(p) PROVE ImportInv'
  OBVIOUS
<1>1. ImportTypeOK /\ finished[p] < Len(files[p]) /\ importing[p] = "next" /\ ThisFile(p) = <<>>
  BY DEF SkipFile, ImportInv
<1>2. /\ files' = files /\ importing' = importing /\ written' = written /\ seiten' = seiten
      /\ chunk_rows' = chunk_rows /\ owner' = owner /\ locker' = locker
  BY DEF SkipFile
<1>3. /\ finished' \in [Importers -> Nat]
      /\ finished'[p] = finished[p] + 1
      /\ \A q \in Importers \ {p} : finished'[q] = finished[q]
  BY <1>1 DEF SkipFile, ImportTypeOK
<1>4. ImportTypeOK'
  <2>1. finished[p] + 1 <= Len(files[p])
    BY <1>1, FileInWork
  <2>2. \A q \in Importers \ {p} : importing[q] = "page" =>
          finished[q] < Len(files[q]) /\ written[q] <= Len(files[q][finished[q] + 1])
    BY <1>1 DEF ImportTypeOK
  <2>3. \A q \in Importers : finished'[q] <= Len(files[q])
    BY <2>1, <1>1, <1>3 DEF ImportTypeOK
  <2> QED
    BY <1>1, <1>2, <1>3, <2>2, <2>3 DEF ImportTypeOK
<1>5. PagesAreWhole'
  BY <1>2 DEF ImportInv, PagesAreWhole, RowOf, FileOf
<1>6. ImportsAPrefix'
  <2> SUFFICES ASSUME NEW q \in Importers, NEW n \in 1..Len(files[q])
               PROVE  <<q, n>> \in seiten <=> n <= finished'[q] /\ files[q][n] # <<>>
    BY <1>2 DEF ImportsAPrefix
  <2>1. <<q, n>> \in seiten <=> n <= finished[q] /\ files[q][n] # <<>>
    BY DEF ImportInv, ImportsAPrefix
  <2>2. CASE q # p
    BY <2>1, <2>2, <1>3
  <2>3. CASE q = p /\ n = finished[p] + 1
    BY <2>1, <2>3, <1>1, <1>3 DEF ThisFile, ImportTypeOK
  <2>4. CASE q = p /\ n # finished[p] + 1
    <3>1. finished[p] \in Nat
      BY <1>1 DEF ImportTypeOK
    <3>2. n <= finished'[q] <=> n <= finished[q]
      BY <2>4, <3>1, <1>3
    <3> QED
      BY <2>1, <3>2
  <2> QED
    BY <2>2, <2>3, <2>4
<1>7. RowsAreLocked'
  <2> SUFFICES ASSUME NEW c \in Sums
               PROVE  /\ locker[c] # NoOne => importing[locker[c]] = "page" /\ owner[c] # NoPage
                      /\ \/ owner[c] = NoPage
                         \/ owner[c] \in seiten
                         \/ locker[c] # NoOne /\ owner[c] = ThisPage(locker[c])'
    BY <1>2 DEF RowsAreLocked, ThisPage
  <2>1. locker[c] # NoOne => locker[c] \in Importers \ {p}
    BY <1>1 DEF ImportInv, RowsAreLocked, ImportTypeOK
  <2>2. locker[c] # NoOne => ThisPage(locker[c])' = ThisPage(locker[c])
    BY <2>1, <1>2, <1>3 DEF ThisPage
  <2> QED
    BY <2>2 DEF ImportInv, RowsAreLocked
<1>8. HoldsItsRows'
  <2> SUFFICES ASSUME NEW q \in Importers, importing[q] = "page"
               PROVE  ThisFile(q)' # <<>> /\ \A i \in 1..written[q] : locker[ThisFile(q)'[i]] = q
    BY <1>2 DEF HoldsItsRows, ThisFile
  <2>1. ThisFile(q)' = ThisFile(q)
    BY <1>1, <1>2, <1>3 DEF ThisFile
  <2> QED
    BY <2>1 DEF ImportInv, HoldsItsRows
<1> QED
  BY <1>4, <1>5, <1>6, <1>7, <1>8 DEF ImportInv

LEMMA InsertPageStep == ASSUME NEW p \in Importers PROVE ImportInv /\ InsertPage(p) => ImportInv'
<1> SUFFICES ASSUME ImportInv, InsertPage(p) PROVE ImportInv'
  OBVIOUS
<1>1. ImportTypeOK /\ finished[p] < Len(files[p]) /\ importing[p] = "next" /\ ThisFile(p) # <<>>
  BY DEF InsertPage, ImportInv
<1>2. /\ files' = files /\ finished' = finished /\ seiten' = seiten
      /\ chunk_rows' = chunk_rows /\ owner' = owner /\ locker' = locker
  BY DEF InsertPage
<1>3. /\ importing' \in [Importers -> {"next", "page", "done", "failed"}]
      /\ written' \in [Importers -> Nat]
      /\ importing'[p] = "page" /\ written'[p] = 0
      /\ \A q \in Importers \ {p} : importing'[q] = importing[q] /\ written'[q] = written[q]
  BY <1>1 DEF InsertPage, ImportTypeOK
<1>4. ImportTypeOK'
  <2>1. Len(files[p][finished[p] + 1]) \in Nat
    BY <1>1, FileInWork DEF ThisFile
  <2> QED
    BY <1>1, <1>2, <1>3, <2>1 DEF ImportTypeOK
<1>5. PagesAreWhole' /\ ImportsAPrefix'
  BY <1>2 DEF ImportInv, PagesAreWhole, ImportsAPrefix, RowOf, FileOf
<1>6. \A q \in Importers : ThisFile(q)' = ThisFile(q) /\ ThisPage(q)' = ThisPage(q)
  BY <1>2 DEF ThisFile, ThisPage
<1>7. RowsAreLocked'
  <2>1. \A c \in Sums : locker[c] \in Importers \union {NoOne}
    BY <1>1 DEF ImportTypeOK
  <2> QED
    BY <1>2, <1>3, <1>6, <2>1 DEF ImportInv, RowsAreLocked
<1>8. HoldsItsRows'
  BY <1>1, <1>2, <1>3, <1>6 DEF ImportInv, HoldsItsRows
<1> QED
  BY <1>4, <1>5, <1>7, <1>8 DEF ImportInv

(* The upsert: the row exists afterwards and is locked; a committed row    *)
(* keeps its page.                                                         *)
LEMMA ImportChunkStep == ASSUME NEW p \in Importers PROVE ImportInv /\ ImportChunk(p) => ImportInv'
<1> SUFFICES ASSUME ImportInv, ImportChunk(p) PROVE ImportInv'
  OBVIOUS
<1> DEFINE c == ThisSum(p)
<1>1. ImportTypeOK /\ importing[p] = "page" /\ finished[p] < Len(files[p]) /\ written[p] < Len(ThisFile(p))
  BY DEF ImportChunk, InWork, ImportInv, ImportTypeOK
<1>2. /\ files' = files /\ finished' = finished /\ importing' = importing /\ seiten' = seiten /\ chunk_rows' = chunk_rows
      /\ locker[c] \in {p, NoOne}
  BY DEF ImportChunk
<1>3. /\ ThisFile(p) \in Seq(Sums) /\ written[p] \in Nat
      /\ c \in Sums
  <2>1. ThisFile(p) \in Seq(Sums) /\ written[p] \in Nat
    BY <1>1, FileInWork DEF ImportTypeOK
  <2> QED
    BY <2>1, <1>1 DEF ThisSum
<1>4. /\ locker' \in [Sums -> Importers \union {NoOne}]
      /\ locker'[c] = p
      /\ \A d \in Sums \ {c} : locker'[d] = locker[d]
  BY <1>1, <1>3 DEF ImportChunk, ImportTypeOK
<1>5. /\ owner' \in [Sums -> PageKeys \union {NoPage}]
      /\ owner[c] = NoPage => owner'[c] = ThisPage(p)
      /\ owner[c] # NoPage => owner'[c] = owner[c]
      /\ \A d \in Sums \ {c} : owner'[d] = owner[d]
  <2>1. CASE owner[c] = NoPage
    <3>1. owner' = [owner EXCEPT ![c] = ThisPage(p)]
      BY <2>1 DEF ImportChunk, Upserted
    <3> QED
      BY <2>1, <3>1, <1>1, <1>3, FileInWork DEF ImportTypeOK
  <2>2. CASE owner[c] # NoPage
    <3>1. owner' = owner
      BY <2>2 DEF ImportChunk, Upserted
    <3> QED
      BY <2>2, <3>1, <1>1 DEF ImportTypeOK
  <2> QED
    BY <2>1, <2>2
<1>6. /\ written' \in [Importers -> Nat]
      /\ written'[p] = written[p] + 1
      /\ \A q \in Importers \ {p} : written'[q] = written[q]
  BY <1>1, <1>3 DEF ImportChunk, ImportTypeOK
<1>7. ImportTypeOK'
  <2>1. Len(ThisFile(p)) \in Nat /\ written'[p] <= Len(ThisFile(p))
    BY <1>1, <1>3, <1>6
  <2> QED
    BY <1>1, <1>2, <1>4, <1>5, <1>6, <2>1 DEF ImportTypeOK, ThisFile
<1>8. \A q \in Importers : ThisFile(q)' = ThisFile(q) /\ ThisPage(q)' = ThisPage(q)
  BY <1>2 DEF ThisFile, ThisPage
<1>9. ThisPage(p) # NoPage
  BY <1>1, FileInWork, ImportAssumption DEF PageKeys
<1>10. NoPage \notin seiten
  BY <1>1, ImportAssumption DEF ImportTypeOK, PageKeys
<1>11. PagesAreWhole'
  <2>1. \A d \in Sums : owner[d] \in seiten => owner'[d] \in seiten
    BY <1>5, <1>10
  <2>2. \A row \in chunk_rows : row.vektor \in Sums
    BY <1>1 DEF ImportTypeOK, ChunkRow
  <2> QED
    BY <1>2, <2>1, <2>2 DEF ImportInv, PagesAreWhole, RowOf, FileOf
<1>12. ImportsAPrefix'
  BY <1>2 DEF ImportInv, ImportsAPrefix
<1>13. RowsAreLocked'
  <2> SUFFICES ASSUME NEW d \in Sums
               PROVE  /\ locker'[d] # NoOne => importing[locker'[d]] = "page" /\ owner'[d] # NoPage
                      /\ \/ owner'[d] = NoPage
                         \/ owner'[d] \in seiten
                         \/ locker'[d] # NoOne /\ owner'[d] = ThisPage(locker'[d])
    BY <1>2 DEF RowsAreLocked, ThisPage
  <2>1. CASE d # c
    <3>1. locker[d] \in Importers \union {NoOne}
      BY <1>1 DEF ImportTypeOK
    <3> QED
      BY <2>1, <3>1, <1>4, <1>5, <1>8 DEF ImportInv, RowsAreLocked
  <2>2. CASE d = c
    <3>1. owner[c] = NoPage \/ owner[c] \in seiten \/ owner[c] = ThisPage(p)
      BY <1>2, <1>3 DEF ImportInv, RowsAreLocked
    <3>2. p # NoOne
      BY ImportAssumption
    <3> QED
      BY <2>2, <3>1, <3>2, <1>1, <1>4, <1>5, <1>8, <1>9
  <2> QED
    BY <2>1, <2>2
<1>14. HoldsItsRows'
  <2> SUFFICES ASSUME NEW q \in Importers, importing[q] = "page"
               PROVE  ThisFile(q) # <<>> /\ \A i \in 1..written'[q] : locker'[ThisFile(q)[i]] = q
    BY <1>2, <1>8 DEF HoldsItsRows
  <2>1. ThisFile(q) # <<>> /\ \A i \in 1..written[q] : locker[ThisFile(q)[i]] = q
    BY DEF ImportInv, HoldsItsRows
  <2>2. ThisFile(q) \in Seq(Sums) /\ written[q] \in Nat /\ written[q] <= Len(ThisFile(q))
    <3>1. finished[q] < Len(files[q]) /\ written[q] <= Len(ThisFile(q)) /\ written[q] \in Nat
      BY <1>1 DEF ImportTypeOK, ThisFile
    <3> QED
      BY <3>1, <1>1, FileInWork
  <2>3. CASE q = p
    <3>1. \A i \in 1..written[p] : ThisFile(p)[i] \in Sums /\ locker'[ThisFile(p)[i]] = p
      BY <2>1, <2>2, <2>3, <1>4
    <3>2. ThisFile(p)[written[p] + 1] = c
      BY DEF ThisSum
    <3> QED
      BY <2>1, <2>3, <3>1, <3>2, <1>3, <1>4, <1>6
  <2>4. CASE q # p
    <3>1. \A i \in 1..written[q] : ThisFile(q)[i] \in Sums
      BY <2>2
    <3>2. \A i \in 1..written[q] : ThisFile(q)[i] # c
      BY <2>1, <2>4, <1>2, ImportAssumption
    <3> QED
      BY <2>1, <2>4, <3>1, <3>2, <1>4, <1>6
  <2> QED
    BY <2>3, <2>4
<1> QED
  BY <1>7, <1>11, <1>12, <1>13, <1>14 DEF ImportInv

(* The commit: the new page is whole because the transaction has written   *)
(* all its chunks, and their vectors belong to it or to committed pages.   *)
LEMMA CommitStep == ASSUME NEW p \in Importers PROVE ImportInv /\ Commit(p) => ImportInv'
<1> SUFFICES ASSUME ImportInv, Commit(p) PROVE ImportInv'
  OBVIOUS
<1> DEFINE P == ThisPage(p)
<1> DEFINE f == ThisFile(p)
<1>1. ImportTypeOK /\ importing[p] = "page" /\ finished[p] < Len(files[p]) /\ written[p] = Len(f)
  BY DEF Commit, ImportInv, ImportTypeOK
<1>2. /\ files' = files /\ written' = written /\ owner' = owner
      /\ seiten' = seiten \union {P}
      /\ chunk_rows' = chunk_rows \union Committed(p)
  BY DEF Commit
<1>3. /\ f \in Seq(Sums) /\ finished[p] + 1 \in 1..Len(files[p]) /\ finished[p] \in Nat
      /\ P \in PageKeys /\ FileOf(P) = f
  BY <1>1, FileInWork
<1>4. /\ finished' \in [Importers -> Nat]
      /\ importing' \in [Importers -> {"next", "page", "done", "failed"}]
      /\ finished'[p] = finished[p] + 1 /\ importing'[p] = "next"
      /\ \A q \in Importers \ {p} : finished'[q] = finished[q] /\ importing'[q] = importing[q]
  BY <1>1, <1>3 DEF Commit, ImportTypeOK
<1>5. /\ locker' \in [Sums -> Importers \union {NoOne}]
      /\ \A d \in Sums : /\ locker[d] = p => locker'[d] = NoOne
                         /\ locker[d] # p => locker'[d] = locker[d]
  BY <1>1 DEF Commit, Unlocked, ImportTypeOK
<1>6. \A i \in 1..Len(f) : RowOf(P, i) = [page |-> P, index |-> i, vektor |-> f[i]]
  BY <1>3 DEF RowOf
<1>7. Committed(p) = {RowOf(P, i) : i \in 1..Len(f)}
  BY <1>1 DEF Committed
<1>8. \A i \in 1..Len(f) : f[i] \in Sums
  BY <1>3
<1>9. ImportTypeOK'
  <2>1. Committed(p) \subseteq ChunkRow
    BY <1>3, <1>6, <1>7, <1>8 DEF ChunkRow
  <2>2. \A q \in Importers \ {p} : importing[q] = "page" =>
          finished[q] < Len(files[q]) /\ written[q] <= Len(files[q][finished[q] + 1])
    BY <1>1 DEF ImportTypeOK
  <2>3. \A q \in Importers : finished'[q] <= Len(files[q])
    <3>1. finished'[p] <= Len(files[p])
      BY <1>3, <1>4
    <3>2. \A q \in Importers \ {p} : finished'[q] <= Len(files[q])
      BY <1>1, <1>4 DEF ImportTypeOK
    <3> QED
      BY <3>1, <3>2
  <2> QED
    BY <1>1, <1>2, <1>3, <1>4, <1>5, <2>1, <2>2, <2>3 DEF ImportTypeOK
<1>10. \A d \in Sums : locker[d] = p => owner[d] \in seiten \union {P}
  BY ImportAssumption DEF ImportInv, RowsAreLocked
<1>11. PagesAreWhole'
  <2>1. \A page, i : FileOf(page)' = FileOf(page) /\ RowOf(page, i)' = RowOf(page, i)
    BY <1>2 DEF FileOf, RowOf
  <2>2. \A page \in seiten' : \A i \in 1..Len(FileOf(page)) : RowOf(page, i) \in chunk_rows'
    BY <1>2, <1>3, <1>7 DEF ImportInv, PagesAreWhole
  <2>3. ASSUME NEW row \in chunk_rows'
        PROVE  /\ row.page \in seiten'
               /\ row.index \in 1..Len(FileOf(row.page))
               /\ row = RowOf(row.page, row.index)
               /\ owner[row.vektor] \in seiten'
    <3>1. CASE row \in chunk_rows
      BY <3>1, <1>2 DEF ImportInv, PagesAreWhole
    <3>2. CASE row \notin chunk_rows
      <4>1. PICK i \in 1..Len(f) : row = RowOf(P, i)
        BY <3>2, <1>2, <1>7
      <4>2. row.page = P /\ row.index = i /\ row.vektor = f[i]
        BY <4>1, <1>6
      <4>3. locker[f[i]] = p
        BY <1>1, <4>1 DEF ImportInv, HoldsItsRows
      <4>4. owner[f[i]] \in seiten'
        BY <4>1, <4>3, <1>2, <1>8, <1>10
      <4> QED
        BY <4>1, <4>2, <4>4, <1>2, <1>3
    <3> QED
      BY <3>1, <3>2
  <2> QED
    BY <1>2, <2>1, <2>2, <2>3 DEF PagesAreWhole
<1>12. ImportsAPrefix'
  <2> SUFFICES ASSUME NEW q \in Importers, NEW n \in 1..Len(files[q])
               PROVE  <<q, n>> \in seiten' <=> n <= finished'[q] /\ files[q][n] # <<>>
    BY <1>2 DEF ImportsAPrefix
  <2>1. <<q, n>> \in seiten <=> n <= finished[q] /\ files[q][n] # <<>>
    BY DEF ImportInv, ImportsAPrefix
  <2>2. CASE q # p
    BY <2>1, <2>2, <1>2, <1>4 DEF ThisPage
  <2>3. CASE q = p /\ n = finished[p] + 1
    <3>1. files[p][finished[p] + 1] # <<>>
      BY <1>1 DEF ImportInv, HoldsItsRows, ThisFile
    <3> QED
      BY <2>3, <3>1, <1>2, <1>3, <1>4 DEF ThisPage
  <2>4. CASE q = p /\ n # finished[p] + 1
    <3>1. n <= finished'[q] <=> n <= finished[q]
      BY <2>4, <1>3, <1>4
    <3>2. <<q, n>> # P
      BY <2>4 DEF ThisPage
    <3> QED
      BY <2>1, <3>1, <3>2, <1>2
  <2> QED
    BY <2>2, <2>3, <2>4
<1>13. RowsAreLocked'
  <2> SUFFICES ASSUME NEW d \in Sums
               PROVE  /\ locker'[d] # NoOne => importing'[locker'[d]] = "page" /\ owner[d] # NoPage
                      /\ \/ owner[d] = NoPage
                         \/ owner[d] \in seiten'
                         \/ locker'[d] # NoOne /\ owner[d] = <<locker'[d], finished'[locker'[d]] + 1>>
    BY <1>2 DEF RowsAreLocked, ThisPage
  <2>1. CASE locker[d] = p
    BY <2>1, <1>2, <1>5, <1>10
  <2>2. CASE locker[d] = NoOne
    BY <2>2, <1>2, <1>5, ImportAssumption DEF ImportInv, RowsAreLocked
  <2>3. CASE locker[d] \in Importers \ {p}
    <3>1. locker[d] # NoOne
      BY <2>3, ImportAssumption
    <3> QED
      BY <2>3, <3>1, <1>2, <1>4, <1>5 DEF ImportInv, RowsAreLocked, ThisPage
  <2> QED
    BY <2>1, <2>2, <2>3, <1>1 DEF ImportTypeOK
<1>14. HoldsItsRows'
  <2> SUFFICES ASSUME NEW q \in Importers, importing'[q] = "page"
               PROVE  ThisFile(q)' # <<>> /\ \A i \in 1..written[q] : locker'[ThisFile(q)'[i]] = q
    BY <1>2 DEF HoldsItsRows
  <2>1. q # p /\ importing[q] = "page"
    BY <1>4
  <2>2. ThisFile(q)' = ThisFile(q)
    BY <2>1, <1>2, <1>4 DEF ThisFile
  <2>3. ThisFile(q) # <<>> /\ \A i \in 1..written[q] : locker[ThisFile(q)[i]] = q
    BY <2>1 DEF ImportInv, HoldsItsRows
  <2>4. ThisFile(q) \in Seq(Sums) /\ written[q] \in Nat /\ written[q] <= Len(ThisFile(q))
    <3>1. finished[q] < Len(files[q]) /\ written[q] <= Len(ThisFile(q)) /\ written[q] \in Nat
      BY <2>1, <1>1 DEF ImportTypeOK, ThisFile
    <3> QED
      BY <3>1, <1>1, FileInWork
  <2>5. \A i \in 1..written[q] : ThisFile(q)[i] \in Sums
    BY <2>4
  <2> QED
    BY <2>1, <2>2, <2>3, <2>5, <1>5
<1> QED
  BY <1>9, <1>11, <1>12, <1>13, <1>14 DEF ImportInv

(* A rollback removes only rows of the page in work, and no committed      *)
(* chunk refers to them.                                                   *)
LEMMA RollbackStep ==
  ASSUME NEW p \in Importers, importing[p] = "page"
  PROVE  ImportInv /\ Rollback(p) => ImportInv'
<1> SUFFICES ASSUME ImportInv, Rollback(p) PROVE ImportInv'
  OBVIOUS
<1> DEFINE P == ThisPage(p)
<1>1. ImportTypeOK /\ finished[p] < Len(files[p])
  BY DEF ImportInv, ImportTypeOK
<1>2. /\ files' = files /\ written' = written /\ finished' = finished /\ seiten' = seiten /\ chunk_rows' = chunk_rows
  BY DEF Rollback
<1>3. P \notin seiten
  BY <1>1, InWorkNotCommitted
<1>4. /\ importing' \in [Importers -> {"next", "page", "done", "failed"}]
      /\ importing'[p] = "failed"
      /\ \A q \in Importers \ {p} : importing'[q] = importing[q]
  BY <1>1 DEF Rollback, ImportTypeOK
<1>5. /\ locker' \in [Sums -> Importers \union {NoOne}]
      /\ \A d \in Sums : /\ locker[d] = p => locker'[d] = NoOne
                         /\ locker[d] # p => locker'[d] = locker[d]
  BY <1>1 DEF Rollback, Unlocked, ImportTypeOK
<1>6. /\ owner' \in [Sums -> PageKeys \union {NoPage}]
      /\ \A d \in Sums : /\ owner[d] = P => owner'[d] = NoPage
                         /\ owner[d] # P => owner'[d] = owner[d]
  BY <1>1 DEF Rollback, ImportTypeOK
<1>7. ImportTypeOK'
  BY <1>1, <1>2, <1>4, <1>5, <1>6 DEF ImportTypeOK
<1>8. PagesAreWhole'
  <2>1. \A row \in chunk_rows : row.vektor \in Sums
    BY <1>1 DEF ImportTypeOK, ChunkRow
  <2> QED
    BY <1>2, <1>3, <1>6, <2>1 DEF ImportInv, PagesAreWhole, RowOf, FileOf
<1>9. ImportsAPrefix'
  BY <1>2 DEF ImportInv, ImportsAPrefix
<1>10. RowsAreLocked'
  <2> SUFFICES ASSUME NEW d \in Sums
               PROVE  /\ locker'[d] # NoOne => importing'[locker'[d]] = "page" /\ owner'[d] # NoPage
                      /\ \/ owner'[d] = NoPage
                         \/ owner'[d] \in seiten
                         \/ locker'[d] # NoOne /\ owner'[d] = ThisPage(locker'[d])
    BY <1>2 DEF RowsAreLocked, ThisPage
  <2>1. CASE locker[d] = p
    BY <2>1, <1>5, <1>6, ImportAssumption DEF ImportInv, RowsAreLocked
  <2>2. CASE locker[d] = NoOne
    BY <2>2, <1>5, <1>6, ImportAssumption DEF ImportInv, RowsAreLocked
  <2>3. CASE locker[d] \in Importers \ {p}
    <3>1. locker[d] # NoOne /\ locker'[d] = locker[d]
      BY <2>3, <1>5, ImportAssumption
    <3>2. owner[d] # P
      BY <2>3, <3>1, <1>3 DEF ImportInv, RowsAreLocked, ThisPage
    <3> QED
      BY <2>3, <3>1, <3>2, <1>4, <1>6 DEF ImportInv, RowsAreLocked
  <2> QED
    BY <2>1, <2>2, <2>3, <1>1 DEF ImportTypeOK
<1>11. HoldsItsRows'
  <2> SUFFICES ASSUME NEW q \in Importers, importing'[q] = "page"
               PROVE  ThisFile(q) # <<>> /\ \A i \in 1..written[q] : locker'[ThisFile(q)[i]] = q
    BY <1>2 DEF HoldsItsRows, ThisFile
  <2>1. q # p /\ importing[q] = "page"
    BY <1>4
  <2>2. ThisFile(q) # <<>> /\ \A i \in 1..written[q] : locker[ThisFile(q)[i]] = q
    BY <2>1 DEF ImportInv, HoldsItsRows
  <2>3. ThisFile(q) \in Seq(Sums) /\ written[q] \in Nat /\ written[q] <= Len(ThisFile(q))
    <3>1. finished[q] < Len(files[q]) /\ written[q] <= Len(ThisFile(q)) /\ written[q] \in Nat
      BY <2>1, <1>1 DEF ImportTypeOK, ThisFile
    <3> QED
      BY <3>1, <1>1, FileInWork
  <2>4. \A i \in 1..written[q] : ThisFile(q)[i] \in Sums
    BY <2>3
  <2> QED
    BY <2>1, <2>2, <2>4, <1>5
<1> QED
  BY <1>7, <1>8, <1>9, <1>10, <1>11 DEF ImportInv

(* A circle consists of importers with an open transaction. *)
LEMMA DeadlockedInWork ==
  ASSUME NEW p \in Importers, Deadlocked(p)
  PROVE  importing[p] = "page" /\ Rollback(p)
BY DEF Deadlocked, Circle, Waits, InWork

LEMMA FinishStep == ASSUME NEW p \in Importers PROVE ImportInv /\ FinishImport(p) => ImportInv'
<1> SUFFICES ASSUME ImportInv, FinishImport(p) PROVE ImportInv'
  OBVIOUS
<1>1. ImportTypeOK /\ importing[p] = "next"
  BY DEF FinishImport, ImportInv
<1>2. /\ files' = files /\ finished' = finished /\ written' = written /\ seiten' = seiten
      /\ chunk_rows' = chunk_rows /\ owner' = owner /\ locker' = locker
  BY DEF FinishImport
<1>3. /\ importing' \in [Importers -> {"next", "page", "done", "failed"}]
      /\ importing'[p] = "done"
      /\ \A q \in Importers \ {p} : importing'[q] = importing[q]
  BY <1>1 DEF FinishImport, ImportTypeOK
<1>4. ImportTypeOK'
  BY <1>1, <1>2, <1>3 DEF ImportTypeOK
<1>5. PagesAreWhole' /\ ImportsAPrefix'
  BY <1>2 DEF ImportInv, PagesAreWhole, ImportsAPrefix, RowOf, FileOf
<1>6. \A q \in Importers : ThisFile(q)' = ThisFile(q) /\ ThisPage(q)' = ThisPage(q)
  BY <1>2 DEF ThisFile, ThisPage
<1>7. RowsAreLocked'
  <2>1. \A c \in Sums : locker[c] \in Importers \union {NoOne}
    BY <1>1 DEF ImportTypeOK
  <2> QED
    BY <1>1, <1>2, <1>3, <1>6, <2>1 DEF ImportInv, RowsAreLocked
<1>8. HoldsItsRows'
  BY <1>1, <1>2, <1>3, <1>6 DEF ImportInv, HoldsItsRows
<1> QED
  BY <1>4, <1>5, <1>7, <1>8 DEF ImportInv

-----------------------------------------------------------------------------
LEMMA StutterStep == ImportInv /\ UNCHANGED importVars => ImportInv'
<1> SUFFICES ASSUME ImportInv, UNCHANGED importVars PROVE ImportInv'
  OBVIOUS
<1>1. ImportTypeOK' /\ PagesAreWhole' /\ ImportsAPrefix'
  BY DEF importVars, ImportInv, ImportTypeOK, PagesAreWhole, ImportsAPrefix, RowOf, FileOf
<1>2. RowsAreLocked' /\ HoldsItsRows'
  BY DEF importVars, ImportInv, RowsAreLocked, HoldsItsRows, ThisFile, ThisPage
<1> QED
  BY <1>1, <1>2 DEF ImportInv

LEMMA ImportStepInv == ImportInv /\ [ImportNext]_importVars => ImportInv'
<1> SUFFICES ASSUME ImportInv, [ImportNext]_importVars PROVE ImportInv'
  OBVIOUS
<1>1. ASSUME NEW p \in Importers, ImportStep(p) PROVE ImportInv'
  BY <1>1, SkipFileStep, InsertPageStep, ImportChunkStep, CommitStep, FinishStep DEF ImportStep
<1>2. ASSUME NEW p \in Importers, FailImport(p) PROVE ImportInv'
  BY <1>2, RollbackStep DEF FailImport
<1>3. ASSUME NEW p \in Importers, Deadlocked(p) PROVE ImportInv'
  BY <1>3, DeadlockedInWork, RollbackStep
<1> QED
  BY <1>1, <1>2, <1>3, StutterStep DEF ImportNext

(* Only an upsert and a rollback write to vektoren; neither changes the    *)
(* page of a committed row.                                                *)
LEMMA VectorStep ==
  ImportInv /\ [ImportNext]_importVars => \A c \in Sums : owner[c] \in seiten => owner'[c] = owner[c]
<1> SUFFICES ASSUME ImportInv, [ImportNext]_importVars, NEW c \in Sums, owner[c] \in seiten
             PROVE  owner'[c] = owner[c]
  OBVIOUS
<1>1. ImportTypeOK /\ owner[c] # NoPage
  BY ImportAssumption DEF ImportInv, ImportTypeOK, PageKeys
<1>2. ASSUME NEW p \in Importers, ImportChunk(p) PROVE owner'[c] = owner[c]
  <2>1. CASE owner[ThisSum(p)] = NoPage
    BY <1>1, <1>2, <2>1 DEF ImportChunk, Upserted, ImportTypeOK
  <2>2. CASE owner[ThisSum(p)] # NoPage
    BY <1>2, <2>2 DEF ImportChunk, Upserted
  <2> QED
    BY <2>1, <2>2
<1>3. ASSUME NEW p \in Importers, importing[p] = "page", Rollback(p) PROVE owner'[c] = owner[c]
  <2>1. finished[p] < Len(files[p])
    BY <1>1, <1>3 DEF ImportTypeOK
  <2>2. owner[c] # ThisPage(p)
    BY <2>1, InWorkNotCommitted
  <2> QED
    BY <1>3, <2>2 DEF Rollback
<1>4. ASSUME NEW p \in Importers, ImportStep(p) PROVE owner'[c] = owner[c]
  BY <1>2, <1>4 DEF ImportStep, SkipFile, InsertPage, Commit, FinishImport
<1> QED
  BY <1>3, <1>4, DeadlockedInWork DEF ImportNext, FailImport, importVars

(* Whichever importers fail or are aborted, a page of the database has all *)
(* its chunks and every chunk its vector (import_file).                    *)
THEOREM ImportCorrect == ImportSpec => []PagesAreWhole
<1>1. ImportInv => PagesAreWhole
  BY DEF ImportInv
<1> QED
  BY ImportInitInv, ImportStepInv, <1>1, PTL DEF ImportSpec

(* An importer leaves the pages of the files it finished, and no others.   *)
THEOREM ImportPrefix == ImportSpec => []ImportsAPrefix
<1>1. ImportInv => ImportsAPrefix
  BY DEF ImportInv
<1> QED
  BY ImportInitInv, ImportStepInv, <1>1, PTL DEF ImportSpec

(* The ON CONFLICT clause and every rollback leave the page of a committed *)
(* vector alone.                                                           *)
THEOREM VectorStays == ImportSpec => VectorKeepsPage
BY ImportInitInv, ImportStepInv, VectorStep, PTL DEF ImportSpec, VectorKeepsPage
-----------------------------------------------------------------------------
(* LengthOf for any words. *)
Span(ws, i, j) == Total(ws)[j] - Total(ws)[i - 1] + (j - i)

LEMMA Spans ==
  ASSUME NEW ws \in Seq(Nat)
  PROVE  /\ \A i, j \in Nat : 1 <= i /\ i <= j /\ j <= Len(ws) => Span(ws, i, j) \in Int
         /\ \A i \in Nat : 1 <= i /\ i <= Len(ws) => Span(ws, i, i) = ws[i]
         /\ \A i, j \in Nat : 1 <= i /\ i < j /\ j <= Len(ws) =>
              Span(ws, i, j) = Span(ws, i, j - 1) + 1 + ws[j]
         /\ \A i, j, k, l \in Nat : 1 <= i /\ i <= k /\ k <= l /\ l <= j /\ j <= Len(ws) =>
              Span(ws, k, l) <= Span(ws, i, j)
<1>0. Len(ws) \in Nat /\ \A n \in Nat : 1 <= n /\ n <= Len(ws) => ws[n] \in Nat
  OBVIOUS
<1>1. \A n \in Nat : n <= Len(ws) => Total(ws)[n] \in Nat
  BY Totals
<1>2. \A n \in Nat : 1 <= n /\ n <= Len(ws) => n - 1 \in Nat /\ Total(ws)[n] = Total(ws)[n - 1] + ws[n]
  <2> SUFFICES ASSUME NEW n \in Nat, 1 <= n, n <= Len(ws)
               PROVE  n - 1 \in Nat /\ Total(ws)[n] = Total(ws)[n - 1] + ws[n]
    OBVIOUS
  <2>1. n - 1 \in Nat /\ n - 1 < Len(ws) /\ n - 1 + 1 = n
    BY <1>0
  <2> QED BY <2>1, Totals
<1>3. ASSUME NEW i \in Nat, NEW j \in Nat, 1 <= i, i <= j, j <= Len(ws) PROVE Span(ws, i, j) \in Int
  <2>1. i - 1 \in Nat /\ i - 1 <= Len(ws)
    BY <1>0, <1>3
  <2> QED BY <2>1, <1>1, <1>3 DEF Span
<1>4. ASSUME NEW i \in Nat, 1 <= i, i <= Len(ws) PROVE Span(ws, i, i) = ws[i]
  <2>1. i - 1 \in Nat /\ i - 1 <= Len(ws)
    BY <1>0, <1>4
  <2>2. Total(ws)[i - 1] \in Nat /\ ws[i] \in Nat /\ Total(ws)[i] = Total(ws)[i - 1] + ws[i]
    BY <2>1, <1>0, <1>1, <1>2, <1>4
  <2> QED BY <2>2 DEF Span
<1>5. ASSUME NEW i \in Nat, NEW j \in Nat, 1 <= i, i < j, j <= Len(ws)
      PROVE  Span(ws, i, j) = Span(ws, i, j - 1) + 1 + ws[j]
  <2>1. i - 1 \in Nat /\ i - 1 <= Len(ws) /\ 1 <= j /\ j - 1 \in Nat /\ j - 1 <= Len(ws)
    BY <1>0, <1>5
  <2>2. Total(ws)[j] = Total(ws)[j - 1] + ws[j] /\ ws[j] \in Nat
    BY <2>1, <1>0, <1>2, <1>5
  <2>3. Total(ws)[i - 1] \in Nat /\ Total(ws)[j - 1] \in Nat
    BY <2>1, <1>1
  <2> QED BY <2>2, <2>3, <1>5 DEF Span
<1>6. ASSUME NEW i \in Nat, NEW j \in Nat, NEW k \in Nat, NEW l \in Nat,
             1 <= i, i <= k, k <= l, l <= j, j <= Len(ws)
      PROVE  Span(ws, k, l) <= Span(ws, i, j)
  <2>1. /\ i - 1 \in Nat /\ i - 1 <= k - 1
        /\ k - 1 \in Nat /\ k - 1 <= Len(ws) /\ l <= Len(ws) /\ i - 1 <= Len(ws)
    BY <1>0, <1>6
  <2>2. Total(ws)[i - 1] <= Total(ws)[k - 1] /\ Total(ws)[l] <= Total(ws)[j]
    BY <2>1, <1>6, TotalsGrow
  <2>3. /\ Total(ws)[i - 1] \in Nat /\ Total(ws)[k - 1] \in Nat
        /\ Total(ws)[l] \in Nat /\ Total(ws)[j] \in Nat
    BY <2>1, <1>1, <1>6
  <2> QED BY <2>2, <2>3, <1>6 DEF Span
<1> QED BY <1>3, <1>4, <1>5, <1>6

(* What chunk_text has done so far: the chunks are intervals of the file   *)
(* that keep the size, every one reaches the next, and the chunk in work   *)
(* counts the characters of its words.                                     *)
ChunkShape ==
  /\ words \in Seq(Nat) /\ \A k \in DOMAIN words : words[k] > 0
  /\ start \in Nat /\ idx \in Nat /\ current_len \in Nat /\ 1 <= start
  /\ chunks \in Seq([first : Nat, last : Nat])
  /\ chunking \in {"outer", "inner", "done"}

ChunkInWork ==
  /\ chunking = "inner" =>
       /\ start <= Len(words) /\ start <= idx /\ idx <= Len(words) + 1
       /\ current_len = IF idx = start THEN 0 ELSE Span(words, start, idx - 1)
       /\ idx > start + 1 => current_len <= size
  /\ chunking = "outer" => chunks = <<>> \/ start <= Len(words)
  /\ chunks = <<>> => start = 1 /\ (chunking = "done" => words = <<>>)

WithinSize(ws, c) ==
  /\ 1 <= c.first /\ c.first <= c.last /\ c.last <= Len(ws)
  /\ c.first < c.last => Span(ws, c.first, c.last) <= size
  /\ c.last < Len(ws) => Span(ws, c.first, c.last + 1) > size

Reaches(c, d) ==
  c.first < d.first /\ d.first <= c.last + 1 /\ c.last <= d.last

ChunksSoFar ==
  /\ \A k \in Nat : 1 <= k /\ k <= Len(chunks) => WithinSize(words, chunks[k])
  /\ \A k \in Nat : 1 <= k /\ k + 1 <= Len(chunks) => Reaches(chunks[k], chunks[k + 1])
  /\ chunks # <<>> =>
       /\ chunks[1].first = 1
       /\ chunking = "done" => chunks[Len(chunks)].last = Len(words)
       /\ chunking # "done" =>
            LET c == chunks[Len(chunks)]
            IN c.first < start /\ start <= c.last + 1 /\ c.last < Len(words)

ChunkInv == ChunkShape /\ ChunkInWork /\ ChunksSoFar

LEMMA ChunkElement ==
  ASSUME NEW s \in Seq([first : Nat, last : Nat]), NEW k \in Nat, 1 <= k, k <= Len(s)
  PROVE  s[k].first \in Nat /\ s[k].last \in Nat
<1>1. PICK S : S = [first : Nat, last : Nat]
  OBVIOUS
<1>2. s \in Seq(S)
  BY <1>1
<1>3. s[k] \in S
  BY <1>2
<1> QED BY <1>1, <1>3

LEMMA ChunkInitInv == ChunkInit => ChunkInv
<1> SUFFICES ASSUME ChunkInit PROVE ChunkInv
  OBVIOUS
<1>1. PICK n \in 0..MaxWords : words \in [1..n -> Lengths]
  BY Zenon DEF ChunkInit
<1>2. n \in Nat /\ \A x \in Lengths : x \in Nat /\ x > 0
  BY ChunkAssumption
<1>3. words \in [1..n -> Nat] /\ \A k \in 1..n : words[k] > 0
  BY <1>1, <1>2
<1>4. words \in Seq(Nat) /\ \A k \in DOMAIN words : words[k] > 0
  BY <1>2, <1>3
<1> QED BY <1>4 DEF ChunkInit, ChunkInv, ChunkShape, ChunkInWork, ChunksSoFar

(* The word in hand belongs to the chunk if it is the first, or if the     *)
(* characters up to it keep the size.                                      *)
LEMMA Projecting ==
  ASSUME ChunkInv, chunking = "inner", idx <= Len(words)
  PROVE  Projected = Span(words, start, idx)
<1>1. /\ words \in Seq(Nat) /\ start \in Nat /\ idx \in Nat /\ 1 <= start /\ start <= idx
      /\ current_len = IF idx = start THEN 0 ELSE Span(words, start, idx - 1)
  BY DEF ChunkInv, ChunkShape, ChunkInWork
<1>2. CASE idx = start
  <2>1. Span(words, start, start) = words[start] /\ words[start] \in Nat
    BY <1>1, <1>2, Spans
  <2> QED BY <1>1, <1>2, <2>1 DEF Projected
<1>3. CASE idx > start
  <2>1. Span(words, start, idx) = Span(words, start, idx - 1) + 1 + words[idx]
    BY <1>1, <1>3, Spans
  <2>2. idx - 1 \in Nat /\ start <= idx - 1 /\ idx - 1 <= Len(words) /\ words[idx] \in Nat
    BY <1>1, <1>3
  <2>3. Span(words, start, idx - 1) \in Int
    BY <1>1, <2>2, Spans
  <2> QED BY <1>1, <1>3, <2>1, <2>2, <2>3 DEF Projected
<1> QED BY <1>1, <1>2, <1>3

(* A chunk is not complete before it has taken all the words that it       *)
(* shares with the one before: they fitted there.                          *)
LEMMA OverlapFits ==
  ASSUME ChunkInv, chunking = "inner", ~ Fits
  PROVE  /\ start < idx
         /\ chunks # <<>> => chunks[Len(chunks)].last <= idx - 1
<1>1. /\ words \in Seq(Nat) /\ start \in Nat /\ idx \in Nat /\ 1 <= start /\ start <= idx
      /\ start <= Len(words) /\ idx <= Len(words) + 1 /\ Len(words) \in Nat
  BY DEF ChunkInv, ChunkShape, ChunkInWork
<1>2. start < idx
  BY <1>1 DEF Fits
<1>3. ASSUME chunks # <<>> PROVE chunks[Len(chunks)].last <= idx - 1
  <2> DEFINE n == Len(chunks)
             c == chunks[n]
  <2>1. n \in Nat /\ 1 <= n /\ c.first \in Nat /\ c.last \in Nat
    <3>1. chunks \in Seq([first : Nat, last : Nat]) /\ chunks # <<>>
      BY <1>3 DEF ChunkInv, ChunkShape
    <3>2. n \in Nat /\ 1 <= n /\ n <= Len(chunks)
      BY <3>1
    <3>3. c.first \in Nat /\ c.last \in Nat
      BY <3>1, <3>2, ChunkElement
    <3> QED BY <3>2, <3>3
  <2>2. c.first < start /\ start <= c.last + 1 /\ c.last < Len(words)
    BY <1>3 DEF ChunkInv, ChunksSoFar
  <2>3. WithinSize(words, c)
    BY <2>1 DEF ChunkInv, ChunksSoFar
  <2> HIDE DEF c, n
  <2>4. SUFFICES ASSUME idx <= c.last PROVE FALSE
    BY <1>1, <2>1 DEF n, c
  <2>5. c.first < c.last /\ 1 <= c.first /\ Span(words, c.first, c.last) <= size
    BY <1>1, <2>1, <2>2, <2>3, <2>4 DEF WithinSize
  <2>51. /\ c.first <= start /\ c.last <= Len(words) /\ c.first <= c.last
        /\ start <= idx /\ idx <= Len(words) /\ 1 <= start /\ 1 <= c.first
    BY <1>1, <1>2, <2>1, <2>2, <2>4, <2>5
  <2>52. words \in Seq(Nat) /\ start \in Nat /\ idx \in Nat /\ c.first \in Nat /\ c.last \in Nat
    BY <1>1, <2>1
  <2>6. Span(words, start, idx) <= Span(words, c.first, c.last)
    BY <2>4, <2>51, <2>52, Spans
  <2>7. Span(words, start, idx) \in Int /\ Span(words, c.first, c.last) \in Int /\ size \in Int
    BY <2>51, <2>52, Spans, ChunkAssumption
  <2>8. idx <= Len(words)
    BY <1>1, <2>1, <2>2, <2>4
  <2>9. Projected <= size
    BY <2>5, <2>6, <2>7, <2>8, Projecting
  <2> QED BY <2>8, <2>9 DEF Fits
<1> QED BY <1>2, <1>3

LEMMA TakeWordInv == ChunkInv /\ TakeWord => ChunkInv'
<1> SUFFICES ASSUME ChunkInv, TakeWord PROVE ChunkInv'
  OBVIOUS
<1>1. /\ words' = words /\ start' = start /\ chunks' = chunks /\ chunking' = chunking
      /\ idx' = idx + 1 /\ current_len' = Projected /\ chunking = "inner"
      /\ idx <= Len(words) /\ (Projected <= size \/ idx = start)
  BY DEF TakeWord, Fits
<1>2. /\ words \in Seq(Nat) /\ start \in Nat /\ idx \in Nat /\ 1 <= start /\ start <= idx
      /\ start <= Len(words) /\ Len(words) \in Nat
  BY <1>1 DEF ChunkInv, ChunkShape, ChunkInWork
<1>3. Projected = Span(words, start, idx)
  BY <1>1, Projecting
<1>4. Projected \in Nat
  <2>1. words[idx] \in Nat /\ current_len \in Nat
    BY <1>1, <1>2 DEF ChunkInv, ChunkShape
  <2> QED BY <2>1 DEF Projected
<1>5. ChunkShape'
  BY <1>1, <1>2, <1>4 DEF ChunkInv, ChunkShape
<1>6. ChunkInWork'
  <2>1. idx + 1 - 1 = idx /\ idx' # start' /\ idx' <= Len(words') + 1 /\ start' <= idx'
    BY <1>1, <1>2
  <2>2. current_len' = Span(words', start', idx' - 1)
    <3>1. idx' - 1 = idx
      <4>1. idx' = idx + 1 /\ idx \in Nat
        BY <1>1, <1>2
      <4> QED BY <4>1
    <3> HIDE DEF Projected
    <3>2. current_len' = Span(words, start, idx)
      BY <1>1, <1>3
    <3> QED BY <1>1, <3>1, <3>2
  <2>3. idx' > start' + 1 => current_len' <= size
    BY <1>1, <1>2
  <2> HIDE DEF Projected
  <2> QED BY <1>1, <1>2, <2>1, <2>2, <2>3 DEF ChunkInv, ChunkInWork
<1>7. ChunksSoFar'
  BY <1>1 DEF ChunkInv, ChunksSoFar
<1> QED BY <1>5, <1>6, <1>7 DEF ChunkInv

LEMMA EndChunkInv == ChunkInv /\ EndChunk => ChunkInv'
<1> SUFFICES ASSUME ChunkInv, EndChunk PROVE ChunkInv'
  OBVIOUS
<1> DEFINE n == Len(chunks)
           d == [first |-> start, last |-> idx - 1]
<1>1. /\ words' = words /\ idx' = idx /\ current_len' = current_len
      /\ chunks' = Append(chunks, d) /\ chunking = "inner" /\ ~ Fits
      /\ \/ idx > Len(words) /\ chunking' = "done" /\ start' = start
         \/ ~ (idx > Len(words)) /\ chunking' = "outer" /\ start' = NextStart
  BY DEF EndChunk
<1>2. /\ words \in Seq(Nat) /\ start \in Nat /\ idx \in Nat /\ 1 <= start /\ start <= idx
      /\ start <= Len(words) /\ Len(words) \in Nat /\ idx <= Len(words) + 1
      /\ chunks \in Seq([first : Nat, last : Nat])
      /\ current_len = IF idx = start THEN 0 ELSE Span(words, start, idx - 1)
      /\ idx > start + 1 => current_len <= size
  BY <1>1 DEF ChunkInv, ChunkShape, ChunkInWork
<1>3. /\ start < idx
      /\ chunks # <<>> => chunks[n].last <= idx - 1
  BY <1>1, OverlapFits
<1>4. NextStart \in Nat /\ start < NextStart /\ NextStart <= idx
  BY <1>2, <1>3, ChunkAssumption DEF NextStart, Larger
<1>5. /\ n \in Nat /\ Len(chunks') = n + 1 /\ chunks'[n + 1] = d /\ chunks' # <<>>
      /\ d \in [first : Nat, last : Nat] /\ d.first = start /\ d.last = idx - 1
      /\ \A k \in Nat : 1 <= k /\ k <= n => chunks'[k] = chunks[k]
      /\ chunks' \in Seq([first : Nat, last : Nat])
  <2>1. d \in [first : Nat, last : Nat]
    BY <1>2, <1>3
  <2>2. d.first = start /\ d.last = idx - 1
    OBVIOUS
  <2> HIDE DEF d
  <2>3. n \in Nat /\ chunks' = Append(chunks, d)
    BY <1>1, <1>2
  <2>4. Len(chunks') = n + 1 /\ chunks'[n + 1] = d /\ chunks' \in Seq([first : Nat, last : Nat])
    BY <1>2, <2>1, <2>3
  <2>5. \A k \in Nat : 1 <= k /\ k <= n => chunks'[k] = chunks[k]
    BY <1>2, <2>1, <2>3
  <2>6. chunks' # <<>>
    BY <2>3, <2>4
  <2> QED BY <2>1, <2>2, <2>3, <2>4, <2>5, <2>6
<1>6. WithinSize(words, d)
  <2>1. idx - 1 <= Len(words) /\ 1 <= start /\ start <= idx - 1
    BY <1>2, <1>3
  <2>2. start < idx - 1 => Span(words, start, idx - 1) <= size
    BY <1>2, <1>3
  <2>3. idx - 1 < Len(words) => Span(words, start, idx - 1 + 1) > size
    <3> SUFFICES ASSUME idx - 1 < Len(words) PROVE Span(words, start, idx) > size
      BY <1>2
    <3>1. idx <= Len(words) /\ Projected = Span(words, start, idx)
      BY <1>1, <1>2, Projecting
    <3>2. Span(words, start, idx) \in Int /\ size \in Int
      BY <1>2, <3>1, Spans, ChunkAssumption
    <3> QED BY <1>1, <3>1, <3>2 DEF Fits
  <2> HIDE DEF d
  <2> QED BY <2>1, <2>2, <2>3, <1>5 DEF WithinSize
<1> HIDE DEF n, d
<1>7. ChunkShape'
  <2>1. start' \in Nat /\ 1 <= start'
    BY <1>1, <1>2, <1>4
  <2>2. chunking' \in {"outer", "inner", "done"}
    BY <1>1
  <2> QED BY <1>1, <1>2, <1>5, <2>1, <2>2 DEF ChunkInv, ChunkShape
<1>8. ChunkInWork'
  <2>1. chunking' = "outer" => start' <= Len(words')
    BY <1>1, <1>2, <1>4
  <2>2. chunking' # "inner" /\ chunks' # <<>>
    BY <1>1, <1>5
  <2> QED BY <2>1, <2>2 DEF ChunkInWork
<1>9. \A k \in Nat : 1 <= k /\ k <= Len(chunks') => WithinSize(words', chunks'[k])
  <2> SUFFICES ASSUME NEW k \in Nat, 1 <= k, k <= Len(chunks') PROVE WithinSize(words, chunks'[k])
    BY <1>1
  <2>1. CASE k <= n
    BY <2>1, <1>5 DEF ChunkInv, ChunksSoFar, n
  <2>2. CASE k = n + 1
    BY <2>2, <1>5, <1>6
  <2> QED BY <2>1, <2>2, <1>5
<1>10. \A k \in Nat : 1 <= k /\ k + 1 <= Len(chunks') => Reaches(chunks'[k], chunks'[k + 1])
  <2> SUFFICES ASSUME NEW k \in Nat, 1 <= k, k + 1 <= Len(chunks')
               PROVE  Reaches(chunks'[k], chunks'[k + 1])
    OBVIOUS
  <2>1. CASE k + 1 <= n
    <3>1. k + 1 \in Nat /\ 1 <= k + 1 /\ k <= n
      BY <2>1, <1>5
    <3>2. chunks'[k] = chunks[k] /\ chunks'[k + 1] = chunks[k + 1]
      BY <3>1, <2>1, <1>5
    <3> QED BY <2>1, <3>2 DEF ChunkInv, ChunksSoFar, n
  <2>2. CASE k = n
    <3>1. chunks # <<>> /\ chunks'[k] = chunks[n] /\ chunks'[k + 1] = d
      BY <2>2, <1>5 DEF n
    <3>2. chunks[n].first < start /\ start <= chunks[n].last + 1
      BY <3>1, <1>1 DEF ChunkInv, ChunksSoFar, n
    <3> QED BY <3>1, <3>2, <1>3, <1>5 DEF Reaches
  <2> QED BY <2>1, <2>2, <1>5
<1>11. chunks'[1].first = 1
  <2>1. CASE chunks = <<>>
    <3>1. n = 0 /\ start = 1
      BY <2>1 DEF n, ChunkInv, ChunkInWork
    <3> QED BY <3>1, <1>5
  <2>2. CASE chunks # <<>>
    <3>1. 1 <= n /\ chunks[1].first = 1
      BY <2>2, <1>2 DEF n, ChunkInv, ChunksSoFar
    <3> QED BY <3>1, <1>5
  <2> QED BY <2>1, <2>2
<1>12. chunking' = "done" => d.last = Len(words')
  <2> SUFFICES ASSUME chunking' = "done" PROVE idx - 1 = Len(words)
    BY <1>1, <1>5
  <2>1. idx > Len(words)
    BY <1>1
  <2>2. idx <= Len(words) + 1 /\ idx \in Nat /\ Len(words) \in Nat
    BY <1>2
  <2> QED BY <2>1, <2>2
<1>13. chunking' # "done" => d.first < start' /\ start' <= d.last + 1 /\ d.last < Len(words')
  BY <1>1, <1>2, <1>4, <1>5
<1>14. ChunksSoFar'
  <2>1. chunks'[Len(chunks')] = d
    BY <1>5
  <2> QED BY <1>9, <1>10, <1>11, <1>12, <1>13, <2>1 DEF ChunksSoFar
<1> QED BY <1>7, <1>8, <1>14 DEF ChunkInv

LEMMA ChunkStepInv == ChunkInv /\ [ChunkNext]_chunkVars => ChunkInv'
<1> SUFFICES ASSUME ChunkInv, [ChunkNext]_chunkVars PROVE ChunkInv'
  OBVIOUS
<1>1. CASE Return
  <2>1. /\ words' = words /\ start' = start /\ idx' = idx /\ current_len' = current_len
        /\ chunks' = chunks /\ chunking' = "done" /\ chunking = "outer" /\ start > Len(words)
    BY <1>1 DEF Return
  <2>2. chunks = <<>> /\ start = 1 /\ words \in Seq(Nat) /\ start \in Nat /\ Len(words) \in Nat
    BY <2>1 DEF ChunkInv, ChunkShape, ChunkInWork
  <2>3. words = <<>>
    BY <2>1, <2>2
  <2> QED BY <2>1, <2>2, <2>3 DEF ChunkInv, ChunkShape, ChunkInWork, ChunksSoFar
<1>2. CASE StartChunk
  <2>1. /\ words' = words /\ start' = start /\ idx' = start /\ current_len' = 0
        /\ chunks' = chunks /\ chunking' = "inner" /\ chunking = "outer" /\ start <= Len(words)
    BY <1>2 DEF StartChunk
  <2>2. ChunkShape'
    BY <2>1 DEF ChunkInv, ChunkShape
  <2>3. ChunkInWork'
    <3>1. words \in Seq(Nat) /\ start \in Nat /\ Len(words) \in Nat
      BY DEF ChunkInv, ChunkShape
    <3> QED BY <2>1, <3>1 DEF ChunkInv, ChunkInWork
  <2>4. ChunksSoFar'
    BY <2>1 DEF ChunkInv, ChunksSoFar
  <2> QED BY <2>2, <2>3, <2>4 DEF ChunkInv
<1>3. CASE TakeWord
  BY <1>3, TakeWordInv
<1>4. CASE EndChunk
  BY <1>4, EndChunkInv
<1>5. CASE UNCHANGED chunkVars
  <2>1. /\ words' = words /\ start' = start /\ idx' = idx /\ current_len' = current_len
        /\ chunks' = chunks /\ chunking' = chunking
    BY <1>5 DEF chunkVars
  <2>2. ChunkShape' /\ ChunkInWork' /\ ChunksSoFar'
    BY <2>1 DEF ChunkInv, ChunkShape, ChunkInWork, ChunksSoFar
  <2> QED BY <2>2 DEF ChunkInv
<1> QED BY <1>1, <1>2, <1>3, <1>4, <1>5 DEF ChunkNext

LEMMA ChunksCover == ChunkInv => CoversText
<1> SUFFICES ASSUME ChunkInv PROVE CoversText
  OBVIOUS
<1>0. chunks \in Seq([first : Nat, last : Nat]) /\ Len(chunks) \in Nat
  BY DEF ChunkInv, ChunkShape
<1>1. ASSUME NEW k \in 1..(Len(chunks) - 1)
      PROVE  /\ chunks[k + 1].first \in (chunks[k].first + 1)..(chunks[k].last + 1)
             /\ chunks[k + 1].last >= chunks[k].last
  <2>1. k \in Nat /\ 1 <= k /\ k + 1 <= Len(chunks)
    BY <1>0
  <2>2. Reaches(chunks[k], chunks[k + 1])
    BY <2>1 DEF ChunkInv, ChunksSoFar
  <2>3. /\ chunks[k].first \in Nat /\ chunks[k].last \in Nat
        /\ chunks[k + 1].first \in Nat /\ chunks[k + 1].last \in Nat
    <3>1. k + 1 \in Nat /\ 1 <= k + 1 /\ k <= Len(chunks)
      BY <2>1, <1>0
    <3> QED BY <1>0, <2>1, <3>1, ChunkElement
  <2> QED BY <2>2, <2>3 DEF Reaches
<1>2. ASSUME NEW k \in 1..Len(chunks)
      PROVE  LET c == chunks[k] IN
               /\ c.first < c.last => LengthOf(c.first, c.last) <= size
               /\ c.last < Len(words) => LengthOf(c.first, c.last + 1) > size
  <2>1. WithinSize(words, chunks[k])
    BY <1>0 DEF ChunkInv, ChunksSoFar
  <2> QED BY <2>1 DEF WithinSize, Span, LengthOf
<1>3. ASSUME chunking = "done", words # <<>>
      PROVE  chunks # <<>> /\ chunks[1].first = 1 /\ chunks[Len(chunks)].last = Len(words)
  BY <1>3 DEF ChunkInv, ChunkInWork, ChunksSoFar
<1> QED BY <1>1, <1>2, <1>3 DEF CoversText

(* chunk_text in scripts/import_docs.py: for any file, any size and any    *)
(* overlap, even one longer than a chunk, the loop makes progress, every   *)
(* word is in a chunk, and the chunks are as long as the size allows.      *)
THEOREM TextIsCovered == ChunkSpec => []CoversText
<1> QED BY ChunkInitInv, ChunkStepInv, ChunksCover, PTL DEF ChunkSpec

-----------------------------------------------------------------------------
(* A file has no more words than the bound, and a chunk joins words of it. *)
ChunkBounds ==
  /\ words \in Seq(Lengths) /\ Len(words) <= MaxWords
  /\ start <= Len(words) + 1 /\ start <= idx /\ idx <= Len(words) + 1

LEMMA ChunkTypes == ChunkInv /\ ChunkBounds => ChunkTypeOK
<1> SUFFICES ASSUME ChunkInv, ChunkBounds PROVE ChunkTypeOK
  OBVIOUS
<1>1. /\ words \in Seq(Lengths) /\ Len(words) \in Nat /\ Len(words) <= MaxWords /\ MaxWords \in Nat
      /\ start \in Nat /\ idx \in Nat /\ 1 <= start /\ start <= Len(words) + 1
      /\ start <= idx /\ idx <= Len(words) + 1
      /\ current_len \in Nat /\ chunking \in {"outer", "inner", "done"}
  BY ChunkAssumption DEF ChunkInv, ChunkShape, ChunkBounds
<1>2. start \in 1..(Len(words) + 1) /\ idx \in start..(Len(words) + 1)
  BY <1>1
<1>3. PICK S : S = [first : Nat, last : Nat]
  OBVIOUS
<1>4. chunks \in Seq(S)
  BY <1>3 DEF ChunkInv, ChunkShape
<1>5. ASSUME NEW k \in 1..Len(chunks) PROVE chunks[k] \in Interval
  <2>1. chunks[k] \in S /\ k \in Nat /\ 1 <= k /\ k <= Len(chunks)
    BY <1>4
  <2>2. WithinSize(words, chunks[k])
    BY <2>1 DEF ChunkInv, ChunksSoFar
  <2>3. PICK c \in [first : Nat, last : Nat] : c = chunks[k]
    BY <1>3, <2>1
  <2>4. c.first \in 1..MaxWords /\ c.last \in 1..MaxWords
    BY <1>1, <2>2, <2>3 DEF WithinSize
  <2>5. c = [first |-> c.first, last |-> c.last]
    OBVIOUS
  <2> QED BY <2>3, <2>4, <2>5 DEF Interval
<1>6. chunks \in Seq(Interval)
  BY <1>4, <1>5
<1> QED BY <1>1, <1>2, <1>6 DEF ChunkTypeOK

LEMMA ChunkBoundsStart == ChunkInit => ChunkBounds
<1> SUFFICES ASSUME ChunkInit PROVE ChunkBounds
  OBVIOUS
<1>1. PICK n \in 0..MaxWords : words \in [1..n -> Lengths]
  BY Zenon DEF ChunkInit
<1>2. n \in Nat /\ n <= MaxWords
  BY <1>1, ChunkAssumption
<1>3. words \in Seq(Lengths) /\ Len(words) = n
  BY <1>1, <1>2
<1> QED BY <1>2, <1>3 DEF ChunkInit, ChunkBounds

LEMMA ChunkBoundsStep ==
  ASSUME ChunkInv, ChunkBounds, [ChunkNext]_chunkVars
  PROVE  ChunkBounds'
<1>0. /\ words \in Seq(Lengths) /\ Len(words) \in Nat /\ Len(words) <= MaxWords
      /\ start \in Nat /\ idx \in Nat /\ 1 <= start /\ start <= Len(words) + 1
      /\ start <= idx /\ idx <= Len(words) + 1
  BY DEF ChunkInv, ChunkShape, ChunkBounds
<1>1. CASE Return
  BY <1>0, <1>1 DEF Return, ChunkBounds
<1>2. CASE StartChunk
  BY <1>0, <1>2 DEF StartChunk, ChunkBounds
<1>3. CASE TakeWord
  BY <1>0, <1>3 DEF TakeWord, Fits, ChunkBounds
<1>4. CASE EndChunk
  <2>1. start < idx
    BY <1>4, OverlapFits DEF EndChunk
  <2>2. NextStart \in Nat /\ start < NextStart /\ NextStart <= idx
    BY <1>0, <2>1, ChunkAssumption DEF NextStart, Larger
  <2> QED BY <1>0, <1>4, <2>2 DEF EndChunk, ChunkBounds
<1>5. CASE UNCHANGED chunkVars
  BY <1>0, <1>5 DEF chunkVars, ChunkBounds
<1> QED BY <1>1, <1>2, <1>3, <1>4, <1>5 DEF ChunkNext
=============================================================================
