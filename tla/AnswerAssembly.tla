--------------------------- MODULE AnswerAssembly ---------------------------
(***************************************************************************)
(* assemble and _deduplicate_conflicts (common/assembly.py): the bausteine *)
(* of all result rows, in the order of the rows, are reduced to one per    *)
(* entity and divided into the main text and the low-confidence sections.  *)
(* Confidences are counted in hundredths; the order within a section and   *)
(* the averaged quality are left out.                                      *)
(***************************************************************************)
EXTENDS Integers, Sequences

CONSTANTS
  Entities,      \* entity_ids: a page's snippet, a page's code, a generated answer
  CodeEntities,  \* those of items of type code
  NoEntity,      \* the item has no entity_id
  Source,        \* the source_seite_id of the items about an entity
  Confidences,
  Contents,      \* the texts of items
  Empty,         \* a text of blanks
  MaxItems       \* bound on the items of a job

(* Entity ids are made from the page (chunk:7 for a fact, code:7 for code) *)
(* or stand for one generated answer with the first chunk as its source,   *)
(* and the routes of a job get the same chunks.                            *)
ASSUME AssemblyAssumption ==
  /\ NoEntity \notin Entities
  /\ CodeEntities \subseteq Entities
  /\ Source \in [Entities \union {NoEntity} -> Int]
  /\ Confidences \subseteq Nat
  /\ Empty \notin Contents
  /\ MaxItems \in Nat

Threshold == 70  \* LOW_CONFIDENCE_THRESHOLD

VARIABLES
  items,       \* all_items
  handled,     \* how many of them the loop has seen
  byEntity,    \* the item kept for an entity; 0 if there is none
  passthrough, \* the items without entity
  main,        \* main_sections
  low,         \* low_conf_sections
  divided

assemblyVars == <<items, handled, byEntity, passthrough, main, low, divided>>

(* What the backends produce; an item without entity may be of either type. *)
Item ==
  {x \in [entity : Entities \union {NoEntity}, conf : Confidences,
          code : BOOLEAN, content : Contents \union {Empty}] :
     x.entity \in Entities => (x.code <=> x.entity \in CodeEntities)}

AssemblyTypeOK ==
  /\ items \in Seq(Item)
  /\ handled \in 0..Len(items)
  /\ byEntity \in [Entities -> 0..handled]
  /\ passthrough \subseteq 1..handled
  /\ main \subseteq 1..Len(items)
  /\ low \subseteq 1..Len(items)
  /\ divided \in BOOLEAN

AssemblyInit ==
  /\ items \in UNION {[1..n -> Item] : n \in 0..MaxItems}
  /\ handled = 0
  /\ byEntity = [e \in Entities |-> 0]
  /\ passthrough = {}
  /\ main = {}
  /\ low = {}
  /\ divided = FALSE

-----------------------------------------------------------------------------
Delta(i, k) == IF items[i].conf > items[k].conf
                 THEN items[i].conf - items[k].conf
                 ELSE items[k].conf - items[i].conf

(* Faulty variant: a newer item wins a close tie whatever its source. *)
NewerWinsTies(i, k) ==
  \/ items[i].conf > items[k].conf
  \/ Delta(i, k) < 5

(* The new item i replaces the kept item k: it is more confident, or it is *)
(* about as confident and its source has the higher number.                *)
Replaces(i, k) ==
  \/ items[i].conf > items[k].conf
  \/ Delta(i, k) < 5 /\ Source[items[i].entity] > Source[items[k].entity]

(* An item without entity is passed through. *)
PassThrough ==
  /\ handled < Len(items)
  /\ items[handled + 1].entity = NoEntity
  /\ handled' = handled + 1
  /\ passthrough' = passthrough \union {handled + 1}
  /\ UNCHANGED <<items, byEntity, main, low, divided>>

(* The first item of its entity, or one that replaces the kept one. *)
Keep ==
  /\ handled < Len(items)
  /\ items[handled + 1].entity \in Entities
  /\ LET e == items[handled + 1].entity IN
       /\ byEntity[e] # 0 => Replaces(handled + 1, byEntity[e])
       /\ byEntity' = [byEntity EXCEPT ![e] = handled + 1]
  /\ handled' = handled + 1
  /\ UNCHANGED <<items, passthrough, main, low, divided>>

(* An item that does not replace the one kept for its entity. *)
Drop ==
  /\ handled < Len(items)
  /\ items[handled + 1].entity \in Entities
  /\ LET e == items[handled + 1].entity IN
       byEntity[e] # 0 /\ ~ Replaces(handled + 1, byEntity[e])
  /\ handled' = handled + 1
  /\ UNCHANGED <<items, byEntity, passthrough, main, low, divided>>

(* deduped *)
Kept == passthrough \union {byEntity[e] : e \in {f \in Entities : byEntity[f] # 0}}

(* Faulty variant: the threshold comes before the test for code. *)
FiltersCode(i) == items[i].conf >= Threshold

(* Code goes into the main text whatever its confidence. *)
InMainText(i) == items[i].code \/ items[i].conf >= Threshold

(* The sections; an item without content is in neither. *)
Divide ==
  /\ handled = Len(items)
  /\ ~ divided
  /\ LET shown == {i \in Kept : items[i].content # Empty} IN
       /\ main' = {i \in shown : InMainText(i)}
       /\ low' = {i \in shown : ~ InMainText(i)}
  /\ divided' = TRUE
  /\ UNCHANGED <<items, handled, byEntity, passthrough>>

AssemblyNext == PassThrough \/ Keep \/ Drop \/ Divide

AssemblySpec == AssemblyInit /\ [][AssemblyNext]_assemblyVars

-----------------------------------------------------------------------------
(* docs/ARCHITECTURE.md, phase 8: the highest confidence wins.  What is    *)
(* kept for an entity is never less confident than an item seen before, in *)
(* whatever order the rows of the routes were committed.                   *)
HighestConfidenceWins ==
  \A i \in 1..handled : items[i].entity \in Entities =>
    LET k == byEntity[items[i].entity] IN
      /\ k # 0
      /\ items[k].entity = items[i].entity
      /\ items[k].conf >= items[i].conf

(* Every item is accounted for in the answer: itself or the item kept for  *)
(* its entity is in one of the sections, in the main text if it is code or *)
(* confident enough, unless it has no content.                             *)
NothingVanishes ==
  divided => \A i \in 1..Len(items) :
    \E k \in 1..Len(items) :
      /\ k = i \/ (items[k].entity = items[i].entity /\ items[i].entity # NoEntity)
      /\ items[k].content # Empty =>
           IF items[k].code \/ items[k].conf >= Threshold
             THEN k \in main \ low
             ELSE k \in low \ main
=============================================================================
