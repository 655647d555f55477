---------------------------- MODULE CalcInference ----------------------------
(***************************************************************************)
(* How a calc service answers one request: calc (calc_models/service.py)   *)
(* and its backends (calc_models/backends.py).  Similarities, overlaps and *)
(* confidences are counted in hundredths.  Of a chunk only what the        *)
(* backends decide on is kept, of a text only the chunk it is taken from.  *)
(***************************************************************************)
EXTENDS Integers, Sequences, FiniteSets, Loops

CONSTANTS
  ChunkKinds,       \* [page, similarity, overlap, code]
  Unreadable,       \* a row that is not a ContextChunk
  MaxRows,          \* bound on the rows of a payload
  CalcItems,        \* max_items=4, and the slice for source_seite_ids
  HfItems,          \* max_items=2, and the two slices [:2]
  CompletionTokens  \* lengths of generated answers

(* page 0 is the synthetic chunk that repeats the query; overlap is the    *)
(* part of the query's tokens that occur in the chunk.                     *)
ASSUME CalcAssumption ==
  /\ ChunkKinds \subseteq [page : Nat, similarity : Int, overlap : 0..100, code : BOOLEAN]
  /\ Unreadable \notin ChunkKinds
  /\ MaxRows \in Nat /\ CalcItems \in Nat \ {0} /\ HfItems \in Nat \ {0}
  /\ CompletionTokens \subseteq Nat

VARIABLES
  backend,      \* CALC_BACKEND
  hf_fallback,  \* HF_FALLBACK is configured and has a token
  payload,      \* balanced_chunks or chunks
  parsed,       \* the rows that are chunks
  bausteine,
  with_hf,      \* model_version names the HF fallback
  source_ids,
  inferring

calcVars ==
  <<backend, hf_fallback, payload, parsed, bausteine, with_hf, source_ids, inferring>>

Backends == {"extractive", "granite", "hf", "hf_api"}
Kinds == {"fact", "code", "generated", "stub"}

CalcTypeOK ==
  /\ backend \in Backends
  /\ hf_fallback \in BOOLEAN
  /\ payload \in Seq(ChunkKinds \union {Unreadable})
  /\ parsed \in Seq(ChunkKinds)
  /\ bausteine \in Seq([kind : Kinds, conf : 0..100, page : Nat])
  /\ with_hf \in BOOLEAN
  /\ source_ids \in Seq(Nat)
  /\ inferring \in {"parse", "infer", "fallback", "store", "done", "rejected", "raised"}

CalcInit ==
  /\ backend \in Backends
  /\ hf_fallback \in BOOLEAN
  /\ payload \in UNION {[1..n -> ChunkKinds \union {Unreadable}] : n \in 0..MaxRows}
  /\ parsed = <<>> /\ bausteine = <<>> /\ with_hf = FALSE /\ source_ids = <<>>
  /\ inferring = "parse"

-----------------------------------------------------------------------------
(* Rows that do not parse are skipped; a request without job_id is a 400.  *)
ParseRows ==
  /\ inferring = "parse"
  /\ parsed' = Filter(payload, ChunkKinds)
  /\ inferring' \in {"infer", "rejected"}
  /\ UNCHANGED <<backend, hf_fallback, payload, bausteine, with_hf, source_ids>>

(* seq[:n] *)
Slice(seq, n) == SubSeq(seq, 1, IF n < Len(seq) THEN n ELSE Len(seq))

(* The sort is stable: equally similar chunks stay in the payload's order. *)
Nearer(sent, i, j) ==
  \/ sent[i].similarity > sent[j].similarity
  \/ sent[i].similarity = sent[j].similarity /\ i < j

(* sorted(chunks, key=similarity, reverse=True)[:n] *)
MostSimilar(sent, n) ==
  [k \in 1..(IF n < Len(sent) THEN n ELSE Len(sent)) |->
     sent[CHOOSE i \in 1..Len(sent) :
               Cardinality({j \in 1..Len(sent) : Nearer(sent, j, i)}) = k - 1]]

(* 0.65 similarity + 0.35 overlap + 0.10, at most 0.99, rounded. *)
Confidence(chunk) ==
  LET base == IF chunk.similarity > 99 THEN 99 ELSE chunk.similarity
      score == (65 * (IF base < 0 THEN 0 ELSE base) + 35 * chunk.overlap + 1050) \div 100
  IN IF score < 99 THEN score ELSE 99

(* The best snippet of a chunk; enough common words make it a main fact. *)
Fact(chunk) ==
  [kind |-> "fact", page |-> chunk.page,
   conf |-> IF chunk.overlap >= 50 /\ Confidence(chunk) < 72 THEN 72 ELSE Confidence(chunk)]

CodeBlock(chunk) == [kind |-> "code", page |-> chunk.page, conf |-> 100]

(* The items after the first k of the chunks top, for every k. *)
Extracted(top) ==
  LET upTo[k \in 0..Len(top)] ==
        IF k = 0 THEN <<>>
        ELSE LET withFact == Append(upTo[k - 1], Fact(top[k]))
             IN IF top[k].code THEN Append(withFact, CodeBlock(top[k])) ELSE withFact
  IN upTo

(* ExtractiveBackend.infer *)
Extract(sent, n) ==
  IF sent = <<>> THEN <<[kind |-> "stub", page |-> 0, conf |-> 62]>>
  ELSE LET top == MostSimilar(sent, n) IN Extracted(top)[Len(top)]

(* One text of a model, attributed to the first chunk of the payload. *)
Generated(conf) ==
  <<[kind |-> "generated", conf |-> conf,
     page |-> IF parsed = <<>> THEN 0 ELSE parsed[1].page]>>

(* min(0.93, 0.72 + 2 / max(tokens, 10)): short answers count more. *)
GraniteConfidence(tokens) ==
  LET n == IF tokens > 10 THEN tokens ELSE 10
      conf == 72 + (400 + n) \div (2 * n)
  IN IF conf < 93 THEN conf ELSE 93

Infers(inferred) ==
  /\ inferring = "infer"
  /\ bausteine' = inferred
  /\ inferring' = IF backend = "extractive" THEN "fallback" ELSE "store"
  /\ UNCHANGED <<backend, hf_fallback, payload, parsed, with_hf, source_ids>>

InferExtractive == backend = "extractive" /\ Infers(Extract(parsed, CalcItems))

(* llama.cpp answers, or whatever is wrong with it the snippets do. *)
InferGranite ==
  /\ backend = "granite"
  /\ IF parsed = <<>>
       THEN Infers(<<[kind |-> "stub", page |-> 0, conf |-> 50]>>)
       ELSE \/ \E n \in CompletionTokens : Infers(Generated(GraniteConfidence(n)))
            \/ Infers(Extract(parsed, CalcItems))

(* The local pipeline generates, or could not be loaded. *)
InferHf == backend = "hf" /\ (Infers(Generated(82)) \/ Infers(Extract(parsed, CalcItems)))

(* Only HFBackend lets an exception of its model out: status 500. *)
HfRaises ==
  /\ backend = "hf" /\ inferring = "infer"
  /\ inferring' = "raised"
  /\ UNCHANGED <<backend, hf_fallback, payload, parsed, bausteine, with_hf, source_ids>>

(* The inference API answers; or there is no token, an error, no text. *)
InferHfApi == backend = "hf_api" /\ (Infers(Generated(80)) \/ Infers(Extract(parsed, CalcItems)))

-----------------------------------------------------------------------------
ConfSum(inferred) == Total([k \in DOMAIN inferred |-> inferred[k].conf])[Len(inferred)]

NotCode == [kind : Kinds \ {"code"}, conf : Int, page : Nat]

(* Faulty variant: the certain code hides the facts. *)
CountsCode(inferred) ==
  /\ parsed # <<>>
  /\ ConfSum(inferred) < 68 * Len(inferred) \/ \A k \in DOMAIN inferred : inferred[k].conf < 74

(* HF_FALLBACK_MIN_CONF is 0.68. *)
NeedsHfFallback(inferred) ==
  LET facts == Filter(inferred, NotCode) IN
  /\ parsed # <<>>
  /\ \/ ConfSum(facts) < 68 * Len(facts)
     \/ \A k \in DOMAIN facts : facts[k].conf < 74
     \/ ConfSum(inferred) < 64 * Len(inferred)

(* Faulty variant: the generated text replaces the snippets. *)
DropsTail(hf) == Slice(hf, HfItems)

(* hf_bausteine[:2] + bausteine[:2] *)
WithTail(hf) == Slice(hf, HfItems) \o Slice(bausteine, HfItems)

(* The weak answer of the extractive backend is preceded by one of the     *)
(* inference API, or by what that falls back to: the same snippets again.  *)
ConsultHf ==
  /\ inferring = "fallback"
  /\ hf_fallback /\ NeedsHfFallback(bausteine)
  /\ bausteine' \in {WithTail(Generated(80)), WithTail(Extract(parsed, HfItems))}
  /\ with_hf' = TRUE
  /\ inferring' = "store"
  /\ UNCHANGED <<backend, hf_fallback, payload, parsed, source_ids>>

KeepBausteine ==
  /\ inferring = "fallback"
  /\ ~ (hf_fallback /\ NeedsHfFallback(bausteine))
  /\ inferring' = "store"
  /\ UNCHANGED <<backend, hf_fallback, payload, parsed, bausteine, with_hf, source_ids>>

(* chunks[:4], in the order of the payload. *)
Cited(sent) ==
  LET cited == Filter(Slice(sent, CalcItems), {chunk \in ChunkKinds : chunk.page > 0})
  IN [k \in DOMAIN cited |-> cited[k].page]

(* insert_calc_result, and the trace. *)
StoreResult ==
  /\ inferring = "store"
  /\ source_ids' = Cited(parsed)
  /\ inferring' = "done"
  /\ UNCHANGED <<backend, hf_fallback, payload, parsed, bausteine, with_hf>>

CalcNext ==
  \/ ParseRows \/ InferExtractive \/ InferGranite \/ InferHf \/ HfRaises \/ InferHfApi
  \/ ConsultHf \/ KeepBausteine \/ StoreResult

CalcSpec == CalcInit /\ [][CalcNext]_calcVars

-----------------------------------------------------------------------------
(* docs/ARCHITECTURE.md, phase 7: the HF API is called in exactly when the *)
(* facts of the extractive backend average less than 0.68 or none of them  *)
(* reaches 0.74, however certain the code blocks beside them are.          *)
WeakFactsGetHelp ==
  inferring = "done" /\ backend = "extractive" /\ hf_fallback /\ parsed # <<>> =>
    LET top == MostSimilar(parsed, CalcItems)
        facts == [k \in DOMAIN top |-> Fact(top[k])] IN
    with_hf <=> \/ ConfSum(facts) < 68 * Len(facts)
                \/ \A k \in DOMAIN facts : facts[k].conf < 74

(* A stored result can be traced: it has at least one item; each names a   *)
(* page of the chunks that were sent, one of the stored source ids unless  *)
(* more chunks were sent than are read; and whatever the fallback adds,    *)
(* the extractive service still shows the snippet of the nearest chunk.    *)
ResultIsTraceable ==
  inferring = "done" =>
    /\ bausteine # <<>>
    /\ \A k \in DOMAIN bausteine : bausteine[k].page # 0 =>
         /\ \E i \in DOMAIN parsed : parsed[i].page = bausteine[k].page
         /\ Len(parsed) <= CalcItems =>
              \E i \in DOMAIN source_ids : source_ids[i] = bausteine[k].page
    /\ backend = "extractive" /\ parsed # <<>> =>
         \E k \in DOMAIN bausteine : bausteine[k] = Fact(MostSimilar(parsed, 1)[1])

(* README.md: every answer rests on the stored documents alone.  What the  *)
(* standard backend lets appear as sure was taken from a page of the       *)
(* library.  (The API always sends a chunk, if need be the synthetic one.) *)
AnswersFromDocuments ==
  inferring = "done" /\ backend = "extractive" /\ parsed # <<>> =>
    \A k \in DOMAIN bausteine : bausteine[k].conf >= 70 => bausteine[k].page > 0
=============================================================================
