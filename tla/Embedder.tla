------------------------------ MODULE Embedder ------------------------------
(***************************************************************************)
(* get_embedder (embedding/service.py) in one process: threads that embed  *)
(* a query share one DeterministicEmbedder through lru_cache, which runs   *)
(* the constructor without a lock and keeps the first instance stored.  An *)
(* instance whose model could not be loaded embeds by hashing, for as long *)
(* as it lives; the two kinds of vectors have nothing in common.           *)
(***************************************************************************)
CONSTANTS
  Embedders,  \* threads
  NoModel     \* nothing is cached, or the thread has no instance

ASSUME EmbedderAssumption == NoModel \notin {"model", "hash"}

VARIABLES
  cached,     \* the kind of the instance in the cache
  embedding,  \* where a thread is
  instance,   \* the kind of the instance it has in hand
  asked,      \* what was cached when it asked (not in the code)
  vectors     \* how its last query was embedded

embedVars == <<cached, embedding, instance, asked, vectors>>

InstanceKinds == {"model", "hash"}

EmbedTypeOK ==
  /\ cached \in InstanceKinds \union {NoModel}
  /\ embedding \in [Embedders -> {"idle", "load", "encode"}]
  /\ instance \in [Embedders -> InstanceKinds \union {NoModel}]
  /\ asked \in [Embedders -> InstanceKinds \union {NoModel}]
  /\ vectors \in [Embedders -> InstanceKinds \union {NoModel}]

EmbedInit ==
  /\ cached = NoModel
  /\ embedding = [t \in Embedders |-> "idle"]
  /\ instance = [t \in Embedders |-> NoModel]
  /\ asked = [t \in Embedders |-> NoModel]
  /\ vectors = [t \in Embedders |-> NoModel]

-----------------------------------------------------------------------------
(* get_embedder finds an instance in the cache. *)
AskCached(t) ==
  /\ embedding[t] = "idle" /\ cached # NoModel
  /\ embedding' = [embedding EXCEPT ![t] = "encode"]
  /\ instance' = [instance EXCEPT ![t] = cached]
  /\ asked' = [asked EXCEPT ![t] = cached]
  /\ UNCHANGED <<cached, vectors>>

(* It finds none and calls the constructor. *)
AskFirst(t) ==
  /\ embedding[t] = "idle" /\ cached = NoModel
  /\ embedding' = [embedding EXCEPT ![t] = "load"]
  /\ asked' = [asked EXCEPT ![t] = NoModel]
  /\ UNCHANGED <<cached, instance, vectors>>

(* Faulty variant: the last instance made is kept. *)
KeepsLast(kind) == kind

(* lru_cache stores the instance unless another thread was faster. *)
KeepsFirst(kind) == IF cached = NoModel THEN kind ELSE cached

(* _load_model succeeds or not; the thread gets the instance it has made,  *)
(* whatever is in the cache by then.                                       *)
LoadModel(t) ==
  /\ embedding[t] = "load"
  /\ \E kind \in InstanceKinds :
       /\ instance' = [instance EXCEPT ![t] = kind]
       /\ cached' = KeepsFirst(kind)
  /\ embedding' = [embedding EXCEPT ![t] = "encode"]
  /\ UNCHANGED <<asked, vectors>>

(* embed_int16: the model's vector, or the SHA256 one. *)
Encode(t) ==
  /\ embedding[t] = "encode"
  /\ vectors' = [vectors EXCEPT ![t] = instance[t]]
  /\ instance' = [instance EXCEPT ![t] = NoModel]
  /\ embedding' = [embedding EXCEPT ![t] = "idle"]
  /\ UNCHANGED <<cached, asked>>

EmbedNext ==
  \E t \in Embedders : AskCached(t) \/ AskFirst(t) \/ LoadModel(t) \/ Encode(t)

EmbedSpec == EmbedInit /\ [][EmbedNext]_embedVars

-----------------------------------------------------------------------------
(* A query is embedded like every later one of the process, and so with    *)
(* the same routing and the same neighbours for the same text, unless it   *)
(* was asked before the first instance was stored.                         *)
EmbedsAlike ==
  \A t \in Embedders :
    asked[t] # NoModel /\ embedding[t] = "idle" => vectors[t] = cached
=============================================================================
