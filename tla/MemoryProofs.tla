---------------------------- MODULE MemoryProofs ----------------------------
(***************************************************************************)
(* Proofs about Memory, for any number of calls, users, sessions and       *)
(* failures, and texts of any length.                                      *)
(***************************************************************************)
EXTENDS Memory, TLAPS

(* A call that has begun has a request, one that goes on is worth storing, *)
(* and none has found anything before its query is answered.               *)
CallInv ==
    \A c \in Calls :
        /\ stage[c] = "none" <=> req[c] = NoRequest
        /\ stage[c] # "none" => req[c] \in Requests
        /\ stage[c] \notin {"none", "skipped"} => ~Skips(req[c])
        /\ stage[c] # "done" => found[c] = {}

(* The cache holds, under each text, what one of the functions would have  *)
(* computed for it.                                                        *)
CacheInv == \A t \in Texts : cache[t] # NoVector => \E f \in Functions : cache[t] = Embedding(f, t)

(* Every entry of the index was stored by some call.                       *)
StoredBy(e) ==
    \E d \in Calls : /\ req[d].fn = "store_if_good"
                     /\ req[d].user = e.user
                     /\ req[d].session = e.session
                     /\ req[d].text = e.text

StoredInv == \A e \in index : StoredBy(e)

IInv ==
    /\ TypeOK /\ CallInv /\ CacheInv /\ StoredInv
    /\ CacheCoherent /\ IndexSound /\ RecallScoped /\ CacheOutageTolerated

-----------------------------------------------------------------------------
(* What an _embed function makes of a text is a vector of that text, and   *)
(* the same for all functions unless the text is longer than the prefix.   *)
LEMMA EmbeddingFacts ==
    ASSUME NEW t \in Texts, NEW f \in Functions
    PROVE  /\ Embedding(f, t) \in Vectors
           /\ f # "rag_recall" => Embedding(f, t) = [text |-> t, chars |-> Length[t]]
           /\ Length[t] <= Prefix => Embedding(f, t) = [text |-> t, chars |-> Length[t]]
  BY MemoryAssumption DEF Embedding, Vectors, Functions

(* The fields of a request.                                                *)
LEMMA RequestFacts ==
    ASSUME NEW r \in Requests
    PROVE  /\ r.fn \in Functions /\ r.text \in Texts /\ r.session \in Sessions
           /\ r.quality \in Qualities
           /\ r.fn = "store_if_good" => Length[r.text] <= MaxStored /\ r.user \in Users
           /\ r # NoRequest
  BY MemoryAssumption DEF Requests, NoRequest, Functions

(* The initial state satisfies the inductive invariant.                    *)
LEMMA InitIInv == Init => IInv
  <1> SUFFICES ASSUME Init PROVE IInv
    OBVIOUS
  <1>1. TypeOK
    BY MemoryAssumption DEF Init, TypeOK
  <1>2. CallInv /\ CacheInv /\ StoredInv
    BY DEF Init, CallInv, CacheInv, StoredInv
  <1>3. CacheCoherent /\ IndexSound /\ RecallScoped /\ CacheOutageTolerated
    BY DEF Init, CacheCoherent, IndexSound, RecallScoped, CacheOutageTolerated
  <1> QED
    BY <1>1, <1>2, <1>3 DEF IInv

-----------------------------------------------------------------------------
(* A call begins.                                                          *)
LEMMA CallStep ==
    ASSUME IInv, NEW c \in Calls, NEW r \in Requests, Call(c, r)
    PROVE  IInv'
  <1> USE DEF IInv
  <1>1. /\ stage[c] = "none" /\ req[c] = NoRequest
        /\ req'[c] = r /\ stage'[c] \in {"skipped", "lookup"}
        /\ stage'[c] = "lookup" => ~Skips(r)
        /\ \A d \in Calls : d # c => req'[d] = req[d] /\ stage'[d] = stage[d]
        /\ UNCHANGED <<vector, found, cache, index, cacheFaults, faults>>
    BY DEF Call, Enter, TypeOK, CallInv
  <1>2. TypeOK'
    BY DEF Call, Enter, TypeOK
  <1>3. CallInv'
    BY <1>1, RequestFacts DEF CallInv
  <1>4. ASSUME NEW e, StoredBy(e) PROVE StoredBy(e)'
    <2>1. PICK d \in Calls : /\ req[d].fn = "store_if_good" /\ req[d].user = e.user
                             /\ req[d].session = e.session /\ req[d].text = e.text
      BY <1>4 DEF StoredBy
    <2>2. d # c
      BY <1>1, <2>1 DEF NoRequest
    <2> QED
      BY <1>1, <2>1, <2>2 DEF StoredBy
  <1>5. CacheInv' /\ StoredInv'
    BY <1>1, <1>4 DEF CacheInv, StoredInv
  <1>6. CacheCoherent' /\ IndexSound'
    BY <1>1 DEF CacheCoherent, IndexSound
  <1>7. RecallScoped'
    <2> SUFFICES ASSUME NEW d \in Calls, NEW e \in found[d]
                 PROVE  e.user = req'[d].user /\ StoredBy(e)'
      BY <1>1 DEF RecallScoped, StoredBy
    <2>1. d # c
      BY <1>1 DEF CallInv
    <2>2. e.user = req[d].user /\ StoredBy(e)
      BY DEF RecallScoped, StoredBy
    <2> QED
      BY <1>1, <1>4, <2>1, <2>2
  <1>8. CacheOutageTolerated'
    BY <1>1 DEF CacheOutageTolerated
  <1> QED
    BY <1>2, <1>3, <1>5, <1>6, <1>7, <1>8

(* The steps up to the vector: what changes is the call's own stage and    *)
(* vector, the cache and the count of failures.                            *)
LEMMA EmbedStep ==
    ASSUME IInv, NEW c \in Calls,
           \/ CacheHit(c) \/ CacheMiss(c) \/ CacheReadFails(c) \/ Embed(c) \/ EmbedFails(c)
           \/ CacheWrite(c) \/ CacheWriteFails(c)
    PROVE  IInv'
  <1> USE DEF IInv
  <1> DEFINE t == req[c].text
  <1>0. stage[c] \in {"lookup", "embed", "save"}
    BY DEF CacheHit, CacheMiss, CacheReadFails, Embed, EmbedFails, CacheWrite, CacheWriteFails
  <1>1. /\ req[c] \in Requests /\ t \in Texts /\ req[c].fn \in Functions /\ ~Skips(req[c])
        /\ found[c] = {}
    BY <1>0, RequestFacts DEF CallInv
  <1>2. /\ UNCHANGED <<req, found, index>>
        /\ \A d \in Calls : d # c => stage'[d] = stage[d] /\ vector'[d] = vector[d]
        /\ stage'[c] \in {"embed", "save", "index", "failed"}
    BY DEF CacheHit, CacheMiss, CacheReadFails, Embed, EmbedFails, CacheWrite, CacheWriteFails,
           Enter, TypeOK
  <1>3. /\ vector'[c] \in Vectors \cup {NoVector}
        /\ stage'[c] \in {"save", "index"} =>
             \E f \in Functions : /\ vector'[c] = Embedding(f, t)
                                  /\ Length[t] <= Prefix => vector'[c] = Embedding(req[c].fn, t)
    <2>1. CASE CacheHit(c)
      <3>1. cache[t] # NoVector /\ vector'[c] = cache[t]
        BY <2>1 DEF CacheHit, TypeOK
      <3>2. PICK f \in Functions : cache[t] = Embedding(f, t)
        BY <1>1, <3>1 DEF CacheInv
      <3> QED
        BY <1>1, <3>1, <3>2, EmbeddingFacts
    <2>2. CASE Embed(c)
      <3>1. vector'[c] = Embedding(req[c].fn, t)
        BY <2>2 DEF Embed, TypeOK
      <3> QED
        BY <1>1, <3>1, EmbeddingFacts
    <2>3. CASE CacheWrite(c) \/ CacheWriteFails(c)
      <3>1. vector' = vector /\ stage[c] = "save"
        BY <2>3 DEF CacheWrite, CacheWriteFails
      <3> QED
        BY <1>1, <3>1 DEF CacheCoherent, TypeOK
    <2>4. CASE CacheMiss(c) \/ CacheReadFails(c) \/ EmbedFails(c)
      BY <2>4 DEF CacheMiss, CacheReadFails, EmbedFails, Enter, TypeOK
    <2> QED
      BY <2>1, <2>2, <2>3, <2>4
  <1>4. cache' = cache \/ (stage[c] = "save" /\ cache' = [cache EXCEPT ![t] = vector[c]])
    BY DEF CacheHit, CacheMiss, CacheReadFails, Embed, EmbedFails, CacheWrite, CacheWriteFails
  <1>5. /\ cacheFaults' \in 0..MaxFaults /\ faults' \in 0..MaxFaults
        /\ stage'[c] = "failed" => faults' # 0 \/ req[c].fn = "rag_recall"
        /\ faults' = 0 => faults = 0
    BY MemoryAssumption
    DEF CacheHit, CacheMiss, CacheReadFails, Embed, EmbedFails, CacheWrite, CacheWriteFails,
        NoFault, CacheFault, HardFault, Tolerant, Enter, TypeOK
  <1>6. TypeOK'
    <2>1. stage' \in [Calls -> {"none", "lookup", "embed", "save", "index", "done", "skipped", "failed"}]
      BY DEF CacheHit, CacheMiss, CacheReadFails, Embed, EmbedFails, CacheWrite, CacheWriteFails,
             Enter, TypeOK
    <2>2. vector' \in [Calls -> Vectors \cup {NoVector}]
      <3>1. vector' = vector \/ vector' = [vector EXCEPT ![c] = vector'[c]]
        BY DEF CacheHit, CacheMiss, CacheReadFails, Embed, EmbedFails, CacheWrite, CacheWriteFails,
               TypeOK
      <3> QED
        BY <1>3, <3>1 DEF TypeOK
    <2>3. cache' \in [Texts -> Vectors \cup {NoVector}]
      BY <1>1, <1>4 DEF TypeOK
    <2> QED
      BY <1>2, <1>5, <2>1, <2>2, <2>3 DEF TypeOK
  <1>7. CallInv'
    BY <1>0, <1>1, <1>2, RequestFacts DEF CallInv
  <1>8. CacheInv'
    BY <1>1, <1>4 DEF CacheInv, CacheCoherent, TypeOK
  <1>9. StoredInv' /\ IndexSound' /\ RecallScoped'
    BY <1>2 DEF StoredInv, StoredBy, IndexSound, RecallScoped
  <1>10. CacheCoherent'
    BY <1>2, <1>3 DEF CacheCoherent
  <1>11. CacheOutageTolerated'
    BY <1>2, <1>5 DEF CacheOutageTolerated
  <1> QED
    BY <1>6, <1>7, <1>8, <1>9, <1>10, <1>11

(* An entry expires.                                                       *)
LEMMA ExpiryStep ==
    ASSUME IInv, NEW t \in Texts, CacheExpires(t)
    PROVE  IInv'
  <1> USE DEF IInv
  <1>1. /\ UNCHANGED <<req, stage, vector, found, index, faults>>
        /\ cache' = [cache EXCEPT ![t] = NoVector]
        /\ cacheFaults' \in 0..MaxFaults
    BY MemoryAssumption DEF CacheExpires, CacheFault, TypeOK
  <1>2. TypeOK' /\ CallInv' /\ CacheInv' /\ StoredInv'
    BY <1>1 DEF TypeOK, CallInv, CacheInv, StoredInv, StoredBy
  <1>3. CacheCoherent' /\ IndexSound' /\ RecallScoped' /\ CacheOutageTolerated'
    BY <1>1 DEF CacheCoherent, IndexSound, RecallScoped, CacheOutageTolerated
  <1> QED
    BY <1>2, <1>3

(* The index is written.                                                   *)
LEMMA UpsertStep ==
    ASSUME IInv, NEW c \in Calls, stage[c] = "index", req[c].fn = "store_if_good",
           index' = Upserted(c), UNCHANGED <<req, vector, found, cache>>,
           \/ Enter(c, "done") /\ NoFault
           \/ Enter(c, "failed") /\ HardFault
    PROVE  IInv'
  <1> USE DEF IInv
  <1> DEFINE e == [user |-> req[c].user, session |-> req[c].session, text |-> req[c].text,
                   quality |-> req[c].quality, vector |-> vector[c]]
  <1>1. /\ req[c] \in Requests /\ ~Skips(req[c]) /\ found[c] = {}
        /\ req[c].text \in Texts /\ req[c].session \in Sessions /\ req[c].user \in Users
        /\ req[c].quality \in Qualities /\ Length[req[c].text] <= MaxStored
    BY RequestFacts DEF CallInv
  <1>2. e.quality >= Threshold
    <2>1. Qualities \subseteq Int /\ Threshold \in Int
      BY MemoryAssumption
    <2>2. ~(req[c].quality < Threshold)
      BY <1>1 DEF Skips
    <2>3. req[c].quality \in Int
      BY <1>1, <2>1
    <2>4. ASSUME NEW q \in Int, NEW t \in Int, ~(q < t) PROVE q >= t
      BY <2>4
    <2>5. req[c].quality >= Threshold
      BY <2>1, <2>2, <2>3, <2>4
    <2> QED
      BY <2>5
  <1>3. e.vector = [text |-> e.text, chars |-> Length[e.text]] /\ vector[c] \in Vectors
    <2>1. vector[c] = Embedding(req[c].fn, req[c].text)
      BY <1>1, MemoryAssumption DEF CacheCoherent
    <2> QED
      BY <1>1, <2>1, EmbeddingFacts DEF Functions
  <1>4. e \in Entries
    BY <1>1, <1>3 DEF Entries
  <1>5. /\ index' = {x \in index : ~(x.user = e.user /\ x.session = e.session)} \cup {e}
        /\ e.user = req[c].user /\ e.session = req[c].session /\ e.text = req[c].text
    BY DEF Upserted
  <1>6. /\ \A d \in Calls : d # c => stage'[d] = stage[d]
        /\ stage'[c] \in {"done", "failed"}
        /\ stage'[c] = "failed" => faults' # 0
        /\ faults' \in 0..MaxFaults /\ cacheFaults' \in 0..MaxFaults
        /\ faults' = 0 => faults = 0
        /\ stage' \in [Calls -> {"none", "lookup", "embed", "save", "index", "done", "skipped", "failed"}]
    BY MemoryAssumption DEF Enter, NoFault, HardFault, TypeOK
  <1> HIDE DEF e
  <1>7. TypeOK'
    BY <1>4, <1>5, <1>6 DEF TypeOK
  <1>8. CallInv'
    BY <1>1, <1>6 DEF CallInv
  <1>9. CacheInv' /\ CacheCoherent' /\ RecallScoped'
    BY <1>6 DEF CacheInv, CacheCoherent, RecallScoped
  <1>10. StoredInv'
    BY <1>5 DEF StoredInv, StoredBy
  <1>11. IndexSound'
    BY <1>2, <1>3, <1>5 DEF IndexSound
  <1>12. CacheOutageTolerated'
    <2> SUFFICES ASSUME faults' = 0, NEW d \in Calls
                 PROVE  /\ stage'[d] = "failed" => req[d].fn = "rag_recall"
                        /\ stage'[d] = "done" /\ req[d].fn = "store_if_good" =>
                             \E x \in index' : x.user = req[d].user /\ x.session = req[d].session
      BY DEF CacheOutageTolerated
    <2>1. CASE d = c
      BY <1>5, <1>6, <2>1
    <2>2. CASE d # c
      BY <1>5, <1>6, <2>2 DEF CacheOutageTolerated
    <2> QED
      BY <2>1, <2>2
  <1> QED
    BY <1>7, <1>8, <1>9, <1>10, <1>11, <1>12

(* The index is read, or cannot be reached.                                *)
LEMMA QueryStep ==
    ASSUME IInv, NEW c \in Calls,
           \/ recall_for_user(c) \/ rag_recall(c)
           \/ IndexFails(c) /\ index' = index
    PROVE  IInv'
  <1> USE DEF IInv
  <1>1. stage[c] = "index" /\ req[c] \in Requests /\ ~Skips(req[c]) /\ found[c] = {}
    BY DEF recall_for_user, rag_recall, Query, IndexFails, CallInv
  <1>2. /\ UNCHANGED <<req, vector, cache, index>>
        /\ \A d \in Calls : d # c => stage'[d] = stage[d] /\ found'[d] = found[d]
        /\ stage'[c] \in {"done", "failed"}
        /\ stage'[c] = "failed" => faults' # 0 /\ found'[c] = {}
        /\ stage'[c] = "done" => req[c].fn # "store_if_good"
        /\ faults' \in 0..MaxFaults /\ cacheFaults' \in 0..MaxFaults
        /\ faults' = 0 => faults = 0
        /\ stage' \in [Calls -> {"none", "lookup", "embed", "save", "index", "done", "skipped", "failed"}]
    BY <1>1, MemoryAssumption
    DEF recall_for_user, rag_recall, Query, IndexFails, Enter, NoFault, HardFault, TypeOK
  <1>3. found'[c] \subseteq Matching(req[c].user) /\ found' \in [Calls -> SUBSET Entries]
    <2>1. CASE recall_for_user(c) \/ rag_recall(c)
      <3>1. PICK S \in SUBSET Matching(req[c].user) : found' = [found EXCEPT ![c] = S]
        BY <2>1 DEF recall_for_user, rag_recall, Query
      <3>2. S \in SUBSET Entries
        BY DEF Matching, TypeOK
      <3> QED
        BY <3>1, <3>2 DEF TypeOK
    <2>2. CASE IndexFails(c)
      BY <1>1, <2>2 DEF IndexFails, TypeOK
    <2> QED
      BY <2>1, <2>2
  <1>4. TypeOK' /\ CallInv'
    <2>1. TypeOK'
      BY <1>2, <1>3 DEF TypeOK
    <2>2. CallInv'
      BY <1>1, <1>2 DEF CallInv
    <2> QED
      BY <2>1, <2>2
  <1>5. CacheInv' /\ StoredInv' /\ CacheCoherent' /\ IndexSound'
    BY <1>1, <1>2 DEF CacheInv, StoredInv, StoredBy, CacheCoherent, IndexSound
  <1>6. RecallScoped'
    <2> SUFFICES ASSUME NEW d \in Calls, NEW e \in found'[d]
                 PROVE  e.user = req[d].user /\ StoredBy(e)
      BY <1>2 DEF RecallScoped, StoredBy
    <2>1. CASE d = c
      BY <1>3, <2>1 DEF Matching, StoredInv
    <2>2. CASE d # c
      BY <1>2, <2>2 DEF RecallScoped, StoredBy
    <2> QED
      BY <2>1, <2>2
  <1>7. CacheOutageTolerated'
    BY <1>2 DEF CacheOutageTolerated
  <1> QED
    BY <1>4, <1>5, <1>6, <1>7

(* IInv is inductive.                                                      *)
LEMMA IInvStep == IInv /\ [Next]_vars => IInv'
  <1> SUFFICES ASSUME IInv, [Next]_vars PROVE IInv'
    OBVIOUS
  <1>1. ASSUME NEW c \in Calls, Step(c) PROVE IInv'
    <2>1. CASE Upsert(c)
      BY <2>1, UpsertStep DEF Upsert
    <2>2. CASE IndexFails(c) /\ index' # index
      BY <2>2, UpsertStep DEF IndexFails
    <2>3. CASE recall_for_user(c) \/ rag_recall(c) \/ (IndexFails(c) /\ index' = index)
      BY <2>3, QueryStep
    <2> QED
      BY <1>1, <2>1, <2>2, <2>3, EmbedStep DEF Step
  <1>2. CASE UNCHANGED vars
    BY <1>2 DEF vars, IInv, TypeOK, CallInv, CacheInv, StoredInv, StoredBy, CacheCoherent,
                IndexSound, RecallScoped, CacheOutageTolerated
  <1> QED
    BY <1>1, <1>2, CallStep, ExpiryStep DEF Next

(* All of it holds in every state.                                         *)
LEMMA Inductive == Spec => []IInv
  BY InitIInv, IInvStep, PTL DEF Spec

-----------------------------------------------------------------------------
(* Type correctness.                                                       *)
THEOREM TypeCorrect == Spec => []TypeOK
  <1>1. IInv => TypeOK
    BY DEF IInv
  <1> QED
    BY <1>1, Inductive, PTL

(* Whichever function filled the shared cache, a call works with a vector  *)
(* of its own text, and with its own function's unless the text is long.   *)
THEOREM CacheCoherentHolds == Spec => []CacheCoherent
  <1>1. IInv => CacheCoherent
    BY DEF IInv
  <1> QED
    BY <1>1, Inductive, PTL

(* The index has one entry per session, good enough and with the vector of *)
(* its own text.                                                           *)
THEOREM IndexSoundHolds == Spec => []IndexSound
  <1>1. IInv => IndexSound
    BY DEF IInv
  <1> QED
    BY <1>1, Inductive, PTL

(* A user is only given what was stored for that user.                     *)
THEOREM RecallScopedHolds == Spec => []RecallScoped
  <1>1. IInv => RecallScoped
    BY DEF IInv
  <1> QED
    BY <1>1, Inductive, PTL

(* A failing Redis loses no session.                                       *)
THEOREM CacheOutageToleratedHolds == Spec => []CacheOutageTolerated
  <1>1. IInv => CacheOutageTolerated
    BY DEF IInv
  <1> QED
    BY <1>1, Inductive, PTL
=============================================================================
