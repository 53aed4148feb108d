------------------------------- MODULE Memory -------------------------------
(***************************************************************************)
(* Cross-session memory: store_if_good and recall_for_user                 *)
(* (backend/core/memory.py) and the tool rag_recall                        *)
(* (backend/tools/rag_recall.py).  Each has an _embed of its own; the two  *)
(* share the embedding cache in Redis, under the same keys, and the        *)
(* Pinecone index, with a namespace per user.                              *)
(*                                                                         *)
(* A text is its name and its length; a vector is the text it was made     *)
(* from and how many of its characters were embedded.  Every await on      *)
(* Redis or OpenAI ends a step; the Pinecone client does not await.        *)
(*                                                                         *)
(* The callers are any that store a session for its owner, what they store *)
(* being cut before.  The application itself is narrower: ws/run.py        *)
(* never passes a quality to store_if_good (see SessionService), and the   *)
(* researcher passes NoUser to rag_recall.                                 *)
(***************************************************************************)
EXTENDS Integers, FiniteSets

CONSTANTS
    Calls, Users, Sessions, Texts,
    Owner,          \* the user of each session
    Length,         \* length of each text
    Qualities,      \* quality scores, in hundredths
    MaxStored,      \* the most store_if_good embeds: goal[:500], two newlines, output[:2000]
    Prefix,         \* what rag_recall cuts its input to
    Threshold,      \* _QUALITY_WRITE_THRESHOLD and _MIN_QUALITY
    TopK,
    MaxFaults       \* bound: failing calls and expiries explored

ASSUME MemoryAssumption ==
    /\ IsFiniteSet(Calls)
    /\ Owner \in [Sessions -> Users]
    /\ Length \in [Texts -> Nat]
    /\ Qualities \subseteq 0..100
    /\ MaxStored \in Nat /\ Prefix \in Nat /\ MaxStored <= Prefix
    /\ Threshold \in 1..100
    /\ TopK \in Nat \ {0}
    /\ MaxFaults \in Nat

Functions == {"store_if_good", "recall_for_user", "rag_recall"}
NoUser == ""
NoVector == [text |-> "none", chars |-> 0]

(* Requests the callers can make.  What is stored is short; the goal of a  *)
(* start frame and the query of rag_recall may have any length.            *)
Requests ==
    {r \in [fn : Functions, user : Users \cup {NoUser}, session : Sessions, text : Texts,
            quality : Qualities] :
        /\ r.fn = "store_if_good" => Length[r.text] <= MaxStored /\ r.user = Owner[r.session]
        /\ r.fn = "recall_for_user" => r.user # NoUser
        /\ r.fn # "store_if_good" => /\ r.quality = CHOOSE q \in Qualities : TRUE
                                     /\ r.session = CHOOSE s \in Sessions : TRUE}

NoRequest == [fn |-> "none"]

VARIABLES
    req, stage,     \* what each call was asked, and what it does next
    vector,         \* the embedding it works with
    found,          \* the index entries that were returned to it
    cache,          \* Redis: the vector under each text's hash
    index,          \* Pinecone: for each user and session the entry or none
    cacheFaults,    \* failures of Redis and expiries so far
    faults          \* failures of OpenAI and Pinecone so far

vars == <<req, stage, vector, found, cache, index, cacheFaults, faults>>

Vectors == [text : Texts, chars : Nat]
Entries == [user : Users, session : Sessions, text : Texts, quality : Qualities, vector : Vectors]

TypeOK ==
    /\ req \in [Calls -> Requests \cup {NoRequest}]
    /\ stage \in [Calls -> {"none", "lookup", "embed", "save", "index", "done", "skipped", "failed"}]
    /\ vector \in [Calls -> Vectors \cup {NoVector}]
    /\ found \in [Calls -> SUBSET Entries]
    /\ cache \in [Texts -> Vectors \cup {NoVector}]
    /\ index \subseteq Entries
    /\ cacheFaults \in 0..MaxFaults
    /\ faults \in 0..MaxFaults

Init ==
    /\ req = [c \in Calls |-> NoRequest]
    /\ stage = [c \in Calls |-> "none"]
    /\ vector = [c \in Calls |-> NoVector]
    /\ found = [c \in Calls |-> {}]
    /\ cache = [t \in Texts |-> NoVector]
    /\ index = {}
    /\ cacheFaults = 0
    /\ faults = 0

(* Mutant: whatever is offered is stored.                                  *)
SkipsNothing(r) == FALSE

(* A session of low quality is not stored.                                 *)
Skips(r) == r.fn = "store_if_good" /\ r.quality < Threshold

Enter(c, s) == stage' = [stage EXCEPT ![c] = s]

(* A fault of Redis, or of OpenAI or Pinecone.                             *)
CacheFault == cacheFaults + faults < MaxFaults /\ cacheFaults' = cacheFaults + 1 /\ UNCHANGED faults
HardFault == cacheFaults + faults < MaxFaults /\ faults' = faults + 1 /\ UNCHANGED cacheFaults
NoFault == UNCHANGED <<cacheFaults, faults>>

(* Mutant: a failing cache ends every call.                                *)
TolerantNever(c) == FALSE

(* memory._embed survives a failing cache; the exception of rag_recall's   *)
(* leaves the tool.                                                        *)
Tolerant(c) == req[c].fn # "rag_recall"

(* Mutant: rag_recall cuts to what store_if_good stores at most.           *)
EmbeddingCut(fn, t) ==
    [text |-> t,
     chars |-> IF fn = "rag_recall" /\ Length[t] > MaxStored THEN MaxStored ELSE Length[t]]

(* What the call's own _embed sends to OpenAI.                             *)
Embedding(fn, t) ==
    [text |-> t,
     chars |-> IF fn = "rag_recall" /\ Length[t] > Prefix THEN Prefix ELSE Length[t]]

-----------------------------------------------------------------------------
Call(c, r) ==
    /\ stage[c] = "none"
    /\ req' = [req EXCEPT ![c] = r]
    /\ Enter(c, IF Skips(r) THEN "skipped" ELSE "lookup")
    /\ UNCHANGED <<vector, found, cache, index, cacheFaults, faults>>

CacheHit(c) ==
    /\ stage[c] = "lookup"
    /\ cache[req[c].text] # NoVector
    /\ vector' = [vector EXCEPT ![c] = cache[req[c].text]]
    /\ Enter(c, "index")
    /\ NoFault
    /\ UNCHANGED <<req, found, cache, index>>

CacheMiss(c) ==
    /\ stage[c] = "lookup"
    /\ cache[req[c].text] = NoVector
    /\ Enter(c, "embed")
    /\ NoFault
    /\ UNCHANGED <<req, vector, found, cache, index>>

CacheReadFails(c) ==
    /\ stage[c] = "lookup"
    /\ CacheFault
    /\ Enter(c, IF Tolerant(c) THEN "embed" ELSE "failed")
    /\ UNCHANGED <<req, vector, found, cache, index>>

Embed(c) ==
    /\ stage[c] = "embed"
    /\ vector' = [vector EXCEPT ![c] = Embedding(req[c].fn, req[c].text)]
    /\ Enter(c, "save")
    /\ NoFault
    /\ UNCHANGED <<req, found, cache, index>>

(* Logged by memory.py, an exception of the tool.                          *)
EmbedFails(c) ==
    /\ stage[c] = "embed"
    /\ HardFault
    /\ Enter(c, "failed")
    /\ UNCHANGED <<req, vector, found, cache, index>>

CacheWrite(c) ==
    /\ stage[c] = "save"
    /\ cache' = [cache EXCEPT ![req[c].text] = vector[c]]
    /\ Enter(c, "index")
    /\ NoFault
    /\ UNCHANGED <<req, vector, found, index>>

(* The SET raises, executed or not.                                        *)
CacheWriteFails(c) ==
    /\ stage[c] = "save"
    /\ CacheFault
    /\ cache' \in {cache, [cache EXCEPT ![req[c].text] = vector[c]]}
    /\ Enter(c, IF Tolerant(c) THEN "index" ELSE "failed")
    /\ UNCHANGED <<req, vector, found, index>>

(* An entry expires after seven days.                                      *)
CacheExpires(t) ==
    /\ cache[t] # NoVector
    /\ CacheFault
    /\ cache' = [cache EXCEPT ![t] = NoVector]
    /\ UNCHANGED <<req, stage, vector, found, index>>

-----------------------------------------------------------------------------
(* Pinecone.                                                               *)

(* The index with the call's entry in place of the session's last one.     *)
Upserted(c) ==
    LET r == req[c]
    IN  {e \in index : ~(e.user = r.user /\ e.session = r.session)}
        \cup {[user |-> r.user, session |-> r.session, text |-> r.text,
               quality |-> r.quality, vector |-> vector[c]]}

Upsert(c) ==
    /\ stage[c] = "index"
    /\ req[c].fn = "store_if_good"
    /\ index' = Upserted(c)
    /\ Enter(c, "done")
    /\ NoFault
    /\ UNCHANGED <<req, vector, found, cache>>

(* Mutant: the query is not limited to the user's namespace.               *)
MatchingAll(u) == {e \in index : e.quality >= Threshold}

(* namespace=user_id, and the filter on quality_score.                     *)
Matching(u) == {e \in index : e.user = u /\ e.quality >= Threshold}

(* The top_k nearest of the user's entries that meet the threshold.        *)
Query(c) ==
    /\ stage[c] = "index"
    /\ \E S \in SUBSET Matching(req[c].user) :
         /\ Cardinality(S) = IF Cardinality(Matching(req[c].user)) < TopK
                             THEN Cardinality(Matching(req[c].user)) ELSE TopK
         /\ found' = [found EXCEPT ![c] = S]
    /\ Enter(c, "done")
    /\ NoFault
    /\ UNCHANGED <<req, vector, cache, index>>

(* The matches become memory items, or the text that the tool returns.     *)
recall_for_user(c) == req[c].fn = "recall_for_user" /\ Query(c)
rag_recall(c) == req[c].fn = "rag_recall" /\ Query(c)

(* Pinecone raises; an upsert may have been applied all the same.          *)
IndexFails(c) ==
    /\ stage[c] = "index"
    /\ HardFault
    /\ index' \in IF req[c].fn = "store_if_good" THEN {index, Upserted(c)} ELSE {index}
    /\ Enter(c, "failed")
    /\ UNCHANGED <<req, vector, found, cache>>

Step(c) ==
    \/ CacheHit(c) \/ CacheMiss(c) \/ CacheReadFails(c)
    \/ Embed(c) \/ EmbedFails(c)
    \/ CacheWrite(c) \/ CacheWriteFails(c)
    \/ Upsert(c) \/ recall_for_user(c) \/ rag_recall(c) \/ IndexFails(c)

Next ==
    \/ \E c \in Calls : Step(c) \/ \E r \in Requests : Call(c, r)
    \/ \E t \in Texts : CacheExpires(t)

Spec == Init /\ [][Next]_vars

-----------------------------------------------------------------------------
(* Properties.                                                             *)

(* The two _embed functions cut texts differently and share one cache.     *)
(* Whoever filled the cache, a call works with the vector of its own text, *)
(* and with the very one that its own function would have computed unless  *)
(* the text is longer than rag_recall's cut.                               *)
CacheCoherent ==
    \A c \in Calls :
        stage[c] \in {"save", "index", "done"} =>
            /\ vector[c] \in {Embedding(f, req[c].text) : f \in Functions}
            /\ Length[req[c].text] <= Prefix => vector[c] = Embedding(req[c].fn, req[c].text)

(* The index holds one entry per session, with the vector of the text it   *)
(* was stored for and a quality that meets the threshold, also when two    *)
(* runs of a session store at the same time.                               *)
IndexSound ==
    \A e \in index :
        /\ e.quality >= Threshold
        /\ e.vector = [text |-> e.text, chars |-> Length[e.text]]
        /\ \A f \in index : f.user = e.user /\ f.session = e.session => f = e

(* What a call is given was stored for its user: some call of that user    *)
(* stored this text for this session.                                      *)
RecallScoped ==
    \A c \in Calls : \A e \in found[c] :
        /\ e.user = req[c].user
        /\ \E d \in Calls : /\ req[d].fn = "store_if_good"
                            /\ req[d].user = req[c].user
                            /\ req[d].session = e.session
                            /\ req[d].text = e.text

(* Redis is only a cache: while it alone fails, a good session is stored.  *)
CacheOutageTolerated ==
    faults = 0 =>
        \A c \in Calls :
            /\ stage[c] = "failed" => req[c].fn = "rag_recall"
            /\ stage[c] = "done" /\ req[c].fn = "store_if_good" =>
                 \E e \in index : e.user = req[c].user /\ e.session = req[c].session
=============================================================================
