------------------------------- MODULE Knowledge -------------------------------
(***************************************************************************)
(* The knowledge base (platform_runtime/knowledge.py): documents cut into         *)
(* overlapping chunks, replaced whole under an expected version, and searched by      *)
(* agents that were granted the collection.  A collection is [embeds, agents, docs],    *)
(* docs a function of ids to [version, deleted, parts]; every operator answers the        *)
(* collection as it is afterwards, or <<>> when the call is refused.                        *)
(***************************************************************************)
EXTENDS Integers, FiniteSets, SequencesExt

\* chunks: pieces of one size, each beginning an overlap before the last one's end.
Chunks(length, size, overlap) ==
  LET step == size - overlap
      Cut[start \in Nat] ==
        IF start + size >= length THEN <<[from |-> start, to |-> length]>>
        ELSE <<[from |-> start, to |-> start + size]>> \o Cut[start + step]
  IN Cut[0]

DocOf(collection, id) ==
  IF id \in DOMAIN collection.docs THEN collection.docs[id]
  ELSE [version |-> 0, deleted |-> FALSE, parts |-> << >>]
PutDoc(collection, id, doc) ==
  [collection EXCEPT !.docs = [d \in DOMAIN collection.docs \union {id} |-> IF d = id THEN doc ELSE collection.docs[d]]]
PartsOfOthers(collection, id) ==
  FoldSet(LAMBDA d, sum: sum + Len(collection.docs[d].parts), 0, DOMAIN collection.docs \ {id})

\* create_collection: its embeddings never change.
Created(collections, name, embeds) ==
  IF name \notin DOMAIN collections THEN <<[embeds |-> embeds, agents |-> {}, docs |-> << >>]>>
  ELSE IF collections[name].embeds = embeds THEN <<collections[name]>> ELSE << >>

\* grant, by an owner.
Granted(collection, agent, allowed) ==
  [collection EXCEPT !.agents = IF allowed THEN @ \union {agent} ELSE @ \ {agent}]

\* ingest: the next version of a document, deleted or not, replaces all its chunks; an embedding a
\* chunk where the collection embeds, and none where it does not.
Ingested(collection, id, parts, embedded, expected, maxChunks) ==
  LET old == DocOf(collection, id)
  IN IF embedded # collection.embeds \/ parts = << >> \/ old.version # expected
        \/ PartsOfOthers(collection, id) + Len(parts) > maxChunks THEN << >>
     ELSE <<PutDoc(collection, id, [version |-> old.version + 1, deleted |-> FALSE, parts |-> parts])>>

\* delete: a version of its own, with no chunks left.
Deleted(collection, id, expected) ==
  LET old == DocOf(collection, id)
  IN IF expected < 1 \/ old.version # expected \/ old.deleted THEN << >>
     ELSE <<PutDoc(collection, id, [version |-> old.version + 1, deleted |-> TRUE, parts |-> << >>])>>

\* search: the tool, the grant and the model; ranks of what scores at all, the best of them first.
SearchAllowed(policyTools, collection, agent, embedded) ==
  "knowledge.search" \in policyTools /\ agent \in collection.agents /\ (embedded => collection.embeds)
Ranked(scores) ==
  SetToSortSeq({i \in DOMAIN scores : scores[i] > 0},
               LAMBDA i, j: scores[i] > scores[j] \/ (scores[i] = scores[j] /\ i < j))

\* Reciprocal ranks, in parts of 61 * 62 * 63: with two orders, both count.
Rank(order, i) ==
  LET at == {k \in DOMAIN order : order[k] = i}
  IN IF at = {} THEN 0 ELSE (61 * 62 * 63) \div (60 + CHOOSE k \in at : TRUE)
Found(lexical, similar, embedded, limit) ==
  LET fused == [i \in DOMAIN lexical |-> Rank(Ranked(lexical), i) + Rank(Ranked(similar), i)]
      ordered == Ranked(IF embedded THEN fused ELSE lexical)
  IN [matches |-> SubSeq(ordered, 1, IF Len(ordered) <= limit THEN Len(ordered) ELSE limit),
      matched |-> Len(ordered), truncated |-> Len(ordered) > limit]
=============================================================================
