----------------------------- MODULE Knowledge -----------------------------
(***************************************************************************)
(* A knowledge base: documents are cut into overlapping chunks, embedded   *)
(* and stored (ai/rag.service.ts, ai/knowledge-base.service.ts), and the   *)
(* starter bundle of a vertical brings one along                           *)
(* (template/template.service.ts).                                         *)
(*                                                                         *)
(* A text is its positions 0 .. n - 1; only the places where a sentence or *)
(* a paragraph ends matter.  A chunk is stored in two statements, the row  *)
(* and its vector, and an ingest that throws leaves what it has stored.    *)
(***************************************************************************)
EXTENDS Integers, Sequences, Functions, TLC

CONSTANTS Length,     \* lengths of texts
          Breaks,     \* sets of places after sentences and paragraphs
          Size,       \* CHUNK_SIZE
          Overlap,    \* CHUNK_OVERLAP
          MaxDocs,    \* bound: rows of documents
          Vertical    \* verticals whose starter bundle is applied

ASSUME KnowledgeAssumption ==
    /\ Size \in Nat \ {0} /\ Overlap \in Nat /\ MaxDocs \in Nat
    /\ Length \subseteq Nat \ {0}
    /\ Vertical \subseteq {"REAL_ESTATE", "CLINIC", "COACHING", "D2C",
                      "HOSPITALITY", "EDUCATION", "FINANCE", "GENERAL"}

VARIABLES
    embeds,    \* EmbeddingsClient is configured
    len,       \* the text to ingest: its length
    breaks,    \* and where its sentences and paragraphs end
    base,      \* the knowledge base exists
    docs,      \* its rows: the part of the text, whether they have a vector
    ingest,    \* the running ingest: its step, its place in the text, its chunks
    bundle,    \* the starter bundle: its vertical, and the part apply is at
    intact,    \* history: the ingest's base and rows are all there
    kept       \* history: so are the bundle's

knowVars == <<embeds, len, breaks, base, docs, ingest, bundle, intact, kept>>
textVars == <<embeds, len, breaks>>

\* The bundles: their seed documents and their flows.  Each has one agent and
\* one pipeline besides.
SeededVerticals ==
    [REAL_ESTATE |-> [knowledge |-> 1, flows |-> 1],
     CLINIC      |-> [knowledge |-> 1, flows |-> 1],
     COACHING    |-> [knowledge |-> 1, flows |-> 0]]
BareVerticals ==
    [v \in {"D2C", "HOSPITALITY", "EDUCATION", "FINANCE", "GENERAL"} |->
        [knowledge |-> 0, flows |-> 0]]
VERTICAL_TEMPLATES == SeededVerticals @@ BareVerticals

NoBundle == [of |-> "none", part |-> 0]

Idle_ == [step |-> "idle", i |-> 0, chunks |-> <<>>]

KnowInit ==
    /\ embeds \in BOOLEAN
    /\ len \in Length /\ breaks \in {B \cap 1 .. len - 1 : B \in Breaks}
    /\ base = FALSE /\ docs = <<>>
    /\ ingest = Idle_
    /\ bundle = NoBundle /\ intact = FALSE /\ kept = FALSE

-----------------------------------------------------------------------------
(* RagService. *)

\* A window ends after its last sentence, if that is in its second half.
End(i) ==
    LET end  == IF i + Size < len THEN i + Size ELSE len
        late == {b \in breaks : b - i - 1 > Size \div 2 /\ b < end}
    IN  IF end < len /\ late # {} THEN CHOOSE b \in late : \A c \in late : c <= b ELSE end

AdvancePast(i, end) == end + Overlap

\* "Guarantee forward progress": the last window repeats the text's tail.
Advance(i, end) == IF end - Overlap > i THEN end - Overlap ELSE end

\* The seed of a bundle has been ingested: on with its agent.
SeedDone == bundle' = IF bundle.part = 1 THEN [bundle EXCEPT !.part = 2] ELSE bundle
\* The error goes on through apply.
SeedFails == bundle' = IF bundle.part = 1 THEN NoBundle ELSE bundle

\* addDocument, or the seed of a bundle: without an embeddings client the text
\* is stored whole, without a vector, and nothing adds one later.
StartIngest ==
    /\ base /\ ingest.step \in {"idle", "done"}
    /\ Len(docs) < MaxDocs
    /\ IF embeds
       THEN ingest' = [Idle_ EXCEPT !.step = "cut"] /\ UNCHANGED <<docs, bundle>>
       ELSE /\ docs' = Append(docs, [from |-> 0, to |-> len, vector |-> FALSE])
            /\ ingest' = Idle_ /\ SeedDone
    /\ intact' = TRUE
    /\ UNCHANGED <<textVars, base, kept>>

\* One iteration of chunk's loop; a text of one chunk is not cut.
Cut ==
    LET i   == ingest.i
        end == End(i)
    IN  /\ ingest.step = "cut"
        /\ IF i >= len
           THEN ingest' = [ingest EXCEPT !.step = "row"]
           ELSE ingest' = [ingest EXCEPT
                  !.chunks = Append(@, [from |-> i, to |-> end]),
                  !.i = IF len <= Size THEN len ELSE Advance(i, end)]
        /\ UNCHANGED <<textVars, base, docs, bundle, intact, kept>>

\* The row of the next chunk; when the base has gone the insert throws.
StoreRow ==
    /\ ingest.step = "row" /\ ingest.chunks # <<>>
    /\ IF base
       THEN /\ Len(docs) < MaxDocs
            /\ docs' = Append(docs, [from |-> Head(ingest.chunks).from,
                                     to |-> Head(ingest.chunks).to, vector |-> FALSE])
            /\ ingest' = [ingest EXCEPT !.step = "vector"]
            /\ UNCHANGED bundle
       ELSE ingest' = Idle_ /\ SeedFails /\ UNCHANGED docs
    /\ UNCHANGED <<textVars, base, intact, kept>>

\* Its vector: the update by id, which no longer finds a row that was removed.
StoreVector ==
    /\ ingest.step = "vector"
    /\ docs' = IF docs = <<>> THEN docs
               ELSE [docs EXCEPT ![Len(docs)].vector = TRUE]
    /\ ingest' = [ingest EXCEPT !.step = "row", !.chunks = Tail(@)]
    /\ UNCHANGED <<textVars, base, bundle, intact, kept>>

EndIngest ==
    /\ ingest.step = "row" /\ ingest.chunks = <<>>
    /\ ingest' = [ingest EXCEPT !.step = "done"]
    /\ SeedDone
    /\ UNCHANGED <<textVars, base, docs, intact, kept>>

\* The embeddings call or a query throws: what is stored stays, and another
\* attempt stores it again.
IngestThrows ==
    /\ ingest.step \in {"cut", "row", "vector"}
    /\ ingest' = Idle_ /\ SeedFails
    /\ UNCHANGED <<textVars, base, docs, intact, kept>>

\* The rows that retrieve ranks by distance.
Retrievable == {d \in DOMAIN docs : docs[d].vector}

-----------------------------------------------------------------------------
(* KnowledgeBaseService. *)

\* (bound: a base is created anew only when no ingest runs)
CreateBase ==
    /\ ~base /\ ingest.step \in {"idle", "done"}
    /\ base' = TRUE
    /\ UNCHANGED <<textVars, docs, ingest, bundle, intact, kept>>

\* Deletes the documents with it.
RemoveBase ==
    /\ base
    /\ base' = FALSE /\ docs' = <<>> /\ intact' = FALSE /\ kept' = FALSE
    /\ UNCHANGED <<textVars, ingest, bundle>>

\* A row is deleted (bound: not the one a vector is about to be written to).
RemoveDocument(d) ==
    /\ base /\ ingest.step # "vector"
    /\ docs' = [i \in 1 .. Len(docs) - 1 |-> docs[IF i < d THEN i ELSE i + 1]]
    /\ intact' = FALSE /\ kept' = FALSE
    /\ UNCHANGED <<textVars, base, ingest, bundle>>

-----------------------------------------------------------------------------
(* TemplateService.apply: the base and its documents, the agent, the         *)
(* pipeline, the flows, and last the client's vertical; not in one           *)
(* transaction, so it may stop anywhere, and applying again starts over.     *)

\* The base, the agent, the pipeline, the flows, the vertical.
Parts(v) == 4 + VERTICAL_TEMPLATES[v].flows

\* A vertical with a seed gets a new base; that of an earlier attempt, if there
\* is one, is not followed further (bound: apply waits for a running ingest).
StartsAt(v, part) ==
    /\ bundle = NoBundle /\ ingest.step \in {"idle", "done"}
    /\ bundle' = [of |-> v, part |-> part]
    /\ IF VERTICAL_TEMPLATES[v].knowledge > 0
       THEN base' = TRUE /\ docs' = <<>>
       ELSE UNCHANGED <<base, docs>>
    /\ kept' = TRUE
    /\ ingest' = Idle_ /\ UNCHANGED <<textVars, intact>>

\* As if the seed were ingested in the background.
StartUnawaited(v) == StartsAt(v, 2)

\* The seed is ingested before anything else; without one the agent comes first.
StartBundle(v) == StartsAt(v, IF VERTICAL_TEMPLATES[v].knowledge > 0 THEN 1 ELSE 2)

\* The agent, with the base; the pipeline with its stages; a flow; the vertical.
BundlePart ==
    /\ bundle.part > 1 /\ bundle.part <= Parts(bundle.of)
    /\ bundle' = [bundle EXCEPT !.part = @ + 1]
    /\ UNCHANGED <<textVars, base, docs, ingest, intact, kept>>

BundleThrows ==
    /\ bundle.part > 1 /\ bundle.part <= Parts(bundle.of)
    /\ bundle' = NoBundle
    /\ UNCHANGED <<textVars, base, docs, ingest, intact, kept>>

\* Applied: the client may choose another vertical.
BundleApplied ==
    /\ bundle # NoBundle /\ bundle.part > Parts(bundle.of)
    /\ bundle' = NoBundle
    /\ UNCHANGED <<textVars, base, docs, ingest, intact, kept>>

KnowNext ==
    \/ StartIngest \/ Cut \/ StoreRow \/ StoreVector \/ EndIngest \/ IngestThrows
    \/ CreateBase \/ RemoveBase
    \/ \E d \in DOMAIN docs : RemoveDocument(d)
    \/ \E v \in Vertical : StartBundle(v)
    \/ BundlePart \/ BundleThrows \/ BundleApplied

KnowSpec == KnowInit /\ [][KnowNext]_knowVars

-----------------------------------------------------------------------------

AllRetrievable ==
    \A at \in 0 .. len - 1 :
        \E d \in Retrievable : docs[d].from <= at /\ at < docs[d].to

(* When ingest has answered, the assistant can retrieve all of the         *)
(* document: the chunks that were stored with a vector leave no gap in its *)
(* text, wherever its sentences end, unless rows have been removed         *)
(* (RagService.chunk, ingest and retrieve).                                *)
IngestComplete == ingest.step = "done" /\ intact => AllRetrievable

(* The agent of a starter bundle never answers from a part of the seed     *)
(* document: when apply creates it, and as long as nobody removes rows,    *)
(* the whole seed is retrievable, if there is one and the deployment has   *)
(* an embeddings client; whatever an earlier attempt left behind           *)
(* (TemplateService.apply).                                                *)
BundleBacked ==
    bundle.part > 1 /\ embeds /\ kept /\ VERTICAL_TEMPLATES[bundle.of].knowledge > 0
        => base /\ AllRetrievable
=============================================================================
