----------------------------- MODULE FlowEditor -----------------------------
(***************************************************************************)
(* One flow edited in browser tabs (web/app/dashboard/flows/[id]/page.tsx) *)
(* and stored as a whole (flow/flow.service.ts).                           *)
(*                                                                         *)
(* A flow is the set of its nodes; edges follow their nodes.  The canvas   *)
(* is filled from the query's data, a save sends all of it, and a save     *)
(* neither waits for an earlier one nor refreshes the query.               *)
(***************************************************************************)
EXTENDS Integers, FiniteSets

CONSTANTS Tab,        \* browser tabs with the editor
          MaxNodes,   \* bound: nodes ever added
          MaxEdits,   \* bound: edits of a node
          MaxSaves    \* bound: saves ever sent

ASSUME FlowEditorAssumption == MaxNodes \in Nat /\ MaxEdits \in Nat /\ MaxSaves \in Nat

VARIABLES
    flow,      \* the stored nodes and how many saves made them
    added,     \* node ids given out
    editor,    \* Tab -> the page: its canvas, the version under it, its last save
    query,     \* Tab -> data of ['flow', id]
    answer,    \* Tab -> the running fetch: its step and its answer
    saves,     \* PATCH requests on their way
    posted,    \* saves sent so far
    saved,     \* history: nodes on a canvas that was saved
    deleted,   \* history: nodes taken off a canvas
    crossed    \* history: a save was sent from an outdated canvas

editVars == <<flow, added, editor, query, answer, saves, posted, saved, deleted, crossed>>

NoData == [loaded |-> FALSE, nodes |-> {}, version |-> 0]
NoAnswer == [at |-> "none", data |-> NoData]
Closed == [open |-> FALSE, nodes |-> {}, base |-> 0, last |-> 0]

EditInit ==
    /\ flow = NoData /\ added = 0
    /\ editor = [t \in Tab |-> Closed]
    /\ query = [t \in Tab |-> NoData] /\ answer = [t \in Tab |-> NoAnswer]
    /\ saves = {} /\ posted = 0 /\ saved = {} /\ deleted = {} /\ crossed = FALSE

-----------------------------------------------------------------------------
(* The page. *)

Filled(data) == [open |-> TRUE, nodes |-> data.nodes, base |-> data.version, last |-> 0]
AskFlow(t) == answer' = [answer EXCEPT ![t] = [at |-> "asked", data |-> NoData]]

\* Cached data fills the canvas at once; what is stale is fetched behind it.
OpenEditor(t) ==
    /\ ~editor[t].open
    /\ editor' = [editor EXCEPT ![t] = Filled(query[t])]
    /\ AskFlow(t) \/ (query[t].loaded /\ UNCHANGED answer)
    /\ UNCHANGED <<flow, added, query, saves, posted, saved, deleted, crossed>>

\* The network comes back: stale data of an open page is fetched again.
Refetch(t) ==
    /\ editor[t].open /\ query[t].loaded /\ answer[t] = NoAnswer
    /\ AskFlow(t)
    /\ UNCHANGED <<flow, added, editor, query, saves, posted, saved, deleted, crossed>>

\* FlowService.get.
GetFlow(t) ==
    /\ answer[t].at = "asked"
    /\ answer' = [answer EXCEPT ![t] = [at |-> "answered", data |-> [flow EXCEPT !.loaded = TRUE]]]
    /\ UNCHANGED <<flow, added, editor, query, saves, posted, saved, deleted, crossed>>

\* New data replaces the canvas, edits and all; equal data does not.
DataArrives(t) ==
    /\ answer[t].at = "answered"
    /\ query' = [query EXCEPT ![t] = answer[t].data]
    /\ editor' = IF editor[t].open /\ query[t] # answer[t].data
                 THEN [editor EXCEPT ![t] = Filled(answer[t].data)] ELSE editor
    /\ answer' = [answer EXCEPT ![t] = NoAnswer]
    /\ UNCHANGED <<flow, added, saves, posted, saved, deleted, crossed>>

FlowFetchFails(t) ==
    /\ answer[t] # NoAnswer
    /\ answer' = [answer EXCEPT ![t] = NoAnswer]
    /\ UNCHANGED <<flow, added, editor, query, saves, posted, saved, deleted, crossed>>

\* Five minutes after the page was left the data is collected.
ForgetFlow(t) ==
    /\ ~editor[t].open /\ query[t].loaded
    /\ query' = [query EXCEPT ![t] = NoData]
    /\ UNCHANGED <<flow, added, editor, answer, saves, posted, saved, deleted, crossed>>

\* The canvas is there once something was loaded.
Editable(t) == editor[t].open /\ query[t].loaded

AddNode(t) ==
    /\ Editable(t) /\ added < MaxNodes
    /\ added' = added + 1
    /\ editor' = [editor EXCEPT ![t].nodes = @ \cup {added + 1}]
    /\ UNCHANGED <<flow, query, answer, saves, posted, saved, deleted, crossed>>

\* The inspector's fields: a node with other data counts as another node.
EditData(t, n) ==
    /\ Editable(t) /\ n \in editor[t].nodes /\ added < MaxNodes + MaxEdits
    /\ added' = added + 1
    /\ editor' = [editor EXCEPT ![t].nodes = (@ \ {n}) \cup {added + 1}]
    /\ deleted' = deleted \cup {n}
    /\ UNCHANGED <<flow, query, answer, saves, posted, saved, crossed>>

\* The inspector's delete takes the node's edges along.
DeleteNode(t, n) ==
    /\ Editable(t) /\ n \in editor[t].nodes
    /\ editor' = [editor EXCEPT ![t].nodes = @ \ {n}]
    /\ deleted' = deleted \cup {n}
    /\ UNCHANGED <<flow, added, query, answer, saves, posted, saved, crossed>>

\* As if a save sent the loaded data instead of the canvas.
PersistData(t) ==
    /\ Editable(t) /\ posted < MaxSaves
    /\ saves' = saves \cup {[id |-> posted + 1, tab |-> t, nodes |-> query[t].nodes]}
    /\ posted' = posted + 1
    /\ saved' = saved \cup editor[t].nodes
    /\ crossed' = (crossed \/ editor[t].base # flow.version \/ saves # {})
    /\ editor' = [editor EXCEPT ![t].last = posted + 1]
    /\ UNCHANGED <<flow, added, query, answer, deleted>>

\* persist: the whole canvas, whatever was stored since it was filled.
Persist(t) ==
    /\ Editable(t) /\ posted < MaxSaves
    /\ saves' = saves \cup {[id |-> posted + 1, tab |-> t, nodes |-> editor[t].nodes]}
    /\ posted' = posted + 1
    /\ saved' = saved \cup editor[t].nodes
    /\ crossed' = (crossed \/ editor[t].base # flow.version \/ saves # {})
    /\ editor' = [editor EXCEPT ![t].last = posted + 1]
    /\ UNCHANGED <<flow, added, query, answer, deleted>>

\* Leaving the page drops the canvas, with the edits that were not saved.
LeaveEditor(t) ==
    /\ editor[t].open
    /\ editor' = [editor EXCEPT ![t] = Closed]
    /\ UNCHANGED <<flow, added, query, answer, saves, posted, saved, deleted, crossed>>

-----------------------------------------------------------------------------
(* FlowService.update; requests may overtake each other. *)

UpdateFlow(save) ==
    /\ saves' = saves \ {save}
    /\ flow' = [flow EXCEPT !.nodes = save.nodes, !.version = @ + 1]
    /\ editor' = IF editor[save.tab].last = save.id
                 THEN [editor EXCEPT ![save.tab].base = flow.version + 1] ELSE editor
    /\ UNCHANGED <<added, query, answer, posted, saved, deleted, crossed>>

\* The request is lost or refused: nothing of it is stored.
UpdateFails(save) ==
    /\ saves' = saves \ {save}
    /\ saved' = flow.nodes
    /\ UNCHANGED <<flow, added, editor, query, answer, posted, deleted, crossed>>

EditNext ==
    \/ \E t \in Tab :
          \/ OpenEditor(t) \/ Refetch(t) \/ GetFlow(t) \/ DataArrives(t) \/ FlowFetchFails(t)
          \/ ForgetFlow(t) \/ AddNode(t) \/ Persist(t) \/ LeaveEditor(t)
          \/ \E n \in 1 .. added : EditData(t, n) \/ DeleteNode(t, n)
    \/ \E save \in saves : UpdateFlow(save) \/ UpdateFails(save)

EditSpec == EditInit /\ [][EditNext]_editVars

-----------------------------------------------------------------------------

(* As long as no save was sent from an outdated canvas - one filled from   *)
(* data older than the stored flow, or while another save was on its way - *)
(* every node that was on a saved canvas, and that nobody has deleted or   *)
(* edited since, is in the stored flow once the saves have arrived         *)
(* (persist, FlowService.update, the effect that fills the canvas).        *)
SavedNodesKept ==
    saves = {} /\ ~crossed => saved \ deleted \subseteq flow.nodes

=============================================================================
