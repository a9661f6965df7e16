----------------------------- MODULE Templates ------------------------------
(***************************************************************************)
(* Message templates of a Meta Cloud number                                *)
(* (templates-meta/templates-meta.service.ts): what Meta holds, the local  *)
(* rows, submissions and the sync that copies Meta's list.                 *)
(*                                                                         *)
(* Meta is external: it takes a template under a free name only, reviews   *)
(* it, and lets the owner edit and delete it in its own manager.           *)
(***************************************************************************)
EXTENDS Integers, Sequences, FiniteSets

CONSTANTS Author,   \* requests to the service
          Title,    \* names (and languages) of templates
          Text,     \* texts typed into the form, among them NoText
          NoText,   \* an empty field
          Form,     \* filled-in forms: [header, body, footer, button, url]
          MaxIds    \* bound: templates Meta has ever held

ASSUME TemplatesAssumption ==
    /\ Form \subseteq [header : Text, body : Text, footer : Text, button : Text, url : Text]
    /\ NoText \in Text /\ MaxIds \in Nat

NoTemplate == [id |-> 0, body |-> <<>>, status |-> "none"]

VARIABLES
    meta,      \* Title -> the template Meta holds
    ids,       \* templates Meta has created so far
    local,     \* Title -> the WhatsappTemplate row
    submit,    \* Author -> its request: step, title, row to write, list to copy
    approved   \* history: (id, body) pairs Meta has approved

metaVars == <<meta, ids, local, submit, approved>>

NoSubmit == [at |-> "idle", title |-> {}, row |-> NoTemplate, list |-> [t \in Title |-> NoTemplate]]

MetaInit ==
    /\ meta = [t \in Title |-> NoTemplate] /\ ids = 0
    /\ local = [t \in Title |-> NoTemplate]
    /\ submit = [a \in Author |-> NoSubmit]
    /\ approved = {}

Verdicts == {"APPROVED", "REJECTED"}   \* a pause is a rejection here

-----------------------------------------------------------------------------
(* The editor (web/app/dashboard/templates-meta/page.tsx). *)

Submittable == {f \in Form : f.body # NoText}

\* The components of a form: the body, and whatever else was filled in.
Compose(f) ==
    LET Part(type, text) == IF text = NoText THEN <<>> ELSE <<[type |-> type, text |-> text]>>
        button == IF f.url = NoText THEN "QUICK_REPLY" ELSE "URL"
    IN  Part("HEADER", f.header) \o <<[type |-> "BODY", text |-> f.body]>>
        \o Part("FOOTER", f.footer) \o Part(button, f.button)

Body == {Compose(f) : f \in Submittable}

-----------------------------------------------------------------------------
(* Meta. *)

Holds(t, template) ==
    /\ meta' = [meta EXCEPT ![t] = template]
    /\ approved' = IF template.status = "APPROVED"
                   THEN approved \cup {<<template.id, template.body>>} ELSE approved

Review(t) ==
    /\ meta[t].status \in {"PENDING", "APPROVED"}
    /\ \E v \in Verdicts : Holds(t, [meta[t] EXCEPT !.status = v])
    /\ UNCHANGED <<ids, local, submit>>

\* Edited in Meta's manager: reviewed again.
EditAtMeta(t, b) ==
    /\ meta[t] # NoTemplate
    /\ Holds(t, [meta[t] EXCEPT !.body = b, !.status = "PENDING"])
    /\ UNCHANGED <<ids, local, submit>>

DeleteAtMeta(t) ==
    /\ meta[t] # NoTemplate
    /\ Holds(t, NoTemplate)
    /\ UNCHANGED <<ids, local, submit>>

-----------------------------------------------------------------------------
(* TemplatesMetaService. *)

\* submit: Meta takes a free name, and its answer's status is the row's.
PostTaken(a, t, b) ==
    /\ submit[a] = NoSubmit /\ meta[t] = NoTemplate /\ ids < MaxIds
    /\ ids' = ids + 1
    /\ \E status \in {"PENDING", "APPROVED"} :
          LET template == [id |-> ids + 1, body |-> b, status |-> status] IN
          /\ Holds(t, template)
          /\ submit' = [submit EXCEPT ![a] =
                [at |-> "upsert", title |-> {t}, row |-> template, list |-> NoSubmit.list]]
    /\ UNCHANGED local

\* The answer is lost on the way: Meta holds what the row calls rejected.
AnswerLost(a) ==
    /\ submit[a].at = "upsert"
    /\ submit' = [submit EXCEPT ![a].row =
          [submit[a].row EXCEPT !.id = 0, !.status = "REJECTED"]]
    /\ UNCHANGED <<meta, ids, local, approved>>

\* As if a refused submission left the row's status as it was.
RefusedKeepsStatus(a, t, b) ==
    /\ submit[a] = NoSubmit
    /\ submit' = [submit EXCEPT ![a] =
          [at |-> "upsert", title |-> {t}, row |-> [local[t] EXCEPT !.body = b],
           list |-> NoSubmit.list]]
    /\ UNCHANGED <<meta, ids, local, approved>>

\* Meta refuses, a name in use for instance, or is not reached.
PostRefused(a, t, b) ==
    /\ submit[a] = NoSubmit
    /\ submit' = [submit EXCEPT ![a] =
          [at |-> "upsert", title |-> {t}, row |-> [id |-> 0, body |-> b, status |-> "REJECTED"],
           list |-> NoSubmit.list]]
    /\ UNCHANGED <<meta, ids, local, approved>>

\* The upsert overwrites whatever row the name has, an approved one included.
UpsertRow(a) ==
    /\ submit[a].at = "upsert"
    /\ \E t \in submit[a].title : local' = [local EXCEPT ![t] = submit[a].row]
    /\ submit' = [submit EXCEPT ![a] = NoSubmit]
    /\ UNCHANGED <<meta, ids, approved>>

\* syncFromMeta: the list is read once, in full here, ...
FetchList(a) ==
    /\ submit[a] = NoSubmit
    /\ submit' = [submit EXCEPT ![a] =
          [at |-> "copy", title |-> {t \in Title : meta[t] # NoTemplate},
           row |-> NoTemplate, list |-> meta]]
    /\ UNCHANGED <<meta, ids, local, approved>>

\* ... and copied row by row; a name Meta no longer lists keeps its row.
CopyRow(a, t) ==
    /\ submit[a].at = "copy" /\ t \in submit[a].title
    /\ local' = [local EXCEPT ![t] = submit[a].list[t]]
    /\ submit' = [submit EXCEPT ![a].title = @ \ {t}]
    /\ UNCHANGED <<meta, ids, approved>>

\* All rows copied, or a request that throws.
SubmitEnds(a) ==
    /\ submit[a] # NoSubmit
    /\ submit' = [submit EXCEPT ![a] = NoSubmit]
    /\ UNCHANGED <<meta, ids, local, approved>>

MetaNext ==
    \/ \E t \in Title : Review(t) \/ DeleteAtMeta(t) \/ \E b \in Body : EditAtMeta(t, b)
    \/ \E a \in Author :
          \/ UpsertRow(a) \/ AnswerLost(a) \/ FetchList(a) \/ SubmitEnds(a)
          \/ \E t \in Title : CopyRow(a, t)
          \/ \E t \in Title, b \in Body : PostTaken(a, t, b) \/ PostRefused(a, t, b)

MetaSpec == MetaInit /\ [][MetaNext]_metaVars

-----------------------------------------------------------------------------

(* A local row that says APPROVED carries the content and the id of a      *)
(* template Meta did approve, whatever failed, raced or was edited in      *)
(* Meta's manager (submit, syncFromMeta): what the UI offers for sending   *)
(* outside the service window has been through a review.                   *)
ApprovedAsSent ==
    \A t \in Title : local[t].status = "APPROVED" =>
        <<local[t].id, local[t].body>> \in approved

=============================================================================
