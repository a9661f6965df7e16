------------------------------ MODULE Contacts ------------------------------
(***************************************************************************)
(* The tags of a client's contacts and who writes them: the CSV import     *)
(* (contact/contact.service.ts), the tag and update nodes of flows         *)
(* (flow/flow.executor.ts), and the webhook that creates a contact on its  *)
(* first message (webhook/webhook.service.ts).                             *)
(*                                                                         *)
(* Import and flows read the tags and write the whole list back, so each   *)
(* undoes what another wrote in between.                                   *)
(***************************************************************************)
EXTENDS Integers, Sequences, FiniteSets

CONSTANTS Phone, Tag,
          NoPhone,    \* the phone of a row that has none
          Writer,     \* flow runs and imports at the same time
          Sheet,      \* what parseCsv returns: sequences of [phone, tags]
          MaxRuns     \* bound: imports and flow nodes begun

ASSUME ContactsAssumption ==
    /\ NoPhone \notin Phone
    /\ Sheet \subseteq Seq([phone : Phone \cup {NoPhone}, tags : SUBSET Tag])

VARIABLES
    known,    \* phones with a contact
    tags,     \* the tags of each contact
    job,      \* each writer: what it does, and what it has read
    result,   \* each writer: the counters of its import
    raced,    \* history: writers whose contact was written since they read it
    owed,     \* history: tags a contact has been given and must still have
    runs

contactVars == <<known, tags, job, result, raced, owed, runs>>

NoResult == [total |-> 0, created |-> 0, updated |-> 0, skipped |-> 0]

ContactsInit ==
    /\ known = {} /\ tags = [p \in Phone |-> {}]
    /\ job = [w \in Writer |-> <<>>]
    /\ result = [w \in Writer |-> NoResult]
    /\ raced = {}
    /\ owed = [p \in Phone |-> {}]
    /\ runs = 0

Doing(w, s) == job[w] # <<>> /\ job[w].step = s
JobDone(w)  == job' = [job EXCEPT ![w] = <<>>]

StartJob(w, j) ==
    /\ job[w] = <<>> /\ runs < MaxRuns
    /\ runs' = runs + 1
    /\ job' = [job EXCEPT ![w] = j]
    /\ raced' = raced \ {w}

\* A contact's list of tags is replaced by new, which adds and removes tags;
\* what the writer could not have seen is not asked of it.
WriteTags(w, p, new, added, removed) ==
    LET kept == IF w \in raced THEN owed[p] \cap new ELSE owed[p]
    IN  /\ tags' = [tags EXCEPT ![p] = new]
        /\ owed' = [owed EXCEPT ![p] = (kept \cup added) \ removed]
        /\ raced' = raced \cup {v \in Writer \ {w} : Doing(v, "write") /\ job[v].phone = p}

-----------------------------------------------------------------------------
(* importCsv. *)

StartImport(w, sheet) ==
    /\ StartJob(w, [step |-> "row", rows |-> sheet])
    /\ result' = [result EXCEPT ![w] = [NoResult EXCEPT !.total = Len(sheet)]]
    /\ UNCHANGED <<known, tags, owed>>

Row(w) == Head(job[w].rows)

NextRow(w, counter) ==
    /\ job' = [job EXCEPT ![w] = [step |-> "row", rows |-> Tail(job[w].rows)]]
    /\ result' = [result EXCEPT ![w][counter] = @ + 1]

\* A row without a phone is skipped; otherwise the contact is looked up.
FindRow(w) ==
    /\ Doing(w, "row") /\ job[w].rows # <<>>
    /\ IF Row(w).phone = NoPhone
       THEN NextRow(w, "skipped") /\ UNCHANGED raced
       ELSE /\ job' = [job EXCEPT ![w] =
                  [step |-> "write", rows |-> job[w].rows, phone |-> Row(w).phone,
                   found |-> Row(w).phone \in known, seen |-> tags[Row(w).phone]]]
            /\ raced' = raced \ {w}
            /\ UNCHANGED result
    /\ UNCHANGED <<known, tags, owed, runs>>

MergeReplacing(seen, new) == new
Merge(seen, new) == seen \cup new

\* The tags of the row are merged with those that were read; a row without
\* tags leaves them alone.
UpdateRow(w) ==
    LET p == Row(w).phone
    IN  /\ Doing(w, "write") /\ "found" \in DOMAIN job[w] /\ job[w].found
        /\ NextRow(w, "updated")
        /\ IF Row(w).tags = {}
           THEN UNCHANGED <<tags, owed, raced>>
           ELSE WriteTags(w, p, Merge(job[w].seen, Row(w).tags), Row(w).tags, {})
        /\ UNCHANGED <<known, runs>>

\* The insert fails when a webhook or another import was faster.
CreateRow(w) ==
    LET p == Row(w).phone
    IN  /\ Doing(w, "write") /\ "found" \in DOMAIN job[w] /\ ~job[w].found
        /\ IF p \in known
           THEN NextRow(w, "skipped") /\ UNCHANGED <<known, tags, owed, raced>>
           ELSE /\ known' = known \cup {p}
                /\ NextRow(w, "created")
                /\ WriteTags(w, p, Row(w).tags, Row(w).tags, {})
        /\ UNCHANGED runs

\* A query of a row throws: the row is skipped, the import goes on.
SkipRow(w) ==
    /\ Doing(w, "write") /\ "found" \in DOMAIN job[w]
    /\ NextRow(w, "skipped")
    /\ UNCHANGED <<known, tags, owed, raced, runs>>

EndImport(w) ==
    /\ Doing(w, "row") /\ job[w].rows = <<>>
    /\ JobDone(w)
    /\ UNCHANGED <<known, tags, result, raced, owed, runs>>

-----------------------------------------------------------------------------
(* Nodes of a flow. *)

\* ADD_TAG writes only what is missing; UPDATE_CONTACT does not touch tags.
AddTag(w, p, t) ==
    /\ p \in known /\ t \notin tags[p]
    /\ StartJob(w, [step |-> "write", phone |-> p, new |-> tags[p] \cup {t},
                    added |-> {t}, removed |-> {}])
    /\ UNCHANGED <<known, tags, result, owed>>

RemoveTag(w, p, t) ==
    /\ p \in known
    /\ StartJob(w, [step |-> "write", phone |-> p, new |-> tags[p] \ {t},
                    added |-> {}, removed |-> {t}])
    /\ UNCHANGED <<known, tags, result, owed>>

\* The update; if it throws, the node logs it and the flow goes on.
SetTags(w) ==
    LET j == job[w]
    IN  /\ Doing(w, "write") /\ "new" \in DOMAIN j
        /\ \/ WriteTags(w, j.phone, j.new, j.added, j.removed)
           \/ UNCHANGED <<tags, owed, raced>>
        /\ JobDone(w)
        /\ UNCHANGED <<known, result, runs>>

\* ingestInbound upserts the contact of a message; it never writes tags.
UpsertFromWebhook(p) ==
    /\ p \notin known
    /\ known' = known \cup {p}
    /\ UNCHANGED <<tags, job, result, raced, owed, runs>>

ContactsNext ==
    \/ \E w \in Writer :
          \/ FindRow(w) \/ UpdateRow(w) \/ CreateRow(w) \/ SkipRow(w) \/ EndImport(w)
          \/ SetTags(w)
          \/ \E sheet \in Sheet : StartImport(w, sheet)
          \/ \E p \in Phone, t \in Tag : AddTag(w, p, t) \/ RemoveTag(w, p, t)
    \/ \E p \in Phone : UpsertFromWebhook(p)

ContactsSpec == ContactsInit /\ [][ContactsNext]_contactVars

-----------------------------------------------------------------------------
(* Properties. *)

\* A tag that an import or a flow gave a contact stays until someone removes
\* it, but for writers that overlap: no writer drops what it could have read.
TagsKept == \A p \in Phone : owed[p] \subseteq tags[p]
=============================================================================
