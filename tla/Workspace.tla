----------------------------- MODULE Workspace ------------------------------
(***************************************************************************)
(* The services around the message path, side by side: an agency's plan,   *)
(* quota and rows, its subscription, contacts, deals, documents, message   *)
(* templates, integrations and numbers, and pages of the console.          *)
(*                                                                         *)
(* They run in one process and keep no state in common but the agency's    *)
(* plan, which Capacity shares with PlanQuota; a behaviour is therefore    *)
(* one of a single part, chosen at the start, with the others at rest.     *)
(***************************************************************************)
EXTENDS PlanQuota, Capacity, Subscription, Contacts, Csv, Deals, Knowledge,
        Integrations, Templates, InboxPage, FlowEditor, Signup, Receipts, RateLimits

VARIABLE part    \* the part this behaviour exercises

workspaceVars ==
    <<part, quotaVars, capVars, subVars, contactVars, csvVars, dealVars, knowVars,
      linkVars, metaVars, pageVars, editVars, signupVars,
      receiptVars, rateVars>>

WorkspaceParts ==
    {"quota", "capacity", "subscription", "contacts", "csv", "deals",
     "knowledge", "integrations", "templates", "inbox", "editor", "signup",
     "receipts", "ratelimits"}

\* Parts at rest start in one state, whichever choices their Init leaves.
Rests(p, state, first) == part \in p \/ state = first

FirstText ==
    LET t == CHOOSE t \in Table : TRUE IN <<t, CHOOSE x \in Texts(t) : TRUE>>
FirstDocument == <<FALSE, CHOOSE n \in Length : TRUE, {}>>

WorkspaceInit ==
    /\ CsvInit       /\ part \in WorkspaceParts
    /\ Rests({"csv"}, <<table_, text>>, FirstText)
    /\ Init          /\ Rests({"quota", "capacity"}, plan, CHOOSE p \in Plan : TRUE)
    /\ CapInit       /\ Rests({"capacity"}, table, "client")
    /\ SubInit
    /\ ContactsInit
    /\ DealsInit
    /\ KnowInit      /\ Rests({"knowledge"}, <<embeds, len, breaks>>, FirstDocument)
    /\ LinkInit      /\ Rests({"integrations"}, kind, "TALLY")
    /\ MetaInit
    /\ PageInit      /\ Rests({"inbox"}, scope, CHOOSE s \in Scopes : TRUE)
    /\ EditInit
    /\ SignupInit
    /\ ReceiptsInit
    /\ RateInit

WorkspaceNext ==
    \/ /\ part = "quota" /\ Next
       /\ UNCHANGED <<part, capVars, subVars, contactVars, csvVars, dealVars, knowVars,
                     linkVars, metaVars, pageVars, editVars, signupVars, receiptVars, rateVars>>
    \/ /\ part = "capacity" /\ CapNext
       /\ UNCHANGED <<part, subVars, contactVars, csvVars, dealVars, knowVars, linkVars,
                     metaVars, pageVars, editVars, signupVars, receiptVars, rateVars>>
    \/ /\ part = "subscription" /\ SubNext
       /\ UNCHANGED <<part, quotaVars, capVars, contactVars, csvVars, dealVars,
                     knowVars, linkVars, metaVars, pageVars, editVars, signupVars, receiptVars,
                     rateVars>>
    \/ /\ part = "contacts" /\ ContactsNext
       /\ UNCHANGED <<part, quotaVars, capVars, subVars, csvVars, dealVars, knowVars,
                     linkVars, metaVars, pageVars, editVars, signupVars, receiptVars, rateVars>>
    \/ /\ part = "csv" /\ CsvNext
       /\ UNCHANGED <<part, quotaVars, capVars, subVars, contactVars, dealVars,
                     knowVars, linkVars, metaVars, pageVars, editVars, signupVars, receiptVars,
                     rateVars>>
    \/ /\ part = "deals" /\ DealsNext
       /\ UNCHANGED <<part, quotaVars, capVars, subVars, contactVars, csvVars, knowVars,
                     linkVars, metaVars, pageVars, editVars, signupVars, receiptVars, rateVars>>
    \/ /\ part = "knowledge" /\ KnowNext
       /\ UNCHANGED <<part, quotaVars, capVars, subVars, contactVars, csvVars, dealVars,
                     linkVars, metaVars, pageVars, editVars, signupVars, receiptVars, rateVars>>
    \/ /\ part = "integrations" /\ LinkNext
       /\ UNCHANGED <<part, quotaVars, capVars, subVars, contactVars, csvVars, dealVars,
                     knowVars, metaVars, pageVars, editVars, signupVars, receiptVars, rateVars>>
    \/ /\ part = "templates" /\ MetaNext
       /\ UNCHANGED <<part, quotaVars, capVars, subVars, contactVars, csvVars, dealVars,
                     knowVars, linkVars, pageVars, editVars, signupVars, receiptVars, rateVars>>
    \/ /\ part = "inbox" /\ PageNext
       /\ UNCHANGED <<part, quotaVars, capVars, subVars, contactVars, csvVars, dealVars,
                     knowVars, linkVars, metaVars, editVars, signupVars, receiptVars, rateVars>>
    \/ /\ part = "editor" /\ EditNext
       /\ UNCHANGED <<part, quotaVars, capVars, subVars, contactVars, csvVars, dealVars,
                     knowVars, linkVars, metaVars, pageVars, signupVars, receiptVars, rateVars>>
    \/ /\ part = "signup" /\ SignupNext
       /\ UNCHANGED <<part, quotaVars, capVars, subVars, contactVars, csvVars, dealVars,
                     knowVars, linkVars, metaVars, pageVars, editVars, receiptVars, rateVars>>
    \/ /\ part = "receipts" /\ ReceiptsNext
       /\ UNCHANGED <<part, quotaVars, capVars, subVars, contactVars, csvVars, dealVars,
                     knowVars, linkVars, metaVars, pageVars, editVars, signupVars, rateVars>>
    \/ /\ part = "ratelimits" /\ RateNext
       /\ UNCHANGED <<part, quotaVars, capVars, subVars, contactVars, csvVars, dealVars,
                     knowVars, linkVars, metaVars, pageVars, editVars, signupVars, receiptVars>>

WorkspaceSpec == WorkspaceInit /\ [][WorkspaceNext]_workspaceVars

=============================================================================
