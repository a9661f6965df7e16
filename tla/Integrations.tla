---------------------------- MODULE Integrations ----------------------------
(***************************************************************************)
(* One client's connection to one external service                         *)
(* (integrations/integrations.service.ts): the Integration row, the OAuth  *)
(* flows that fill it, and the calls that use it and, for Google, refresh  *)
(* its access token (google-calendar.service.ts, shopify.service.ts).      *)
(*                                                                         *)
(* A grant is what a consent or an API key yields, numbered in the order   *)
(* they are given.  A row is the grant whose credentials it holds and      *)
(* whether their access token has a known, distant expiry.                 *)
(***************************************************************************)
EXTENDS Integers, Sequences

CONSTANTS Owner,       \* browsers and callers of this client
          MaxGrants,  \* bound: consents and API keys given
          MaxStates   \* bound: OAuth flows started

ASSUME IntegrationsAssumption == MaxGrants \in Nat /\ MaxStates \in Nat

Unlinked == [grant |-> 0, fresh |-> FALSE]

VARIABLES
    kind,     \* IntegrationKind
    store,    \* the row of (clientId, kind), Unlinked when there is none
    signed,   \* OAuth states handed out: TRUE until they expire
    grants,   \* grants given: the state they answer (0: an API key), spent or not
    link,     \* each user's request: its step and the credentials it holds
    latest,   \* history: grant of the last connection, 0 after a disconnect
    overlap   \* history: the connection changed under a token refresh

linkVars == <<kind, store, signed, grants, link, latest, overlap>>

Rest == [at |-> "idle", creds |-> Unlinked]

LinkInit ==
    /\ kind \in {"SHOPIFY", "GOOGLE_CALENDAR", "ZOHO", "TALLY"}
    /\ store = Unlinked /\ latest = 0
    /\ signed = <<>> /\ grants = <<>>
    /\ link = [u \in Owner |-> Rest]
    /\ overlap = FALSE

LinkAt(u, step) == link[u].at = step
LinkGoto(u, step, creds) == link' = [link EXCEPT ![u] = [at |-> step, creds |-> creds]]
LinkEnd(u) == LinkGoto(u, "idle", Unlinked)

Refreshing == \E u \in Owner : link[u].at \in {"refresh", "rewrite"}

-----------------------------------------------------------------------------
(* Connecting and disconnecting. *)

\* startOauth: Tally has no OAuth flow.
StartOauth ==
    /\ kind # "TALLY" /\ Len(signed) < MaxStates
    /\ signed' = Append(signed, TRUE)
    /\ UNCHANGED <<kind, store, grants, link, latest, overlap>>

\* The owner consents at the provider, which sends a code back with the state.
Consent(s) ==
    /\ Len(grants) < MaxGrants
    /\ grants' = Append(grants, [state |-> s, spent |-> FALSE])
    /\ UNCHANGED <<kind, store, signed, link, latest, overlap>>

\* Ten minutes pass before the provider calls back.
ExpireState(s) ==
    /\ signed[s]
    /\ signed' = [signed EXCEPT ![s] = FALSE]
    /\ UNCHANGED <<kind, store, grants, link, latest, overlap>>

\* The callback's redirect reaches the API; verifyState.
Callback(u, g) ==
    /\ LinkAt(u, "idle") /\ grants[g].state # 0
    /\ signed[grants[g].state]
    /\ LinkGoto(u, "exchange", [grant |-> g, fresh |-> FALSE])
    /\ UNCHANGED <<kind, store, signed, grants, latest, overlap>>

\* The provider trades a code once; later attempts throw.
TradeCode(u) ==
    LET g == link[u].creds.grant IN
    /\ LinkAt(u, "exchange")
    /\ IF grants[g].spent THEN LinkEnd(u) ELSE LinkGoto(u, "connect", link[u].creds)
    /\ grants' = [grants EXCEPT ![g].spent = TRUE]
    /\ UNCHANGED <<kind, store, signed, latest, overlap>>

\* connectApiKey.
ConnectApiKey(u) ==
    /\ kind = "TALLY" /\ LinkAt(u, "idle") /\ Len(grants) < MaxGrants
    /\ grants' = Append(grants, [state |-> 0, spent |-> TRUE])
    /\ LinkGoto(u, "connect", [grant |-> Len(grants) + 1, fresh |-> FALSE])
    /\ UNCHANGED <<kind, store, signed, latest, overlap>>

\* upsertIntegration.
UpsertIntegration(u) ==
    /\ LinkAt(u, "connect")
    /\ store' = link[u].creds /\ latest' = link[u].creds.grant
    /\ overlap' = (overlap \/ Refreshing)
    /\ LinkEnd(u)
    /\ UNCHANGED <<kind, signed, grants>>

Disconnect ==
    /\ store' = Unlinked /\ latest' = 0
    /\ UNCHANGED <<kind, signed, grants, link, overlap>>

-----------------------------------------------------------------------------
(* Using the connection. *)

\* getCredentials; Zoho and Tally have no caller.  A Google token about to
\* expire is refreshed, or used as it is when the grant had no refresh token.
GetCredentials(u) ==
    /\ kind \in {"SHOPIFY", "GOOGLE_CALENDAR"}
    /\ LinkAt(u, "idle") /\ store # Unlinked
    /\ \/ LinkGoto(u, "call", store)
       \/ /\ kind = "GOOGLE_CALENDAR" /\ ~store.fresh
          /\ LinkGoto(u, "refresh", store)
    /\ UNCHANGED <<kind, store, signed, grants, latest, overlap>>

\* Google answers the refresh token of the row that was read.
RefreshToken(u) ==
    /\ LinkAt(u, "refresh")
    /\ LinkGoto(u, "rewrite", [link[u].creds EXCEPT !.fresh = TRUE])
    /\ UNCHANGED <<kind, store, signed, grants, latest, overlap>>

\* As if the refreshed credentials were upserted.
UpsertCredentials(u) ==
    /\ LinkAt(u, "rewrite")
    /\ store' = link[u].creds
    /\ LinkGoto(u, "call", link[u].creds)
    /\ UNCHANGED <<kind, signed, grants, latest, overlap>>

\* update by (clientId, provider): whatever row is there now, or it throws.
RewriteCredentials(u) ==
    /\ LinkAt(u, "rewrite")
    /\ IF store = Unlinked
       THEN LinkEnd(u) /\ UNCHANGED store
       ELSE store' = link[u].creds /\ LinkGoto(u, "call", link[u].creds)
    /\ UNCHANGED <<kind, signed, grants, latest, overlap>>

\* An hour passes: the stored access token is about to expire.
TokenExpires ==
    /\ store.fresh
    /\ store' = [store EXCEPT !.fresh = FALSE]
    /\ UNCHANGED <<kind, signed, grants, link, latest, overlap>>

\* The provider does the work; touchSync then throws when the row is gone.
CallProvider(u) ==
    /\ LinkAt(u, "call") /\ LinkGoto(u, "touch", Unlinked)
    /\ UNCHANGED <<kind, store, signed, grants, latest, overlap>>

TouchSync(u) ==
    /\ LinkAt(u, "touch") /\ LinkEnd(u)
    /\ UNCHANGED <<kind, store, signed, grants, latest, overlap>>

LinkThrows(u) ==
    /\ ~LinkAt(u, "idle") /\ LinkEnd(u)
    /\ UNCHANGED <<kind, store, signed, grants, latest, overlap>>

LinkStep(u) ==
    \/ TradeCode(u) \/ ConnectApiKey(u) \/ UpsertIntegration(u)
    \/ GetCredentials(u) \/ RefreshToken(u) \/ RewriteCredentials(u)
    \/ CallProvider(u) \/ TouchSync(u) \/ LinkThrows(u)
    \/ \E g \in DOMAIN grants : Callback(u, g)

LinkNext ==
    \/ StartOauth \/ Disconnect \/ TokenExpires
    \/ \E s \in DOMAIN signed : Consent(s) \/ ExpireState(s)
    \/ \E u \in Owner : LinkStep(u)

LinkSpec == LinkInit /\ [][LinkNext]_linkVars

-----------------------------------------------------------------------------

(* A disconnected integration stays disconnected until someone connects it *)
(* again, whatever refresh was on its way; and a row holds the credentials *)
(* of the last connection unless one was made while a refresh that had     *)
(* read the previous row was waiting for Google (finishOauth, disconnect,  *)
(* getAccessToken).                                                        *)
CredentialsAreConnected ==
    /\ store = Unlinked <=> latest = 0
    /\ ~overlap => store.grant = latest

=============================================================================
