----------------------------- MODULE SpecLoader ------------------------------
(***************************************************************************)
(* swagger-ui-init.js: the page of the API documentation adds the keys the *)
(* user authorized with to the requests for the specification, shows them  *)
(* in its URL box and keeps them in localStorage, which all tabs share.    *)
(* Requests, timeouts and the user interleave.  Swagger UI itself and the  *)
(* network are external: what is here of them is what the script and its   *)
(* comments rely on.                                                       *)
(***************************************************************************)
EXTENDS Naturals, Sequences, Functions

Seqs == INSTANCE SequencesExt

CONSTANTS
    Tab,            \* tabs of the browser
    Scheme,         \* names of security schemes
    KindOf,         \* [Scheme -> "query" or "header" (as basic is) or "oauth2"]
    Credential,     \* keys, and user names with passwords
    Document,       \* URLs of specifications, without keys
    FirstStored,    \* possible first contents of localStorage
    Corrupt,        \* a content that is not JSON
    MaxSpecOps      \* bound on what the user does

Schemes(kinds) == {s \in Scheme : KindOf[s] \in kinds}

(* Authorizations: the schemes and what the user entered for them. *)
Auth == UNION {[S -> Credential] : S \in SUBSET Scheme}

ASSUME SpecLoaderAssumption ==
    /\ Document # {} /\ Corrupt \notin Auth
    /\ FirstStored \subseteq Auth \cup {Corrupt}

VARIABLES
    settings,       \* persistAuth and refetchWithAuth of SWAGGER_SETTINGS
    stored,         \* localStorage: an authorization or Corrupt
    tabs,           \* [Tab -> the page open in it]
    granted,        \* history: what the user authorized and did not log out
    crossed,        \* history: a page saved that did not know what was stored
    specOps         \* actions of the user so far

specVars == <<settings, stored, tabs, granted, crossed, specOps>>

NoAuth == <<>>

(* A URL: the document and its query parameters, one for each scheme. *)
Url(document, query) == [document |-> document, query |-> query]

(* A page: savedAuth; what Swagger UI has as authorized, its URL and       *)
(* whether it shows a specification; window.ui is defined; the actions are *)
(* hooked; requests in flight; specRequestsInFlight; timeouts, the first   *)
(* to run first.  History: an authorization changed before the hooks, or   *)
(* while requests and timeouts were pending.                               *)
Closed == [open |-> FALSE, savedAuth |-> NoAuth, shown |-> NoAuth,
           url |-> Url(CHOOSE d \in Document : TRUE, NoAuth), loaded |-> FALSE,
           ui |-> FALSE, hooked |-> FALSE, requests |-> <<>>,
           specRequestsInFlight |-> {}, timeouts |-> <<>>,
           early |-> FALSE, raced |-> FALSE]

(* merge of Immutable: the entries of f, and those of g at its other keys. *)
Merged(f, g) ==
    [x \in DOMAIN f \cup DOMAIN g |-> IF x \in DOMAIN f THEN f[x] ELSE g[x]]

(* The URL of applyAuth: the parameters of savedAuth are set.  Headers,    *)
(* which are set for one request only, are left out.                       *)
ApplyAuth(auth, url) ==
    [url EXCEPT !.query = Merged(Restrict(auth, DOMAIN auth \cap Schemes({"query"})), @)]

(* preauthorizeAll knows no OAuth2. *)
Known(auth) == Restrict(auth, DOMAIN auth \ Schemes({"oauth2"}))

(* deauthUrl *)
DeauthUrl(schemes, url) == [url EXCEPT !.query = Restrict(@, DOMAIN @ \ schemes)]

Timeout(kind, url) == [kind |-> kind, url |-> url]

(* specActions.download of Swagger UI, which calls the interceptor of      *)
(* requests.  A URL that gets keys is shown at once, and remembered.       *)
Download(p, url) ==
    LET new == IF settings.refetchWithAuth THEN ApplyAuth(p.savedAuth, url) ELSE url
        q   == [p EXCEPT !.requests = Append(@, [asked |-> url, url |-> new,
                                               auth |-> p.savedAuth]),
                  !.raced = @ \/ \E i \in DOMAIN p.requests : p.requests[i].url = new]
    IN  IF new = url THEN q
        ELSE [q EXCEPT !.specRequestsInFlight = @ \cup {new},
                       !.url = IF p.ui THEN new ELSE @,
                       !.timeouts = IF p.ui THEN @ ELSE Append(@, Timeout("update", new))]

SpecInit ==
    /\ settings \in [persistAuth : BOOLEAN, refetchWithAuth : BOOLEAN]
    /\ stored \in FirstStored
    /\ tabs = [t \in Tab |-> Closed]
    /\ granted = IF stored = Corrupt THEN NoAuth ELSE stored
    /\ crossed = FALSE
    /\ specOps = 0

Act == specOps < MaxSpecOps /\ specOps' = specOps + 1

(* initSwaggerUi, and the construction of window.ui, during which the      *)
(* first specification is asked for: swaggerUiConfig.url with the keys, or *)
(* as it is if the settings name the documents in urls.                    *)
OpenPage(t, d, plain) ==
    LET saved == IF settings.persistAuth /\ stored # Corrupt THEN stored ELSE NoAuth
        url   == IF settings.refetchWithAuth /\ ~plain
                 THEN ApplyAuth(saved, Url(d, NoAuth)) ELSE Url(d, NoAuth)
        page  == [Closed EXCEPT !.open = TRUE, !.savedAuth = saved, !.url = url]
    IN  /\ ~tabs[t].open
        /\ Act
        /\ tabs' = [tabs EXCEPT ![t] = [Download(page, url) EXCEPT !.ui = TRUE]]
        /\ stored' = IF settings.persistAuth /\ stored = Corrupt THEN NoAuth ELSE stored
        /\ UNCHANGED <<settings, granted, crossed>>

ClosePage(t) ==
    /\ tabs[t].open
    /\ tabs' = [tabs EXCEPT ![t] = Closed]
    /\ UNCHANGED <<settings, stored, granted, crossed, specOps>>

(* The user enters the URL of a document. *)
LoadDocument(t, d) ==
    /\ tabs[t].loaded
    /\ Act
    /\ tabs' = [tabs EXCEPT ![t] = Download([@ EXCEPT !.url = Url(d, NoAuth)], Url(d, NoAuth))]
    /\ UNCHANGED <<settings, stored, granted, crossed>>

(* The interceptor of responses, then Swagger UI: a specification makes it *)
(* show the URL it asked for and call onComplete in a timeout.  A request  *)
(* that fails for want of a response reaches no interceptor.               *)
Respond(t, i, result) ==
    LET p == tabs[t]
        r == p.requests[i]
        remembered == r.url \in p.specRequestsInFlight
        left == [p EXCEPT !.requests = Seqs!RemoveAt(@, i)]
        told == [left EXCEPT !.specRequestsInFlight = @ \ {r.url},
                             !.timeouts = IF remembered /\ result = "ok"
                                          THEN Append(@, Timeout("check", r.url)) ELSE @]
    IN  tabs' = [tabs EXCEPT ![t] =
            CASE result = "ok" -> [told EXCEPT !.url = r.asked, !.loaded = TRUE,
                                       !.timeouts = Append(@, Timeout("complete", r.url))]
              [] result = "error" -> told
              [] result = "none" -> left]

Response(t, i, result) ==
    /\ Respond(t, i, result)
    /\ UNCHANGED <<settings, stored, granted, crossed, specOps>>

(* Mutant: the first completion only hooks. *)
CompletedLate(p) ==
    IF settings.persistAuth \/ settings.refetchWithAuth
    THEN [p EXCEPT !.hooked = TRUE,
                   !.shown = IF settings.persistAuth /\ p.hooked THEN Merged(p.savedAuth, @) ELSE @]
    ELSE p

(* onComplete: preauthorizeAll, then the hooks. *)
Completed(p) ==
    IF settings.persistAuth \/ settings.refetchWithAuth
    THEN [p EXCEPT !.hooked = TRUE,
                   !.shown = IF settings.persistAuth THEN Merged(Known(p.savedAuth), @) ELSE @]
    ELSE p

(* The next timeout runs. *)
RunTimeout(t) ==
    LET p == [tabs[t] EXCEPT !.timeouts = Tail(@)]
        c == Head(tabs[t].timeouts)
    IN  /\ tabs[t].timeouts # <<>>
        /\ tabs' = [tabs EXCEPT ![t] =
               CASE c.kind = "complete" -> Completed(p)
                 [] c.kind \in {"update", "check"} -> [p EXCEPT !.url = c.url]]
        /\ UNCHANGED <<settings, stored, granted, crossed, specOps>>

(* What the hooked actions do after savedAuth became auth and the URL url. *)
Refetched(p, auth, url) ==
    LET q == [p EXCEPT !.savedAuth = auth,
                       !.raced = @ \/ p.requests # <<>> \/ p.timeouts # <<>>]
    IN  IF settings.refetchWithAuth THEN Download([q EXCEPT !.url = url], url) ELSE q

(* Mutant: an empty authorization is not stored. *)
SavedUnlessEmpty(p, auth) ==
    /\ stored' = IF p.hooked /\ settings.persistAuth /\ auth # NoAuth THEN auth ELSE stored
    /\ crossed' = (crossed \/ (p.hooked /\ p.savedAuth # stored))

(* localStorage.setItem; a page that is not hooked stores nothing. *)
Saved(p, auth) ==
    /\ stored' = IF p.hooked /\ settings.persistAuth THEN auth ELSE stored
    /\ crossed' = (crossed \/ (p.hooked /\ p.savedAuth # stored))

(* authActions.authorize, hooked or not. *)
Authorize(t, s, c) ==
    LET p    == tabs[t]
        new  == [x \in {s} |-> c]
        auth == Merged(new, p.savedAuth)
        q    == [p EXCEPT !.shown = Merged(new, @)]
    IN  /\ p.loaded
        /\ Act
        /\ tabs' = [tabs EXCEPT ![t] =
               IF p.hooked THEN Refetched(q, auth, ApplyAuth(auth, p.url))
                           ELSE [q EXCEPT !.early = TRUE]]
        /\ Saved(p, auth)
        /\ granted' = IF p.hooked THEN Merged(new, granted) ELSE granted
        /\ UNCHANGED settings

(* Mutant: the keys stay in the URL. *)
LogoutKeepsUrl(t, S) ==
    LET p    == tabs[t]
        auth == Restrict(p.savedAuth, DOMAIN p.savedAuth \ S)
        q    == [p EXCEPT !.shown = Restrict(@, DOMAIN @ \ S)]
    IN  /\ S \subseteq DOMAIN p.shown
        /\ Act
        /\ tabs' = [tabs EXCEPT ![t] =
               IF p.hooked THEN Refetched(q, auth, p.url) ELSE [q EXCEPT !.early = TRUE]]
        /\ Saved(p, auth)
        /\ granted' = IF p.hooked THEN Restrict(granted, DOMAIN granted \ S) ELSE granted
        /\ UNCHANGED settings

(* authActions.logout. *)
Logout(t, S) ==
    LET p    == tabs[t]
        auth == Restrict(p.savedAuth, DOMAIN p.savedAuth \ S)
        q    == [p EXCEPT !.shown = Restrict(@, DOMAIN @ \ S)]
    IN  /\ S \subseteq DOMAIN p.shown
        /\ Act
        /\ tabs' = [tabs EXCEPT ![t] =
               IF p.hooked THEN Refetched(q, auth, DeauthUrl(S \cap DOMAIN p.savedAuth, p.url))
                           ELSE [q EXCEPT !.early = TRUE]]
        /\ Saved(p, auth)
        /\ granted' = IF p.hooked THEN Restrict(granted, DOMAIN granted \ S) ELSE granted
        /\ UNCHANGED settings

SpecNext ==
    \E t \in Tab :
        \/ \E d \in Document, plain \in BOOLEAN : OpenPage(t, d, plain)
        \/ ClosePage(t)
        \/ \E d \in Document : LoadDocument(t, d)
        \/ \E i \in DOMAIN tabs[t].requests, result \in {"ok", "error", "none"} :
               Response(t, i, result)
        \/ RunTimeout(t)
        \/ \E s \in Scheme, c \in Credential : Authorize(t, s, c)
        \/ \E S \in SUBSET DOMAIN tabs[t].shown \ {{}} : Logout(t, S)

LoaderSpec == SpecInit /\ [][SpecNext]_specVars

-----------------------------------------------------------------------------
(* Properties.                                                             *)

KeysOf(auth) == ApplyAuth(auth, Url(CHOOSE d \in Document : TRUE, NoAuth)).query

(* With refetchWithAuth, a request for the specification carries the keys  *)
(* of savedAuth and no key that was logged out, and so does the URL that a *)
(* page shows when nothing is pending - unless the user authorized, logged *)
(* out or asked for the same document again while something was: a late    *)
(* response brings back the URL of its request.                            *)
UrlHasKeys ==
    settings.refetchWithAuth => \A t \in Tab :
        LET p == tabs[t]
        IN  p.open /\ ~p.raced =>
                /\ \A i \in DOMAIN p.requests :
                      p.requests[i].url.query = KeysOf(p.requests[i].auth)
                /\ p.requests = <<>> /\ p.timeouts = <<>> => p.url.query = KeysOf(p.savedAuth)

(* Once the actions are hooked, Swagger UI has as authorized what the page *)
(* adds to requests and stores, also after a reload - except OAuth2, and   *)
(* what was authorized between the specification and its onComplete.       *)
ShownIsSaved ==
    \A t \in Tab :
        LET p == tabs[t]
        IN  p.hooked /\ ~p.early => Known(p.shown) = Known(p.savedAuth)

(* With persistAuth, localStorage has what the user authorized and did not *)
(* log out, in whatever tab and before whatever reload - unless a page     *)
(* saved that was opened before another one did.                           *)
StoredIsGranted ==
    settings.persistAuth /\ ~crossed =>
        granted = IF stored = Corrupt THEN NoAuth ELSE stored
=============================================================================
