-------------------------- MODULE SpecLoader_proofs --------------------------
(***************************************************************************)
(* What holds of SpecLoader for any number of tabs, schemes, keys and      *)
(* documents, whatever answers are late and whatever the user does.        *)
(***************************************************************************)
EXTENDS SpecLoader, SequenceTheorems, TLAPS

Urls == [document : Document, query : Auth]

Request == [asked : Urls, url : Urls, auth : Auth]

Waiting == [kind : {"update", "check", "complete"}, url : Urls]

Page == [open : BOOLEAN, savedAuth : Auth, shown : Auth, url : Urls, loaded : BOOLEAN,
         ui : BOOLEAN, hooked : BOOLEAN, requests : Seq(Request),
         specRequestsInFlight : SUBSET Urls, timeouts : Seq(Waiting),
         early : BOOLEAN, raced : BOOLEAN]

-----------------------------------------------------------------------------
(* Lemmas about authorizations and their keys.                             *)

LEMMA AuthFacts ==
    \A f : f \in Auth <=> /\ f = [s \in DOMAIN f |-> f[s]]
                          /\ DOMAIN f \subseteq Scheme
                          /\ \A s \in DOMAIN f : f[s] \in Credential
<1> TAKE f
<1>1. f \in Auth <=> \E S \in SUBSET Scheme : f \in [S -> Credential] BY DEF Auth
<1>2. ASSUME NEW S \in SUBSET Scheme, f \in [S -> Credential]
      PROVE  /\ f = [s \in DOMAIN f |-> f[s]] /\ DOMAIN f \subseteq Scheme
             /\ \A s \in DOMAIN f : f[s] \in Credential
    BY <1>2
<1>3. ASSUME f = [s \in DOMAIN f |-> f[s]], DOMAIN f \subseteq Scheme,
             \A s \in DOMAIN f : f[s] \in Credential
      PROVE  f \in [DOMAIN f -> Credential] /\ DOMAIN f \in SUBSET Scheme
    BY <1>3
<1> QED BY <1>1, <1>2, <1>3

LEMMA NoAuthFacts == DOMAIN NoAuth = {} /\ NoAuth \in Auth
<1>1. NoAuth = [s \in {} |-> s] BY DEF NoAuth
<1>2. DOMAIN NoAuth = {} BY <1>1
<1>3. NoAuth = [s \in DOMAIN NoAuth |-> NoAuth[s]] BY <1>1
<1> QED BY <1>2, <1>3, AuthFacts

LEMMA SameAuth ==
    ASSUME NEW f \in Auth, NEW g \in Auth, DOMAIN f = DOMAIN g,
           \A s \in DOMAIN f : f[s] = g[s]
    PROVE  f = g
BY AuthFacts

LEMMA RestrictFacts ==
    ASSUME NEW f \in Auth, NEW S
    PROVE  /\ Restrict(f, (DOMAIN f) \cap S) \in Auth
           /\ DOMAIN Restrict(f, (DOMAIN f) \cap S) = (DOMAIN f) \cap S
           /\ \A s \in (DOMAIN f) \cap S : Restrict(f, (DOMAIN f) \cap S)[s] = f[s]
           /\ Restrict(f, DOMAIN f \ S) \in Auth
           /\ DOMAIN Restrict(f, DOMAIN f \ S) = DOMAIN f \ S
           /\ \A s \in DOMAIN f \ S : Restrict(f, DOMAIN f \ S)[s] = f[s]
<1>1. ASSUME NEW T, T \subseteq DOMAIN f
      PROVE  /\ Restrict(f, T) \in Auth /\ DOMAIN Restrict(f, T) = T
             /\ \A s \in T : Restrict(f, T)[s] = f[s]
    <2>1. DOMAIN f \subseteq Scheme /\ \A s \in DOMAIN f : f[s] \in Credential BY AuthFacts
    <2> DEFINE h == [s \in T |-> f[s]]
    <2>2. DOMAIN h = T /\ \A s \in T : h[s] = f[s] OBVIOUS
    <2>3. h = [s \in DOMAIN h |-> h[s]] BY <2>2
    <2> HIDE DEF h
    <2>4. h \in Auth BY <1>1, <2>1, <2>2, <2>3, AuthFacts
    <2> QED BY <2>2, <2>4 DEF Restrict, h
<1> QED BY <1>1

LEMMA MergedFacts ==
    ASSUME NEW f \in Auth, NEW g \in Auth
    PROVE  /\ Merged(f, g) \in Auth /\ DOMAIN Merged(f, g) = (DOMAIN f) \cup DOMAIN g
           /\ \A s \in DOMAIN f : Merged(f, g)[s] = f[s]
           /\ \A s \in (DOMAIN g) \ DOMAIN f : Merged(f, g)[s] = g[s]
<1> DEFINE h == Merged(f, g)
<1>1. /\ DOMAIN h = (DOMAIN f) \cup DOMAIN g
      /\ \A s \in DOMAIN f : h[s] = f[s]
      /\ \A s \in (DOMAIN g) \ DOMAIN f : h[s] = g[s]
      /\ h = [s \in DOMAIN h |-> h[s]]
    BY DEF Merged
<1>2. /\ DOMAIN f \subseteq Scheme /\ \A s \in DOMAIN f : f[s] \in Credential
      /\ DOMAIN g \subseteq Scheme /\ \A s \in DOMAIN g : g[s] \in Credential
    BY AuthFacts
<1> HIDE DEF h
<1>3. DOMAIN h \subseteq Scheme /\ \A s \in DOMAIN h : h[s] \in Credential BY <1>1, <1>2
<1>4. h \in Auth BY <1>1, <1>3, AuthFacts
<1> QED BY <1>1, <1>4 DEF h

LEMMA OneKey ==
    ASSUME NEW s \in Scheme, NEW c \in Credential
    PROVE  /\ [x \in {s} |-> c] \in Auth
           /\ DOMAIN [x \in {s} |-> c] = {s} /\ [x \in {s} |-> c][s] = c
<1> DEFINE h == [x \in {s} |-> c]
<1>1. DOMAIN h = {s} /\ h[s] = c /\ h = [x \in DOMAIN h |-> h[x]] OBVIOUS
<1> HIDE DEF h
<1>2. h \in Auth BY <1>1, AuthFacts
<1> QED BY <1>1, <1>2 DEF h

(* The keys of an authorization that go into a URL. *)
Queries == Schemes({"query"})

LEMMA KeysFacts ==
    ASSUME NEW auth \in Auth
    PROVE  /\ KeysOf(auth) \in Auth /\ DOMAIN KeysOf(auth) = (DOMAIN auth) \cap Queries
           /\ \A s \in (DOMAIN auth) \cap Queries : KeysOf(auth)[s] = auth[s]
<1> DEFINE r == Restrict(auth, (DOMAIN auth) \cap Queries)
<1>1. /\ r \in Auth /\ DOMAIN r = (DOMAIN auth) \cap Queries
      /\ \A s \in (DOMAIN auth) \cap Queries : r[s] = auth[s]
    BY RestrictFacts
<1>2. KeysOf(auth) = Merged(r, NoAuth) BY DEF KeysOf, ApplyAuth, Url, Queries
<1> HIDE DEF r
<1>3. /\ Merged(r, NoAuth) \in Auth
      /\ DOMAIN Merged(r, NoAuth) = (DOMAIN r) \cup DOMAIN NoAuth
      /\ \A s \in DOMAIN r : Merged(r, NoAuth)[s] = r[s]
    BY <1>1, MergedFacts, NoAuthFacts
<1> QED BY <1>1, <1>2, <1>3, NoAuthFacts

(* applyAuth sets the keys; if the URL had no other ones, it has the keys. *)
LEMMA ApplyFacts ==
    ASSUME NEW auth \in Auth, NEW url \in Urls
    PROVE  /\ ApplyAuth(auth, url) \in Urls
           /\ DOMAIN url.query \subseteq (DOMAIN auth) \cap Queries =>
                  ApplyAuth(auth, url).query = KeysOf(auth)
<1> DEFINE r == Restrict(auth, (DOMAIN auth) \cap Queries)
           new == ApplyAuth(auth, url)
<1>1. /\ r \in Auth /\ DOMAIN r = (DOMAIN auth) \cap Queries
      /\ \A s \in (DOMAIN auth) \cap Queries : r[s] = auth[s]
    BY RestrictFacts
<1>2. url.query \in Auth BY DEF Urls
<1>3. new = [url EXCEPT !.query = Merged(r, url.query)] BY DEF ApplyAuth, Queries
<1> HIDE DEF r, new
<1>4. /\ Merged(r, url.query) \in Auth
      /\ DOMAIN Merged(r, url.query) = (DOMAIN r) \cup DOMAIN url.query
      /\ \A s \in DOMAIN r : Merged(r, url.query)[s] = r[s]
    BY <1>1, <1>2, MergedFacts
<1>5. new \in Urls /\ new.query = Merged(r, url.query) BY <1>3, <1>4 DEF Urls
<1>6. ASSUME DOMAIN url.query \subseteq (DOMAIN auth) \cap Queries PROVE new.query = KeysOf(auth)
    <2>1. KeysOf(auth) \in Auth /\ DOMAIN KeysOf(auth) = DOMAIN new.query
          /\ \A s \in DOMAIN new.query : new.query[s] = KeysOf(auth)[s]
        BY <1>1, <1>4, <1>5, <1>6, KeysFacts
    <2> QED BY <1>4, <1>5, <2>1, SameAuth
<1> QED BY <1>5, <1>6 DEF new

LEMMA KnownFacts ==
    ASSUME NEW f \in Auth
    PROVE  /\ Known(f) \in Auth /\ DOMAIN Known(f) = DOMAIN f \ Schemes({"oauth2"})
           /\ \A s \in DOMAIN f \ Schemes({"oauth2"}) : Known(f)[s] = f[s]
BY RestrictFacts DEF Known

LEMMA KnownSame ==
    ASSUME NEW f \in Auth, NEW g \in Auth
    PROVE  Known(f) = Known(g) <=>
               /\ DOMAIN f \ Schemes({"oauth2"}) = DOMAIN g \ Schemes({"oauth2"})
               /\ \A s \in DOMAIN f \ Schemes({"oauth2"}) : f[s] = g[s]
<1> DEFINE O == Schemes({"oauth2"})
<1>1. /\ Known(f) \in Auth /\ DOMAIN Known(f) = DOMAIN f \ O
      /\ \A s \in DOMAIN f \ O : Known(f)[s] = f[s]
      /\ Known(g) \in Auth /\ DOMAIN Known(g) = DOMAIN g \ O
      /\ \A s \in DOMAIN g \ O : Known(g)[s] = g[s]
    BY KnownFacts
<1> HIDE DEF O
<1>2. ASSUME Known(f) = Known(g)
      PROVE  DOMAIN f \ O = DOMAIN g \ O /\ \A s \in DOMAIN f \ O : f[s] = g[s]
    <2>1. DOMAIN f \ O = DOMAIN g \ O BY <1>1, <1>2
    <2>2. ASSUME NEW s \in DOMAIN f \ O PROVE f[s] = g[s] BY <1>1, <1>2, <2>1
    <2> QED BY <2>1, <2>2
<1>3. ASSUME DOMAIN f \ O = DOMAIN g \ O, \A s \in DOMAIN f \ O : f[s] = g[s]
      PROVE  Known(f) = Known(g)
    BY <1>1, <1>3, SameAuth
<1> QED BY <1>2, <1>3 DEF O

LEMMA KnownMerged ==
    ASSUME NEW f \in Auth, NEW g \in Auth, NEW h \in Auth, Known(f) = Known(g)
    PROVE  Known(Merged(h, f)) = Known(Merged(h, g))
<1> DEFINE O == Schemes({"oauth2"})
<1>1. DOMAIN f \ O = DOMAIN g \ O /\ \A s \in DOMAIN f \ O : f[s] = g[s] BY KnownSame
<1>2. /\ Merged(h, f) \in Auth /\ DOMAIN Merged(h, f) = (DOMAIN h) \cup DOMAIN f
      /\ \A s \in DOMAIN h : Merged(h, f)[s] = h[s]
      /\ \A s \in (DOMAIN f) \ DOMAIN h : Merged(h, f)[s] = f[s]
    BY MergedFacts
<1>3. /\ Merged(h, g) \in Auth /\ DOMAIN Merged(h, g) = (DOMAIN h) \cup DOMAIN g
      /\ \A s \in DOMAIN h : Merged(h, g)[s] = h[s]
      /\ \A s \in (DOMAIN g) \ DOMAIN h : Merged(h, g)[s] = g[s]
    BY MergedFacts
<1> HIDE DEF O
<1>4. (DOMAIN Merged(h, f)) \ O = (DOMAIN Merged(h, g)) \ O BY <1>1, <1>2, <1>3
<1>5. ASSUME NEW s \in (DOMAIN Merged(h, f)) \ O PROVE Merged(h, f)[s] = Merged(h, g)[s]
    <2>1. CASE s \in DOMAIN h BY <1>2, <1>3, <2>1
    <2>2. CASE s \notin DOMAIN h
        <3>1. s \in DOMAIN f \ O /\ s \in DOMAIN g BY <1>1, <1>2, <2>2
        <3> QED BY <1>1, <1>2, <1>3, <2>2, <3>1
    <2> QED BY <2>1, <2>2
<1> QED BY <1>2, <1>3, <1>4, <1>5, KnownSame DEF O

LEMMA KnownRestrict ==
    ASSUME NEW f \in Auth, NEW g \in Auth, NEW S, Known(f) = Known(g)
    PROVE  Known(Restrict(f, DOMAIN f \ S)) = Known(Restrict(g, DOMAIN g \ S))
<1> DEFINE O == Schemes({"oauth2"})
           a == Restrict(f, DOMAIN f \ S)
           b == Restrict(g, DOMAIN g \ S)
<1>1. DOMAIN f \ O = DOMAIN g \ O /\ \A s \in DOMAIN f \ O : f[s] = g[s] BY KnownSame
<1>2. a \in Auth /\ DOMAIN a = DOMAIN f \ S /\ \A s \in DOMAIN f \ S : a[s] = f[s]
    BY RestrictFacts
<1>3. b \in Auth /\ DOMAIN b = DOMAIN g \ S /\ \A s \in DOMAIN g \ S : b[s] = g[s]
    BY RestrictFacts
<1> HIDE DEF O, a, b
<1>4. (DOMAIN a) \ O = (DOMAIN b) \ O BY <1>1, <1>2, <1>3
<1>5. ASSUME NEW s \in (DOMAIN a) \ O PROVE a[s] = b[s]
    <2>1. s \in DOMAIN f \ O /\ s \in DOMAIN g /\ s \notin S BY <1>1, <1>2
    <2> QED BY <1>1, <1>2, <1>3, <2>1
<1> QED BY <1>2, <1>3, <1>4, <1>5, KnownSame DEF O, a, b

(* preauthorizeAll makes known what the page has, or changes nothing. *)
LEMMA KnownTwice ==
    ASSUME NEW f \in Auth, NEW g \in Auth, g = NoAuth \/ Known(g) = Known(f)
    PROVE  Known(Merged(Known(f), g)) = Known(f)
<1> DEFINE O == Schemes({"oauth2"})
           k == Known(f)
           m == Merged(k, g)
<1>1. k \in Auth /\ DOMAIN k = DOMAIN f \ O /\ \A s \in DOMAIN f \ O : k[s] = f[s]
    BY KnownFacts
<1> HIDE DEF k
<1>2. m \in Auth /\ DOMAIN m = (DOMAIN k) \cup DOMAIN g /\ \A s \in DOMAIN k : m[s] = k[s]
    BY <1>1, MergedFacts
<1>3. (DOMAIN g) \ O \subseteq DOMAIN f \ O
    <2>1. CASE g = NoAuth BY <2>1, NoAuthFacts
    <2>2. CASE Known(g) = Known(f) BY <2>2, KnownSame
    <2> QED BY <2>1, <2>2
<1> HIDE DEF O, m
<1>4. (DOMAIN m) \ O = DOMAIN f \ O BY <1>1, <1>2, <1>3
<1>5. \A s \in (DOMAIN m) \ O : m[s] = f[s] BY <1>1, <1>2, <1>4
<1>6. Known(m) = Known(f) BY <1>2, <1>4, <1>5, KnownSame DEF O
<1> QED BY <1>6 DEF m, k

LEMMA RemoveFacts ==
    ASSUME NEW X, NEW f \in Seq(X), NEW i \in 1..Len(f)
    PROVE  /\ Seqs!RemoveAt(f, i) \in Seq(X) /\ Len(Seqs!RemoveAt(f, i)) = Len(f) - 1
           /\ \A k \in 1..(Len(f) - 1) : Seqs!RemoveAt(f, i)[k] = IF k < i THEN f[k] ELSE f[k + 1]
<1> DEFINE a == SubSeq(f, 1, i - 1)
           b == SubSeq(f, i + 1, Len(f))
<1>1. a \in Seq(X) /\ Len(a) = i - 1 /\ \A k \in 1..(i - 1) : a[k] = f[k] OBVIOUS
<1>2. b \in Seq(X) /\ Len(b) = Len(f) - i /\ \A k \in 1..(Len(f) - i) : b[k] = f[k + i]
    OBVIOUS
<1>3. Seqs!RemoveAt(f, i) = a \o b BY DEF Seqs!RemoveAt
<1> HIDE DEF a, b
<1>4. a \o b \in Seq(X) BY <1>1, <1>2
<1>5. Len(a \o b) = Len(f) - 1
    <2>1. Len(a \o b) = Len(a) + Len(b) BY <1>1, <1>2, ConcatProperties
    <2> QED BY <1>1, <1>2, <2>1
<1>6. ASSUME NEW k \in 1..(Len(f) - 1)
      PROVE  (a \o b)[k] = IF k < i THEN f[k] ELSE f[k + 1]
    <2>1. CASE k < i BY <1>1, <1>2, <2>1
    <2>2. CASE ~(k < i)
        <3>1. (a \o b)[k] = b[k - Len(a)] BY <1>1, <1>2, <2>2
        <3>2. k - Len(a) \in 1..(Len(f) - i) /\ (k - Len(a)) + i = k + 1 BY <1>1, <2>2
        <3> QED BY <1>2, <2>2, <3>1, <3>2
    <2> QED BY <2>1, <2>2
<1> QED BY <1>3, <1>4, <1>5, <1>6


(* Which element is at the k-th place once the i-th is removed. *)
Place(i, k) == IF k < i THEN k ELSE k + 1

LEMMA PlaceFacts ==
    ASSUME NEW X, NEW f \in Seq(X), NEW i \in DOMAIN f, NEW k \in DOMAIN Seqs!RemoveAt(f, i)
    PROVE  /\ Place(i, k) \in DOMAIN f \ {i} /\ Seqs!RemoveAt(f, i)[k] = f[Place(i, k)]
           /\ \A m \in DOMAIN Seqs!RemoveAt(f, i) : Place(i, k) = Place(i, m) => k = m
<1>1. i \in 1..Len(f) /\ Len(f) \in Nat OBVIOUS
<1>2. /\ Seqs!RemoveAt(f, i) \in Seq(X) /\ Len(Seqs!RemoveAt(f, i)) = Len(f) - 1
      /\ \A m \in 1..(Len(f) - 1) : Seqs!RemoveAt(f, i)[m] = IF m < i THEN f[m] ELSE f[m + 1]
    BY <1>1, RemoveFacts
<1>3. DOMAIN Seqs!RemoveAt(f, i) = 1..(Len(f) - 1) BY <1>1, <1>2
<1>4. Place(i, k) \in DOMAIN f \ {i} /\ Seqs!RemoveAt(f, i)[k] = f[Place(i, k)]
    BY <1>1, <1>2, <1>3 DEF Place
<1>5. \A m \in DOMAIN Seqs!RemoveAt(f, i) : Place(i, k) = Place(i, m) => k = m
    BY <1>1, <1>3 DEF Place
<1> QED BY <1>4, <1>5

-----------------------------------------------------------------------------
(* The inductive invariant.                                                *)

(* Until the first onComplete nothing is preauthorized, and without        *)
(* persistAuth there is nothing to preauthorize.                           *)
HookOK(p, persist) ==
    /\ ~p.hooked /\ ~p.early => p.shown = NoAuth
    /\ ~p.hooked /\ ~persist => p.savedAuth = NoAuth
    /\ p.hooked /\ ~p.early => Known(p.shown) = Known(p.savedAuth)

(* What is pending has the keys; a request whose URL was not the one asked *)
(* for is remembered, and no two are for one URL.                          *)
PendingOK(p) ==
    /\ \A i \in DOMAIN p.requests :
          /\ p.requests[i].url.query = KeysOf(p.savedAuth)
          /\ p.requests[i].auth = p.savedAuth
          /\ p.requests[i].url # p.requests[i].asked =>
                 p.requests[i].url \in p.specRequestsInFlight
          /\ \A j \in DOMAIN p.requests : p.requests[i].url = p.requests[j].url => i = j
    /\ \A i \in DOMAIN p.timeouts : p.timeouts[i].url.query = KeysOf(p.savedAuth)

(* The page shows a URL with the keys, or will. *)
UrlOK(p) ==
    \/ p.url.query = KeysOf(p.savedAuth)
    \/ \E i \in DOMAIN p.timeouts : p.timeouts[i].kind \in {"update", "check"}

PageOK(p, set) ==
    /\ p \in Page /\ HookOK(p, set.persistAuth)
    /\ set.refetchWithAuth /\ ~p.raced => PendingOK(p) /\ UrlOK(p)

Settings == [persistAuth : BOOLEAN, refetchWithAuth : BOOLEAN]

LoaderInv ==
    /\ settings \in Settings /\ stored \in Auth \cup {Corrupt}
    /\ granted \in Auth /\ crossed \in BOOLEAN
    /\ DOMAIN tabs = Tab /\ \A t \in Tab : PageOK(tabs[t], settings)
    /\ StoredIsGranted

-----------------------------------------------------------------------------
(* Pages.                                                                  *)

LEMMA UrlFacts ==
    ASSUME NEW d \in Document
    PROVE  /\ Url(d, NoAuth) \in Urls /\ Url(d, NoAuth).query = NoAuth
           /\ DOMAIN Url(d, NoAuth).query = {}
BY NoAuthFacts DEF Url, Urls

LEMMA ClosedOK ==
    ASSUME NEW set \in Settings
    PROVE  /\ PageOK(Closed, set) /\ Closed.requests = <<>> /\ Closed.timeouts = <<>>
           /\ ~Closed.hooked /\ ~Closed.early /\ ~Closed.raced /\ Closed.shown = NoAuth
<1> DEFINE d == CHOOSE x \in Document : TRUE
<1>1. d \in Document BY SpecLoaderAssumption
<1> HIDE DEF d
<1>2. Url(d, NoAuth) \in Urls /\ Url(d, NoAuth).query = NoAuth BY <1>1, UrlFacts
<1>3. /\ Closed.savedAuth = NoAuth /\ Closed.shown = NoAuth /\ Closed.url = Url(d, NoAuth)
      /\ Closed.requests = <<>> /\ Closed.timeouts = <<>> /\ ~Closed.hooked
      /\ ~Closed.early /\ ~Closed.raced
    BY DEF Closed, d
<1>4. Closed \in Page
    <2>1. <<>> \in Seq(Request) /\ <<>> \in Seq(Waiting) OBVIOUS
    <2> QED BY <1>2, <2>1, NoAuthFacts DEF Closed, Page, d
<1>5. KeysOf(NoAuth) = NoAuth
    <2>1. KeysOf(NoAuth) \in Auth /\ DOMAIN KeysOf(NoAuth) = DOMAIN NoAuth
        BY KeysFacts, NoAuthFacts
    <2> QED BY <2>1, SameAuth, NoAuthFacts
<1>6. HookOK(Closed, set.persistAuth) BY <1>3 DEF HookOK
<1>7. PendingOK(Closed) BY <1>3 DEF PendingOK
<1>8. UrlOK(Closed) BY <1>2, <1>3, <1>5 DEF UrlOK
<1> QED BY <1>3, <1>4, <1>6, <1>7, <1>8 DEF PageOK

(* A download: the keys of the page, and no others, are in the URL of the  *)
(* request if those of the URL asked for are among them.                   *)
LEMMA DownloadFacts ==
    ASSUME NEW p \in Page, NEW url \in Urls
    PROVE  LET q == Download(p, url)
           IN  /\ q \in Page /\ q.hooked = p.hooked /\ q.early = p.early
               /\ q.shown = p.shown /\ q.savedAuth = p.savedAuth
               /\ p.raced => q.raced
<1> DEFINE new == IF settings.refetchWithAuth THEN ApplyAuth(p.savedAuth, url) ELSE url
           r == [asked |-> url, url |-> new, auth |-> p.savedAuth]
           more == Append(p.requests, r)
           race == p.raced \/ \E i \in DOMAIN p.requests : p.requests[i].url = new
           a == [p EXCEPT !.requests = more, !.raced = race]
           b == [a EXCEPT !.specRequestsInFlight = @ \cup {new},
                          !.url = IF p.ui THEN new ELSE @,
                          !.timeouts = IF p.ui THEN @ ELSE Append(@, Timeout("update", new))]
<1>1. Download(p, url) = IF new = url THEN a ELSE b BY DEF Download
<1>2. p.savedAuth \in Auth /\ p.requests \in Seq(Request) /\ p.timeouts \in Seq(Waiting)
      /\ p.specRequestsInFlight \subseteq Urls /\ p.url \in Urls
    BY DEF Page
<1>3. new \in Urls BY <1>2, ApplyFacts
<1> HIDE DEF new
<1>4. r \in Request BY <1>2, <1>3 DEF Request
<1>5. Timeout("update", new) \in Waiting BY <1>3 DEF Timeout, Waiting
<1> HIDE DEF r
<1>6. more \in Seq(Request) BY <1>2, <1>4
<1>7. Append(p.timeouts, Timeout("update", new)) \in Seq(Waiting) BY <1>2, <1>5
<1>8. race \in BOOLEAN /\ (p.raced => race) BY DEF Page
<1> HIDE DEF more, race
<1>9. /\ a \in Page /\ a.hooked = p.hooked /\ a.early = p.early /\ a.shown = p.shown
      /\ a.savedAuth = p.savedAuth /\ a.raced = race /\ a.timeouts = p.timeouts
      /\ a.specRequestsInFlight = p.specRequestsInFlight /\ a.url = p.url
    BY <1>6, <1>8 DEF Page
<1> HIDE DEF a
<1>10. b \in Page /\ b.hooked = p.hooked /\ b.early = p.early /\ b.shown = p.shown
       /\ b.savedAuth = p.savedAuth /\ b.raced = race
    BY <1>2, <1>3, <1>7, <1>9 DEF Page
<1> HIDE DEF b
<1> QED BY <1>1, <1>8, <1>9, <1>10

LEMMA DownloadOK ==
    ASSUME NEW p \in Page, NEW url \in Urls, settings.refetchWithAuth,
           p.url = url, DOMAIN url.query \subseteq (DOMAIN p.savedAuth) \cap Queries,
           ~p.raced => PendingOK(p), ~Download(p, url).raced
    PROVE  PendingOK(Download(p, url)) /\ UrlOK(Download(p, url))
<1> DEFINE new == ApplyAuth(p.savedAuth, url)
           r == [asked |-> url, url |-> new, auth |-> p.savedAuth]
           race == p.raced \/ \E i \in DOMAIN p.requests : p.requests[i].url = new
           a == [p EXCEPT !.requests = Append(p.requests, r), !.raced = race]
           b == [a EXCEPT !.specRequestsInFlight = @ \cup {new},
                          !.url = IF p.ui THEN new ELSE @,
                          !.timeouts = IF p.ui THEN @ ELSE Append(@, Timeout("update", new))]
           q == Download(p, url)
           Keys == KeysOf(p.savedAuth)
<1>1. q = IF new = url THEN a ELSE b BY DEF Download
<1>2. p.savedAuth \in Auth /\ p.requests \in Seq(Request) /\ p.timeouts \in Seq(Waiting)
      /\ p.specRequestsInFlight \subseteq Urls
    BY DEF Page
<1>3. new \in Urls /\ new.query = Keys BY <1>2, ApplyFacts
<1> HIDE DEF new, Keys
<1>4. r \in Request /\ r.asked = url /\ r.url = new /\ r.auth = p.savedAuth
    BY <1>2, <1>3 DEF Request
<1>5. Timeout("update", new).kind = "update" /\ Timeout("update", new).url = new
      /\ Timeout("update", new) \in Waiting
    BY <1>3 DEF Timeout, Waiting
<1> HIDE DEF r
<1>6. /\ a.requests = Append(p.requests, r) /\ a.raced = race /\ a.savedAuth = p.savedAuth
      /\ a.specRequestsInFlight = p.specRequestsInFlight /\ a.timeouts = p.timeouts
      /\ a.url = p.url /\ DOMAIN a = DOMAIN p
    BY DEF Page
<1> HIDE DEF a
<1>7. /\ b.requests = Append(p.requests, r) /\ b.raced = race /\ b.savedAuth = p.savedAuth
      /\ b.specRequestsInFlight = p.specRequestsInFlight \cup {new}
      /\ b.timeouts = IF p.ui THEN p.timeouts ELSE Append(p.timeouts, Timeout("update", new))
      /\ b.url = IF p.ui THEN new ELSE p.url
    BY <1>6 DEF Page
<1> HIDE DEF b
<1>8. /\ q.requests = Append(p.requests, r) /\ ~race /\ q.savedAuth = p.savedAuth
      /\ p.specRequestsInFlight \subseteq q.specRequestsInFlight
      /\ new # url => new \in q.specRequestsInFlight
      /\ \/ q.timeouts = p.timeouts /\ q.url = new
         \/ q.timeouts = Append(p.timeouts, Timeout("update", new))
    BY <1>1, <1>6, <1>7
<1> HIDE DEF q
<1>9. PendingOK(p) BY <1>8
<1>10. /\ Len(q.requests) = Len(p.requests) + 1 /\ q.requests[Len(p.requests) + 1] = r
       /\ \A i \in 1..Len(p.requests) : q.requests[i] = p.requests[i]
       /\ DOMAIN q.requests = 1..(Len(p.requests) + 1) /\ DOMAIN p.requests = 1..Len(p.requests)
       /\ Len(p.requests) \in Nat
    BY <1>2, <1>4, <1>8
<1>11. ASSUME NEW i \in DOMAIN q.requests
       PROVE  /\ q.requests[i].url.query = Keys /\ q.requests[i].auth = p.savedAuth
              /\ q.requests[i].url # q.requests[i].asked =>
                     q.requests[i].url \in q.specRequestsInFlight
    <2>1. CASE i = Len(p.requests) + 1 BY <1>3, <1>4, <1>8, <1>10, <2>1
    <2>2. CASE i \in DOMAIN p.requests BY <1>8, <1>9, <1>10, <2>2 DEF PendingOK, Keys
    <2> QED BY <1>10, <2>1, <2>2
<1>12. ASSUME NEW i \in DOMAIN q.requests, NEW j \in DOMAIN q.requests,
              q.requests[i].url = q.requests[j].url
       PROVE  i = j
    <2>1. \A k \in DOMAIN p.requests : p.requests[k].url # new BY <1>8
    <2>2. CASE i \in DOMAIN p.requests /\ j \in DOMAIN p.requests
        BY <1>9, <1>10, <1>12, <2>2 DEF PendingOK
    <2>3. CASE i = Len(p.requests) + 1 BY <1>4, <1>10, <1>12, <2>1, <2>3
    <2>4. CASE j = Len(p.requests) + 1 BY <1>4, <1>10, <1>12, <2>1, <2>4
    <2> QED BY <1>10, <2>2, <2>3, <2>4
<1>13. ASSUME NEW i \in DOMAIN q.timeouts PROVE q.timeouts[i].url.query = Keys
    <2>1. CASE q.timeouts = p.timeouts BY <1>9, <2>1 DEF PendingOK, Keys
    <2>2. CASE q.timeouts = Append(p.timeouts, Timeout("update", new))
        <3>1. /\ DOMAIN q.timeouts = 1..(Len(p.timeouts) + 1)
              /\ DOMAIN p.timeouts = 1..Len(p.timeouts) /\ Len(p.timeouts) \in Nat
              /\ q.timeouts[Len(p.timeouts) + 1] = Timeout("update", new)
              /\ \A k \in 1..Len(p.timeouts) : q.timeouts[k] = p.timeouts[k]
            BY <1>2, <1>5, <2>2
        <3>2. CASE i = Len(p.timeouts) + 1 BY <1>3, <1>5, <3>1, <3>2
        <3>3. CASE i \in DOMAIN p.timeouts BY <1>9, <3>1, <3>3 DEF PendingOK, Keys
        <3> QED BY <3>1, <3>2, <3>3
    <2> QED BY <1>8, <2>1, <2>2
<1>14. PendingOK(q) BY <1>8, <1>11, <1>12, <1>13 DEF PendingOK, Keys
<1>15. UrlOK(q)
    <2>1. CASE q.url = new BY <1>3, <1>8, <2>1 DEF UrlOK, Keys
    <2>2. CASE q.timeouts = Append(p.timeouts, Timeout("update", new))
        <3>1. Len(p.timeouts) + 1 \in DOMAIN q.timeouts
              /\ q.timeouts[Len(p.timeouts) + 1] = Timeout("update", new)
            BY <1>2, <1>5, <2>2
        <3> QED BY <1>5, <3>1 DEF UrlOK
    <2> QED BY <1>8, <2>1, <2>2
<1> QED BY <1>14, <1>15 DEF q

LEMMA TabStep ==
    ASSUME LoaderInv, NEW t \in Tab, NEW q, tabs' = [tabs EXCEPT ![t] = q], PageOK(q, settings),
           settings' = settings, stored' \in Auth \cup {Corrupt}, granted' \in Auth,
           crossed' \in BOOLEAN, StoredIsGranted'
    PROVE  LoaderInv'
<1>1. DOMAIN tabs' = Tab /\ \A u \in Tab : PageOK(tabs'[u], settings) BY DEF LoaderInv
<1> QED BY <1>1 DEF LoaderInv

-----------------------------------------------------------------------------
(* Steps that change neither the store nor what was granted.               *)

LEMMA SameStore ==
    ASSUME LoaderInv, NEW t \in Tab, NEW q, tabs' = [tabs EXCEPT ![t] = q], PageOK(q, settings),
           UNCHANGED <<settings, stored, granted, crossed>>
    PROVE  LoaderInv'
<1>1. StoredIsGranted' BY DEF LoaderInv, StoredIsGranted
<1>2. stored \in Auth \cup {Corrupt} /\ granted \in Auth /\ crossed \in BOOLEAN BY DEF LoaderInv
<1> QED BY <1>1, <1>2, TabStep

LEMMA OpenPageKeeps ==
    ASSUME LoaderInv, NEW t \in Tab, NEW d \in Document, NEW plain \in BOOLEAN,
           OpenPage(t, d, plain)
    PROVE  LoaderInv'
<1> DEFINE saved == IF settings.persistAuth /\ stored # Corrupt THEN stored ELSE NoAuth
           url == IF settings.refetchWithAuth /\ ~plain
                  THEN ApplyAuth(saved, Url(d, NoAuth)) ELSE Url(d, NoAuth)
           page == [Closed EXCEPT !.open = TRUE, !.savedAuth = saved, !.url = url]
           loaded == Download(page, url)
           q == [loaded EXCEPT !.ui = TRUE]
<1>1. settings \in Settings /\ stored \in Auth \cup {Corrupt} /\ granted \in Auth
      /\ crossed \in BOOLEAN
    BY DEF LoaderInv
<1>2. saved \in Auth /\ (~settings.persistAuth => saved = NoAuth) BY <1>1, NoAuthFacts
<1>3. tabs' = [tabs EXCEPT ![t] = q] /\ settings' = settings
      /\ granted' = granted /\ crossed' = crossed
      /\ stored' = IF settings.persistAuth /\ stored = Corrupt THEN NoAuth ELSE stored
    BY DEF OpenPage
<1> HIDE DEF saved
<1>4. url \in Urls /\ DOMAIN url.query \subseteq (DOMAIN saved) \cap Queries
    <2>1. Url(d, NoAuth) \in Urls /\ DOMAIN Url(d, NoAuth).query = {} BY UrlFacts
    <2>2. ApplyAuth(saved, Url(d, NoAuth)) \in Urls
          /\ ApplyAuth(saved, Url(d, NoAuth)).query = KeysOf(saved)
        BY <1>2, <2>1, ApplyFacts
    <2> QED BY <1>2, <2>1, <2>2, KeysFacts
<1> HIDE DEF url
<1>5. /\ page \in Page /\ page.savedAuth = saved /\ page.url = url /\ page.requests = <<>>
      /\ page.timeouts = <<>> /\ ~page.hooked /\ ~page.early /\ page.shown = NoAuth
    BY <1>1, <1>2, <1>4, ClosedOK DEF PageOK, Page
<1> HIDE DEF page
<1>6. PendingOK(page) BY <1>5 DEF PendingOK
<1>7. /\ loaded \in Page /\ ~loaded.hooked /\ ~loaded.early /\ loaded.shown = NoAuth
      /\ loaded.savedAuth = saved
    BY <1>4, <1>5, DownloadFacts
<1>8. settings.refetchWithAuth /\ ~loaded.raced => PendingOK(loaded) /\ UrlOK(loaded)
    BY <1>4, <1>5, <1>6, DownloadOK
<1> HIDE DEF loaded
<1>9. /\ q \in Page /\ ~q.hooked /\ ~q.early /\ q.shown = NoAuth /\ q.savedAuth = saved
      /\ q.raced = loaded.raced /\ q.requests = loaded.requests /\ q.url = loaded.url
      /\ q.timeouts = loaded.timeouts /\ q.specRequestsInFlight = loaded.specRequestsInFlight
    BY <1>7 DEF Page
<1> HIDE DEF q
<1>10. HookOK(q, settings.persistAuth) BY <1>2, <1>9 DEF HookOK
<1>11. PageOK(q, settings) BY <1>7, <1>8, <1>9, <1>10 DEF PageOK, PendingOK, UrlOK
<1>12. stored' \in Auth \cup {Corrupt} BY <1>1, <1>3, NoAuthFacts
<1>13. StoredIsGranted' BY <1>1, <1>3, NoAuthFacts DEF LoaderInv, StoredIsGranted
<1> QED BY <1>1, <1>3, <1>11, <1>12, <1>13, TabStep

LEMMA ClosePageKeeps ==
    ASSUME LoaderInv, NEW t \in Tab, ClosePage(t)
    PROVE  LoaderInv'
<1>1. PageOK(Closed, settings) BY ClosedOK DEF LoaderInv
<1> QED BY <1>1, SameStore DEF ClosePage

LEMMA LoadDocumentKeeps ==
    ASSUME LoaderInv, NEW t \in Tab, NEW d \in Document, LoadDocument(t, d)
    PROVE  LoaderInv'
<1> DEFINE p == tabs[t]
           url == Url(d, NoAuth)
           page == [p EXCEPT !.url = url]
           q == Download(page, url)
<1>1. PageOK(p, settings) BY DEF LoaderInv
<1>2. url \in Urls /\ DOMAIN url.query = {} BY UrlFacts
<1> HIDE DEF url
<1>3. /\ page \in Page /\ page.url = url /\ page.savedAuth = p.savedAuth
      /\ page.hooked = p.hooked /\ page.early = p.early /\ page.shown = p.shown
      /\ page.raced = p.raced /\ page.requests = p.requests /\ page.timeouts = p.timeouts
      /\ page.specRequestsInFlight = p.specRequestsInFlight
    BY <1>1, <1>2 DEF PageOK, Page
<1>4. tabs' = [tabs EXCEPT ![t] = q] BY DEF LoadDocument, url
<1> HIDE DEF page
<1>5. settings.refetchWithAuth /\ ~page.raced => PendingOK(page)
    BY <1>1, <1>3 DEF PageOK, PendingOK
<1>6. /\ q \in Page /\ q.hooked = p.hooked /\ q.early = p.early /\ q.shown = p.shown
      /\ q.savedAuth = p.savedAuth
    BY <1>2, <1>3, DownloadFacts
<1>7. settings.refetchWithAuth /\ ~q.raced => PendingOK(q) /\ UrlOK(q)
    BY <1>2, <1>3, <1>5, DownloadOK
<1> HIDE DEF q
<1>8. PageOK(q, settings) BY <1>1, <1>6, <1>7 DEF PageOK, HookOK
<1> QED BY <1>4, <1>8, SameStore DEF LoadDocument

LEMMA ResponseKeeps ==
    ASSUME LoaderInv, NEW t \in Tab, NEW i \in DOMAIN tabs[t].requests,
           NEW result \in {"ok", "error", "none"}, Response(t, i, result)
    PROVE  LoaderInv'
<1> DEFINE p == tabs[t]
           r == p.requests[i]
           rest == Seqs!RemoveAt(p.requests, i)
           check == r.url \in p.specRequestsInFlight /\ result = "ok"
           left == [p EXCEPT !.requests = rest]
           told == [left EXCEPT !.specRequestsInFlight = @ \ {r.url},
                                !.timeouts = IF check THEN Append(@, Timeout("check", r.url))
                                                      ELSE @]
           done == [told EXCEPT !.url = r.asked, !.loaded = TRUE,
                                !.timeouts = Append(@, Timeout("complete", r.url))]
           q == CASE result = "ok" -> done [] result = "error" -> told [] result = "none" -> left
<1>1. PageOK(p, settings) BY DEF LoaderInv
<1>2. /\ p \in Page /\ p.requests \in Seq(Request) /\ p.timeouts \in Seq(Waiting)
      /\ p.specRequestsInFlight \subseteq Urls
    BY <1>1 DEF PageOK, Page
<1>3. tabs' = [tabs EXCEPT ![t] = q] BY DEF Response, Respond
<1>4. r.url \in Urls /\ r.asked \in Urls
    <2>1. r \in Request BY <1>2, ElementOfSeq
    <2> HIDE DEF r
    <2> QED BY <2>1 DEF Request
<1>5. rest \in Seq(Request) BY <1>2, RemoveFacts
<1>6. \A k \in DOMAIN rest :
          /\ Place(i, k) \in DOMAIN p.requests \ {i} /\ rest[k] = p.requests[Place(i, k)]
          /\ \A m \in DOMAIN rest : Place(i, k) = Place(i, m) => k = m
    BY <1>2, PlaceFacts
<1> HIDE DEF rest
<1>7. \A kind \in {"check", "complete"} :
          /\ Timeout(kind, r.url) \in Waiting /\ Timeout(kind, r.url).kind = kind
          /\ Timeout(kind, r.url).url = r.url
    BY <1>4 DEF Timeout, Waiting
<1> HIDE DEF r
<1>8. /\ left \in Page /\ left.requests = rest /\ left.timeouts = p.timeouts
      /\ left.specRequestsInFlight = p.specRequestsInFlight /\ left.url = p.url
      /\ left.hooked = p.hooked /\ left.early = p.early /\ left.shown = p.shown
      /\ left.savedAuth = p.savedAuth /\ left.raced = p.raced
    BY <1>2, <1>5 DEF Page
<1> HIDE DEF left
<1> DEFINE later == IF check THEN Append(p.timeouts, Timeout("check", r.url)) ELSE p.timeouts
<1>9. later \in Seq(Waiting) BY <1>2, <1>7
<1>10. Append(later, Timeout("complete", r.url)) \in Seq(Waiting) BY <1>7, <1>9
<1>11. /\ told \in Page /\ told.requests = rest /\ told.timeouts = later
       /\ told.specRequestsInFlight = p.specRequestsInFlight \ {r.url} /\ told.url = p.url
       /\ told.hooked = p.hooked /\ told.early = p.early /\ told.shown = p.shown
       /\ told.savedAuth = p.savedAuth /\ told.raced = p.raced
    BY <1>8, <1>9 DEF Page
<1> HIDE DEF told
<1>12. /\ done \in Page /\ done.requests = rest
       /\ done.timeouts = Append(later, Timeout("complete", r.url))
       /\ done.specRequestsInFlight = p.specRequestsInFlight \ {r.url} /\ done.url = r.asked
       /\ done.hooked = p.hooked /\ done.early = p.early /\ done.shown = p.shown
       /\ done.savedAuth = p.savedAuth /\ done.raced = p.raced
    BY <1>4, <1>10, <1>11 DEF Page
<1> HIDE DEF done
<1>13. /\ q \in Page /\ q.requests = rest /\ q.raced = p.raced
       /\ q.hooked = p.hooked /\ q.early = p.early /\ q.shown = p.shown
       /\ q.savedAuth = p.savedAuth
       /\ p.specRequestsInFlight \ {r.url} \subseteq q.specRequestsInFlight
    BY <1>8, <1>11, <1>12
<1>14. ASSUME settings.refetchWithAuth, ~p.raced PROVE PendingOK(q) /\ UrlOK(q)
    <2>1. PendingOK(p) /\ UrlOK(p) BY <1>1, <1>14 DEF PageOK
    <2> DEFINE Keys == KeysOf(p.savedAuth)
    <2>2. r.url.query = Keys /\ (r.url # r.asked => r.url \in p.specRequestsInFlight)
        BY <2>1 DEF PendingOK, r
    <2>3. ASSUME NEW k \in DOMAIN rest
          PROVE  /\ rest[k].url.query = Keys /\ rest[k].auth = p.savedAuth
                 /\ rest[k].url # rest[k].asked => rest[k].url \in q.specRequestsInFlight
                 /\ \A m \in DOMAIN rest : rest[k].url = rest[m].url => k = m
        <3>1. /\ Place(i, k) \in DOMAIN p.requests \ {i} /\ rest[k] = p.requests[Place(i, k)]
              /\ rest[k].url # r.url
            BY <1>6, <2>1 DEF PendingOK, r
        <3>2. \A m \in DOMAIN rest : rest[k].url = rest[m].url => Place(i, k) = Place(i, m)
            BY <1>6, <2>1, <3>1 DEF PendingOK
        <3> QED BY <1>6, <1>13, <2>1, <3>1, <3>2 DEF PendingOK
    <2>4. \A k \in DOMAIN p.timeouts : p.timeouts[k].url.query = Keys BY <2>1 DEF PendingOK
    <2> HIDE DEF Keys
    <2>5. ASSUME NEW k \in DOMAIN later PROVE later[k].url.query = Keys
        <3>1. CASE ~check BY <2>4, <3>1
        <3>2. CASE check
            <4>1. \/ k \in DOMAIN p.timeouts /\ later[k] = p.timeouts[k]
                  \/ later[k] = Timeout("check", r.url)
                BY <1>2, <1>7, <3>2
            <4> QED BY <1>7, <2>2, <2>4, <4>1
        <3> QED BY <3>1, <3>2
    <2>6. check => \E k \in DOMAIN later : later[k].kind = "check"
        <3>1. ASSUME check
              PROVE  /\ Len(p.timeouts) + 1 \in DOMAIN later
                     /\ later[Len(p.timeouts) + 1] = Timeout("check", r.url)
            BY <1>2, <1>7, <3>1
        <3> QED BY <1>7, <3>1
    <2>7. (\E k \in DOMAIN p.timeouts : p.timeouts[k].kind \in {"update", "check"})
              => \E k \in DOMAIN later : later[k].kind \in {"update", "check"}
        <3>1. \A k \in DOMAIN p.timeouts : k \in DOMAIN later /\ later[k] = p.timeouts[k]
            BY <1>2, <1>7
        <3> QED BY <3>1
    <2> HIDE DEF later, check
    <2> DEFINE all == Append(later, Timeout("complete", r.url))
    <2>8. /\ \A k \in DOMAIN later : k \in DOMAIN all /\ all[k] = later[k]
          /\ \A k \in DOMAIN all : k \in DOMAIN later \/ all[k] = Timeout("complete", r.url)
        BY <1>7, <1>9
    <2> HIDE DEF all
    <2>9. \A k \in DOMAIN all : all[k].url.query = Keys BY <1>7, <2>2, <2>5, <2>8
    <2>10. CASE result = "ok"
        <3>1. q.timeouts = all /\ q.url = r.asked BY <1>12, <2>10 DEF all
        <3>2. r.url = r.asked \/ check BY <2>2, <2>10 DEF check
        <3>3. r.url = r.asked \/ \E k \in DOMAIN all : all[k].kind = "check"
            BY <2>6, <2>8, <3>2
        <3>4. UrlOK(q) BY <1>13, <2>2, <3>1, <3>3 DEF UrlOK, Keys
        <3> HIDE DEF q
        <3>5. PendingOK(q) BY <1>13, <2>3, <2>9, <3>1 DEF PendingOK, Keys
        <3> QED BY <3>4, <3>5
    <2>11. CASE result = "error"
        <3>1. q.timeouts = later /\ q.url = p.url BY <1>11, <2>11
        <3> HIDE DEF q
        <3>2. UrlOK(q) BY <1>13, <2>1, <2>7, <3>1 DEF UrlOK
        <3>3. PendingOK(q) BY <1>13, <2>3, <2>5, <3>1 DEF PendingOK, Keys
        <3> QED BY <3>2, <3>3
    <2>12. CASE result = "none"
        <3>1. q.timeouts = p.timeouts /\ q.url = p.url BY <1>8, <2>12
        <3> HIDE DEF q
        <3>2. UrlOK(q) BY <1>13, <2>1, <3>1 DEF UrlOK
        <3>3. PendingOK(q) BY <1>13, <2>3, <2>4, <3>1 DEF PendingOK, Keys
        <3> QED BY <3>2, <3>3
    <2> QED BY <2>10, <2>11, <2>12
<1> HIDE DEF q
<1>15. PageOK(q, settings) BY <1>1, <1>13, <1>14 DEF PageOK, HookOK
<1> QED BY <1>3, <1>15, SameStore DEF Response

(* The rest of a sequence, one place on.                                   *)
LEMMA TailFacts ==
    ASSUME NEW X, NEW f \in Seq(X), f # <<>>
    PROVE  /\ Tail(f) \in Seq(X) /\ 1 \in DOMAIN f /\ Head(f) = f[1] /\ f[1] \in X
           /\ \A k \in DOMAIN Tail(f) : k + 1 \in DOMAIN f /\ Tail(f)[k] = f[k + 1]
           /\ \A k \in DOMAIN f \ {1} :
                  k - 1 \in DOMAIN Tail(f) /\ Tail(f)[k - 1] = f[k]
<1>1. Len(f) \in Nat \ {0} /\ DOMAIN f = 1..Len(f) BY EmptySeq
<1>2. Tail(f) \in Seq(X) /\ Len(Tail(f)) = Len(f) - 1
      /\ \A k \in 1..(Len(f) - 1) : Tail(f)[k] = f[k + 1]
    BY <1>1
<1>3. DOMAIN Tail(f) = 1..(Len(f) - 1) BY <1>1, <1>2
<1>4. 1 \in DOMAIN f /\ Head(f) = f[1] /\ f[1] \in X BY <1>1
<1>5. \A k \in DOMAIN f \ {1} : k - 1 \in DOMAIN Tail(f) /\ Tail(f)[k - 1] = f[k]
    BY <1>1, <1>2, <1>3
<1> QED BY <1>1, <1>2, <1>3, <1>4, <1>5

LEMMA CompletedFacts ==
    ASSUME NEW p \in Page, settings \in Settings, HookOK(p, settings.persistAuth)
    PROVE  LET q == Completed(p)
           IN  /\ q \in Page /\ HookOK(q, settings.persistAuth)
               /\ q.requests = p.requests /\ q.timeouts = p.timeouts /\ q.url = p.url
               /\ q.savedAuth = p.savedAuth /\ q.raced = p.raced
               /\ q.specRequestsInFlight = p.specRequestsInFlight
<1> DEFINE more == IF settings.persistAuth THEN Merged(Known(p.savedAuth), p.shown) ELSE p.shown
           a == [p EXCEPT !.hooked = TRUE, !.shown = more]
           q == Completed(p)
<1>1. q = IF settings.persistAuth \/ settings.refetchWithAuth THEN a ELSE p
    BY DEF Completed
<1>2. p.savedAuth \in Auth /\ p.shown \in Auth /\ p.hooked \in BOOLEAN /\ p.early \in BOOLEAN
    BY DEF Page
<1>3. more \in Auth BY <1>2, KnownFacts, MergedFacts
<1>4. ~p.early => Known(more) = Known(p.savedAuth)
    <2>1. ASSUME ~p.early
          PROVE  \/ Known(p.shown) = Known(p.savedAuth)
                 \/ p.shown = NoAuth /\ (~settings.persistAuth => p.savedAuth = NoAuth)
        BY <1>2, <2>1 DEF HookOK
    <2>2. CASE settings.persistAuth BY <1>2, <2>1, <2>2, KnownTwice
    <2>3. CASE ~settings.persistAuth BY <2>1, <2>3
    <2> QED BY <2>2, <2>3
<1> HIDE DEF more
<1>5. /\ a \in Page /\ a.hooked /\ a.early = p.early /\ a.shown = more
      /\ a.requests = p.requests /\ a.timeouts = p.timeouts /\ a.url = p.url
      /\ a.savedAuth = p.savedAuth /\ a.raced = p.raced
      /\ a.specRequestsInFlight = p.specRequestsInFlight
    BY <1>3 DEF Page
<1> HIDE DEF a
<1>6. HookOK(a, settings.persistAuth) BY <1>4, <1>5 DEF HookOK
<1> HIDE DEF q
<1> QED BY <1>1, <1>5, <1>6 DEF q

LEMMA RunTimeoutKeeps ==
    ASSUME LoaderInv, NEW t \in Tab, RunTimeout(t)
    PROVE  LoaderInv'
<1> DEFINE old == tabs[t]
           rest == Tail(old.timeouts)
           c == Head(old.timeouts)
           p == [old EXCEPT !.timeouts = rest]
           moved == [p EXCEPT !.url = c.url]
           q == CASE c.kind = "complete" -> Completed(p)
                  [] c.kind \in {"update", "check"} -> moved
<1>1. PageOK(old, settings) /\ settings \in Settings BY DEF LoaderInv
<1>2. /\ old \in Page /\ old.timeouts \in Seq(Waiting) /\ HookOK(old, settings.persistAuth)
    BY <1>1 DEF PageOK, Page
<1>3. tabs' = [tabs EXCEPT ![t] = q] /\ old.timeouts # <<>> BY DEF RunTimeout
<1>4. /\ rest \in Seq(Waiting) /\ 1 \in DOMAIN old.timeouts /\ c = old.timeouts[1]
      /\ c \in Waiting
      /\ \A k \in DOMAIN rest : k + 1 \in DOMAIN old.timeouts /\ rest[k] = old.timeouts[k + 1]
      /\ \A k \in DOMAIN old.timeouts \ {1} :
             k - 1 \in DOMAIN rest /\ rest[k - 1] = old.timeouts[k]
    BY <1>2, <1>3, TailFacts
<1> HIDE DEF rest, c
<1>5. c.kind \in {"update", "check", "complete"} /\ c.url \in Urls BY <1>4 DEF Waiting
<1>6. /\ p \in Page /\ p.hooked = old.hooked /\ p.early = old.early /\ p.shown = old.shown
      /\ p.savedAuth = old.savedAuth /\ p.raced = old.raced /\ p.requests = old.requests
      /\ p.timeouts = rest /\ p.url = old.url
      /\ p.specRequestsInFlight = old.specRequestsInFlight
    BY <1>2, <1>4 DEF Page
<1> HIDE DEF p
<1>7. HookOK(p, settings.persistAuth) BY <1>2, <1>6 DEF HookOK
<1>8. ASSUME settings.refetchWithAuth, ~old.raced
      PROVE  PendingOK(p) /\ UrlOK(old) /\ c.url.query = KeysOf(old.savedAuth)
    <2>1. PendingOK(old) /\ UrlOK(old) BY <1>1, <1>8 DEF PageOK
    <2>2. PendingOK(p) BY <1>4, <1>6, <2>1 DEF PendingOK
    <2> QED BY <1>4, <2>1, <2>2 DEF PendingOK
<1>9. CASE c.kind = "complete"
    <2>1. q = Completed(p) BY <1>9
    <2> HIDE DEF q
    <2>2. /\ q \in Page /\ HookOK(q, settings.persistAuth)
          /\ q.requests = p.requests /\ q.timeouts = p.timeouts /\ q.url = p.url
          /\ q.savedAuth = p.savedAuth /\ q.raced = p.raced
          /\ q.specRequestsInFlight = p.specRequestsInFlight
        BY <1>1, <1>6, <1>7, <2>1, CompletedFacts
    <2>3. ASSUME settings.refetchWithAuth, ~q.raced PROVE PendingOK(q) /\ UrlOK(q)
        <3>1. PendingOK(p) /\ UrlOK(old) BY <1>6, <1>8, <2>2, <2>3
        <3>2. PendingOK(q) BY <2>2, <3>1 DEF PendingOK
        <3>3. \A k \in DOMAIN old.timeouts :
                  old.timeouts[k].kind \in {"update", "check"} => k # 1
            BY <1>4, <1>9
        <3>4. (\E k \in DOMAIN old.timeouts : old.timeouts[k].kind \in {"update", "check"})
                  => \E k \in DOMAIN rest : rest[k].kind \in {"update", "check"}
            BY <1>4, <3>3
        <3>5. UrlOK(q) BY <1>6, <2>2, <3>1, <3>4 DEF UrlOK
        <3> QED BY <3>2, <3>5
    <2>4. PageOK(q, settings) BY <2>2, <2>3 DEF PageOK
    <2> QED BY <1>3, <2>4, SameStore DEF RunTimeout
<1>10. CASE c.kind \in {"update", "check"}
    <2>1. q = moved BY <1>10
    <2>2. /\ moved \in Page /\ moved.hooked = p.hooked /\ moved.early = p.early
          /\ moved.shown = p.shown /\ moved.savedAuth = p.savedAuth /\ moved.raced = p.raced
          /\ moved.requests = p.requests /\ moved.timeouts = p.timeouts /\ moved.url = c.url
          /\ moved.specRequestsInFlight = p.specRequestsInFlight
        BY <1>5, <1>6 DEF Page
    <2> HIDE DEF q, moved
    <2>3. HookOK(q, settings.persistAuth) BY <1>7, <2>1, <2>2 DEF HookOK
    <2>4. ASSUME settings.refetchWithAuth, ~q.raced PROVE PendingOK(q) /\ UrlOK(q)
        <3>1. PendingOK(p) /\ c.url.query = KeysOf(old.savedAuth)
            BY <1>6, <1>8, <2>1, <2>2, <2>4
        <3>2. PendingOK(q) BY <2>1, <2>2, <3>1 DEF PendingOK
        <3>3. UrlOK(q) BY <1>6, <2>1, <2>2, <3>1 DEF UrlOK
        <3> QED BY <3>2, <3>3
    <2>5. PageOK(q, settings) BY <2>1, <2>2, <2>3, <2>4 DEF PageOK
    <2> QED BY <1>3, <2>5, SameStore DEF RunTimeout
<1> QED BY <1>5, <1>9, <1>10

-----------------------------------------------------------------------------
(* Steps that authorize and log out.                                       *)

LEMMA RefetchedFacts ==
    ASSUME NEW p \in Page, NEW auth \in Auth, NEW url \in Urls
    PROVE  LET q == Refetched(p, auth, url)
           IN  /\ q \in Page /\ q.hooked = p.hooked /\ q.early = p.early
               /\ q.shown = p.shown /\ q.savedAuth = auth
               /\ settings.refetchWithAuth /\ ~q.raced =>
                      p.requests = <<>> /\ p.timeouts = <<>> /\ ~p.raced
               /\ settings.refetchWithAuth /\ ~q.raced
                      /\ DOMAIN url.query \subseteq (DOMAIN auth) \cap Queries =>
                          PendingOK(q) /\ UrlOK(q)
<1> DEFINE race == p.raced \/ p.requests # <<>> \/ p.timeouts # <<>>
           a == [p EXCEPT !.savedAuth = auth, !.raced = race]
           b == [a EXCEPT !.url = url]
           q == Refetched(p, auth, url)
<1>1. q = IF settings.refetchWithAuth THEN Download(b, url) ELSE a BY DEF Refetched
<1>2. race \in BOOLEAN BY DEF Page
<1> HIDE DEF race
<1>3. /\ a \in Page /\ a.hooked = p.hooked /\ a.early = p.early /\ a.shown = p.shown
      /\ a.savedAuth = auth /\ a.raced = race /\ a.requests = p.requests
      /\ a.timeouts = p.timeouts
    BY <1>2 DEF Page
<1> HIDE DEF a
<1>4. /\ b \in Page /\ b.hooked = p.hooked /\ b.early = p.early /\ b.shown = p.shown
      /\ b.savedAuth = auth /\ b.raced = race /\ b.requests = p.requests
      /\ b.timeouts = p.timeouts /\ b.url = url
    BY <1>3 DEF Page
<1> HIDE DEF b, q
<1>5. CASE ~settings.refetchWithAuth BY <1>1, <1>3, <1>5 DEF q
<1>6. CASE settings.refetchWithAuth
    <2>1. q = Download(b, url) BY <1>1, <1>6
    <2>2. /\ q \in Page /\ q.hooked = p.hooked /\ q.early = p.early
          /\ q.shown = p.shown /\ q.savedAuth = auth /\ (race => q.raced)
        BY <1>4, <2>1, DownloadFacts
    <2>3. ASSUME ~q.raced PROVE p.requests = <<>> /\ p.timeouts = <<>> /\ ~p.raced
        BY <2>2, <2>3 DEF race
    <2>4. ASSUME ~q.raced, DOMAIN url.query \subseteq (DOMAIN auth) \cap Queries
          PROVE  PendingOK(q) /\ UrlOK(q)
        <3>1. PendingOK(b) BY <1>4, <2>3, <2>4 DEF PendingOK
        <3> QED BY <1>4, <1>6, <2>1, <2>4, <3>1, DownloadOK
    <2> QED BY <2>2, <2>3, <2>4 DEF q
<1> QED BY <1>5, <1>6

(* A page whose authorization became auth, as Swagger UI shows in shown.   *)
LEMMA ChangedOK ==
    ASSUME NEW p, PageOK(p, settings), settings \in Settings,
           NEW auth \in Auth, NEW shown \in Auth, NEW url \in Urls,
           Known(p.shown) = Known(p.savedAuth) => Known(shown) = Known(auth),
           p.url.query = KeysOf(p.savedAuth) =>
               DOMAIN url.query \subseteq (DOMAIN auth) \cap Queries
    PROVE  LET q == [p EXCEPT !.shown = shown]
           IN  PageOK(IF p.hooked THEN Refetched(q, auth, url) ELSE [q EXCEPT !.early = TRUE],
                      settings)
<1> DEFINE q == [p EXCEPT !.shown = shown]
           early == [q EXCEPT !.early = TRUE]
           r == Refetched(q, auth, url)
<1>1. p \in Page /\ HookOK(p, settings.persistAuth) BY DEF PageOK
<1>2. /\ q \in Page /\ q.hooked = p.hooked /\ q.early = p.early /\ q.shown = shown
      /\ q.savedAuth = p.savedAuth /\ q.raced = p.raced /\ q.requests = p.requests
      /\ q.timeouts = p.timeouts /\ q.url = p.url
      /\ q.specRequestsInFlight = p.specRequestsInFlight
    BY <1>1 DEF Page
<1> HIDE DEF q
<1>3. CASE ~p.hooked
    <2>1. /\ early \in Page /\ ~early.hooked /\ early.early /\ early.savedAuth = p.savedAuth
          /\ early.raced = p.raced /\ early.requests = p.requests
          /\ early.timeouts = p.timeouts /\ early.url = p.url
          /\ early.specRequestsInFlight = p.specRequestsInFlight
        BY <1>2, <1>3 DEF Page
    <2> HIDE DEF early
    <2>2. HookOK(early, settings.persistAuth) BY <1>1, <1>3, <2>1 DEF HookOK
    <2>3. PageOK(early, settings) BY <2>1, <2>2 DEF PageOK, PendingOK, UrlOK
    <2> QED BY <1>3, <2>3 DEF early, q
<1>4. CASE p.hooked
    <2>1. /\ r \in Page /\ r.hooked = q.hooked /\ r.early = q.early
          /\ r.shown = q.shown /\ r.savedAuth = auth
          /\ settings.refetchWithAuth /\ ~r.raced =>
                 q.requests = <<>> /\ q.timeouts = <<>> /\ ~q.raced
          /\ settings.refetchWithAuth /\ ~r.raced
                 /\ DOMAIN url.query \subseteq (DOMAIN auth) \cap Queries =>
                     PendingOK(r) /\ UrlOK(r)
        BY <1>2, RefetchedFacts
    <2> HIDE DEF r
    <2>2. HookOK(r, settings.persistAuth) BY <1>1, <1>2, <1>4, <2>1 DEF HookOK
    <2>3. ASSUME settings.refetchWithAuth, ~r.raced PROVE PendingOK(r) /\ UrlOK(r)
        <3>1. p.requests = <<>> /\ p.timeouts = <<>> /\ ~p.raced BY <1>2, <2>1, <2>3
        <3>2. p.url.query = KeysOf(p.savedAuth) BY <2>3, <3>1 DEF PageOK, UrlOK
        <3> QED BY <2>1, <2>3, <3>2
    <2>4. PageOK(r, settings) BY <2>1, <2>2, <2>3 DEF PageOK
    <2> QED BY <1>4, <2>4 DEF r, q
<1> QED BY <1>3, <1>4

(* The store has auth where it had the authorization of the page.          *)
LEMMA SavedOK ==
    ASSUME LoaderInv, NEW p, PageOK(p, settings), NEW auth \in Auth, NEW now \in Auth,
           granted = p.savedAuth => now = auth,
           Saved(p, auth), granted' = IF p.hooked THEN now ELSE granted, settings' = settings
    PROVE  /\ stored' \in Auth \cup {Corrupt} /\ granted' \in Auth /\ crossed' \in BOOLEAN
           /\ StoredIsGranted'
<1>1. /\ settings \in Settings /\ stored \in Auth \cup {Corrupt} /\ granted \in Auth
      /\ crossed \in BOOLEAN /\ StoredIsGranted
    BY DEF LoaderInv
<1>2. p.savedAuth \in Auth /\ p.hooked \in BOOLEAN BY DEF PageOK, Page
<1>3. stored' \in Auth \cup {Corrupt} /\ granted' \in Auth /\ crossed' \in BOOLEAN
    BY <1>1, <1>2 DEF Saved
<1>4. StoredIsGranted'
    <2>1. CASE ~p.hooked BY <1>1, <2>1 DEF Saved, StoredIsGranted
    <2>2. CASE p.hooked
        <3>1. SUFFICES ASSUME settings.persistAuth, ~crossed'
                       PROVE  granted' = IF stored' = Corrupt THEN NoAuth ELSE stored'
            BY DEF StoredIsGranted
        <3>2. ~crossed /\ p.savedAuth = stored /\ stored' = auth /\ granted' = now
            BY <2>2, <3>1 DEF Saved
        <3>3. granted = p.savedAuth
            BY <1>1, <1>2, <3>1, <3>2, SpecLoaderAssumption DEF StoredIsGranted
        <3> QED BY <3>2, <3>3, SpecLoaderAssumption
    <2> QED BY <2>1, <2>2
<1> QED BY <1>3, <1>4

LEMMA AuthorizeKeeps ==
    ASSUME LoaderInv, NEW t \in Tab, NEW s \in Scheme, NEW c \in Credential,
           Authorize(t, s, c)
    PROVE  LoaderInv'
<1> DEFINE p == tabs[t]
           new == [x \in {s} |-> c]
           auth == Merged(new, p.savedAuth)
           shown == Merged(new, p.shown)
           now == Merged(new, granted)
           url == ApplyAuth(auth, p.url)
           q == [p EXCEPT !.shown = shown]
           r == IF p.hooked THEN Refetched(q, auth, url) ELSE [q EXCEPT !.early = TRUE]
<1>1. PageOK(p, settings) /\ settings \in Settings /\ granted \in Auth BY DEF LoaderInv
<1>2. p.savedAuth \in Auth /\ p.shown \in Auth /\ p.url \in Urls BY <1>1 DEF PageOK, Page
<1>3. /\ tabs' = [tabs EXCEPT ![t] = r] /\ Saved(p, auth) /\ settings' = settings
      /\ granted' = IF p.hooked THEN now ELSE granted
    BY DEF Authorize
<1>4. new \in Auth BY OneKey
<1> HIDE DEF new
<1>5. auth \in Auth /\ shown \in Auth /\ now \in Auth
      /\ DOMAIN auth = (DOMAIN new) \cup DOMAIN p.savedAuth
    BY <1>1, <1>2, <1>4, MergedFacts
<1>6. Known(p.shown) = Known(p.savedAuth) => Known(shown) = Known(auth)
    BY <1>2, <1>4, KnownMerged
<1>7. url \in Urls BY <1>2, <1>5, ApplyFacts
<1>8. ASSUME p.url.query = KeysOf(p.savedAuth)
      PROVE  DOMAIN url.query \subseteq (DOMAIN auth) \cap Queries
    <2>1. DOMAIN p.url.query = (DOMAIN p.savedAuth) \cap Queries BY <1>2, <1>8, KeysFacts
    <2>2. url.query = KeysOf(auth) BY <1>2, <1>5, <2>1, ApplyFacts
    <2> QED BY <1>5, <2>2, KeysFacts
<1>9. granted = p.savedAuth => now = auth OBVIOUS
<1> HIDE DEF auth, shown, now, url
<1>10. PageOK(r, settings) BY <1>1, <1>5, <1>6, <1>7, <1>8, ChangedOK
<1>11. /\ stored' \in Auth \cup {Corrupt} /\ granted' \in Auth /\ crossed' \in BOOLEAN
       /\ StoredIsGranted'
    BY <1>1, <1>3, <1>5, <1>9, SavedOK
<1> HIDE DEF r
<1> QED BY <1>3, <1>10, <1>11, TabStep

LEMMA LogoutKeeps ==
    ASSUME LoaderInv, NEW t \in Tab, NEW S, Logout(t, S)
    PROVE  LoaderInv'
<1> DEFINE p == tabs[t]
           auth == Restrict(p.savedAuth, DOMAIN p.savedAuth \ S)
           shown == Restrict(p.shown, DOMAIN p.shown \ S)
           now == Restrict(granted, DOMAIN granted \ S)
           gone == S \cap DOMAIN p.savedAuth
           url == DeauthUrl(gone, p.url)
           q == [p EXCEPT !.shown = shown]
           r == IF p.hooked THEN Refetched(q, auth, url) ELSE [q EXCEPT !.early = TRUE]
<1>1. PageOK(p, settings) /\ settings \in Settings /\ granted \in Auth BY DEF LoaderInv
<1>2. p.savedAuth \in Auth /\ p.shown \in Auth /\ p.url \in Urls BY <1>1 DEF PageOK, Page
<1>3. /\ tabs' = [tabs EXCEPT ![t] = r] /\ Saved(p, auth) /\ settings' = settings
      /\ granted' = IF p.hooked THEN now ELSE granted
    <2>1. q = [p EXCEPT !.shown = Restrict(@, DOMAIN @ \ S)] OBVIOUS
    <2> QED BY <2>1 DEF Logout
<1>4. /\ auth \in Auth /\ DOMAIN auth = DOMAIN p.savedAuth \ S
      /\ shown \in Auth /\ now \in Auth
    BY <1>1, <1>2, RestrictFacts
<1>5. Known(p.shown) = Known(p.savedAuth) => Known(shown) = Known(auth)
    BY <1>2, KnownRestrict
<1>6. /\ url \in Urls
      /\ DOMAIN url.query = DOMAIN p.url.query \ gone
    <2> DEFINE left == Restrict(p.url.query, DOMAIN p.url.query \ gone)
    <2>1. p.url.query \in Auth BY <1>2 DEF Urls
    <2>2. left \in Auth /\ DOMAIN left = DOMAIN p.url.query \ gone BY <2>1, RestrictFacts
    <2>3. url = [p.url EXCEPT !.query = left] BY DEF DeauthUrl
    <2> HIDE DEF left, url
    <2>4. url \in Urls /\ url.query = left BY <1>2, <2>2, <2>3 DEF Urls
    <2> QED BY <2>2, <2>4
<1>7. ASSUME p.url.query = KeysOf(p.savedAuth)
      PROVE  DOMAIN url.query \subseteq (DOMAIN auth) \cap Queries
    <2>1. DOMAIN p.url.query = (DOMAIN p.savedAuth) \cap Queries BY <1>2, <1>7, KeysFacts
    <2> QED BY <1>4, <1>6, <2>1
<1>8. granted = p.savedAuth => now = auth OBVIOUS
<1> HIDE DEF auth, shown, now, url
<1>9. PageOK(r, settings) BY <1>1, <1>4, <1>5, <1>6, <1>7, ChangedOK
<1>10. /\ stored' \in Auth \cup {Corrupt} /\ granted' \in Auth /\ crossed' \in BOOLEAN
       /\ StoredIsGranted'
    BY <1>1, <1>3, <1>4, <1>8, SavedOK
<1> HIDE DEF r
<1> QED BY <1>3, <1>9, <1>10, TabStep

-----------------------------------------------------------------------------
(* The theorems.                                                           *)

LEMMA LoaderInit == SpecInit => LoaderInv
<1> SUFFICES ASSUME SpecInit PROVE LoaderInv OBVIOUS
<1>1. settings \in Settings BY DEF SpecInit, Settings
<1>2. stored \in Auth \cup {Corrupt} BY SpecLoaderAssumption DEF SpecInit
<1>3. granted \in Auth /\ crossed \in BOOLEAN BY <1>2, NoAuthFacts DEF SpecInit
<1>4. DOMAIN tabs = Tab /\ \A t \in Tab : PageOK(tabs[t], settings)
    BY <1>1, ClosedOK DEF SpecInit
<1>5. StoredIsGranted BY DEF SpecInit, StoredIsGranted
<1> QED BY <1>1, <1>2, <1>3, <1>4, <1>5 DEF LoaderInv

LEMMA LoaderStep == LoaderInv /\ [SpecNext]_specVars => LoaderInv'
<1> SUFFICES ASSUME LoaderInv, [SpecNext]_specVars PROVE LoaderInv' OBVIOUS
<1>1. ASSUME UNCHANGED specVars PROVE LoaderInv'
    BY <1>1 DEF specVars, LoaderInv, StoredIsGranted
<1>2. ASSUME NEW t \in Tab, NEW d \in Document, NEW plain \in BOOLEAN, OpenPage(t, d, plain)
      PROVE  LoaderInv'
    BY <1>2, OpenPageKeeps
<1>3. ASSUME NEW t \in Tab, ClosePage(t) PROVE LoaderInv' BY <1>3, ClosePageKeeps
<1>4. ASSUME NEW t \in Tab, NEW d \in Document, LoadDocument(t, d) PROVE LoaderInv'
    BY <1>4, LoadDocumentKeeps
<1>5. ASSUME NEW t \in Tab, NEW i \in DOMAIN tabs[t].requests,
             NEW result \in {"ok", "error", "none"}, Response(t, i, result)
      PROVE  LoaderInv'
    BY <1>5, ResponseKeeps
<1>6. ASSUME NEW t \in Tab, RunTimeout(t) PROVE LoaderInv' BY <1>6, RunTimeoutKeeps
<1>7. ASSUME NEW t \in Tab, NEW s \in Scheme, NEW c \in Credential, Authorize(t, s, c)
      PROVE  LoaderInv'
    BY <1>7, AuthorizeKeeps
<1>8. ASSUME NEW t \in Tab, NEW S, Logout(t, S) PROVE LoaderInv' BY <1>8, LogoutKeeps
<1> QED BY <1>1, <1>2, <1>3, <1>4, <1>5, <1>6, <1>7, <1>8 DEF SpecNext

(* The pages, the store and what was granted keep their types, and what a  *)
(* page has pending keeps the relation to savedAuth that its URL and what  *)
(* Swagger UI shows depend on, in any number of tabs.                      *)
THEOREM LoaderInvariant == LoaderSpec => []LoaderInv
<1>1. SpecInit => LoaderInv BY LoaderInit
<1>2. LoaderInv /\ [SpecNext]_specVars => LoaderInv' BY LoaderStep
<1> QED BY <1>1, <1>2, PTL DEF LoaderSpec

(* Requests for the specification, and the URL shown once nothing is       *)
(* pending, have the keys of savedAuth and none that was logged out.       *)
THEOREM KeysAreInUrls == LoaderSpec => []UrlHasKeys
<1>1. LoaderInv => UrlHasKeys
    <2> SUFFICES ASSUME LoaderInv, settings.refetchWithAuth, NEW t \in Tab,
                        tabs[t].open, ~tabs[t].raced
                 PROVE  LET p == tabs[t]
                        IN  /\ \A i \in DOMAIN p.requests :
                                  p.requests[i].url.query = KeysOf(p.requests[i].auth)
                            /\ p.requests = <<>> /\ p.timeouts = <<>> =>
                                  p.url.query = KeysOf(p.savedAuth)
        BY DEF UrlHasKeys
    <2>1. PendingOK(tabs[t]) /\ UrlOK(tabs[t]) BY DEF LoaderInv, PageOK
    <2>2. \A i \in DOMAIN tabs[t].requests :
              tabs[t].requests[i].url.query = KeysOf(tabs[t].requests[i].auth)
        BY <2>1 DEF PendingOK
    <2>3. tabs[t].timeouts = <<>> => tabs[t].url.query = KeysOf(tabs[t].savedAuth)
        BY <2>1 DEF UrlOK
    <2> QED BY <2>2, <2>3
<1> QED BY <1>1, LoaderInvariant, PTL

(* A hooked page shows as authorized what it adds to requests and stores.  *)
THEOREM SavedIsShown == LoaderSpec => []ShownIsSaved
<1>1. LoaderInv => ShownIsSaved BY DEF LoaderInv, PageOK, HookOK, ShownIsSaved
<1> QED BY <1>1, LoaderInvariant, PTL

(* localStorage has what the user authorized and did not log out, whatever *)
(* the tabs and the reloads, unless a page saved that did not know it.     *)
THEOREM GrantedIsStored == LoaderSpec => []StoredIsGranted
<1>1. LoaderInv => StoredIsGranted BY DEF LoaderInv
<1> QED BY <1>1, LoaderInvariant, PTL
=============================================================================
