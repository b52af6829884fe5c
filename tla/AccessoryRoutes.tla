--------------------------- MODULE AccessoryRoutes ---------------------------
(***************************************************************************)
(* Where the web app takes its user: the middleware that lets only an      *)
(* opened accessory's pages through, the pages that send on by what they   *)
(* know of the claim, and the ways to open an accessory: its link, a Hold  *)
(* on the cold page, on the unlock page or on the home page, and a card of *)
(* its signed-in owner.                                                    *)
(*                                                                         *)
(* One tab.  The browser's cookies are shared with other tabs and expire   *)
(* (Elsewhere); what the API's routes set is in Access.  A navigation of   *)
(* the router replaces the one under way; each request for it reads the    *)
(* cookies of that moment, and effects of a page run when it is shown or    *)
(* when a query they depend on has changed.                                *)
(***************************************************************************)
EXTENDS Naturals

CONSTANTS
    Accessories, NoAccessory,
    MaxActions,         \* what the user does
    MaxElsewhere        \* what happens in other tabs, on the chain, or expires

ASSUME RoutesAssumption ==
    /\ NoAccessory \notin Accessories
    /\ MaxActions \in Nat /\ MaxElsewhere \in Nat

VARIABLES
    cookies,    \* whose browse_unlock and owner_browse are alive; owner_session
    screen,     \* the page shown
    going,      \* the navigation under way
    behind,     \* the page that Back returns to
    hold,       \* the Hold ceremony under way
    opening,    \* the card being opened (busyRef)
    mismatch,   \* held instead of the accessory expected by the unlock page
    owners,     \* the chain: who has claimed an accessory
    tokenAuthority, ownerSession,   \* the queries
    owning,     \* the claim or unlink under way
    asked,      \* the accessory opened last, if no other navigation came since
    hops,       \* redirects since something was done or learnt
    acted, elsewhere

routes == <<cookies, screen, going, behind, hold, opening, mismatch, owners,
            tokenAuthority, ownerSession, owning, asked, hops, acted, elsewhere>>

-----------------------------------------------------------------------------
(* Pages *)

Page(path, token) == [path |-> path, token |-> token]

HomePage     == Page("home", NoAccessory)
ColdPage     == Page("token", NoAccessory)
NoPage   == Page("none", NoAccessory)

tokenHref(t)       == Page("address", t)
tokenUnlockHref(t) == Page("unlock", t)
walletHref(t)      == Page("wallet", t)
walletLeaf(t)      == Page("leaf", t)       \* send, receive, settings, ...
walletClaimHref(t) == Page("claim", t)
addressLink(t)     == Page("link", t)       \* /token?address=

Pages == {HomePage, ColdPage}
            \cup [path : {"address", "unlock", "wallet", "leaf", "claim", "link"},
                  token : Accessories]

-----------------------------------------------------------------------------
(* Cookies and the middleware *)

\* canAccessPhygitalToken: either cookie, if it names this accessory
canAccess(jar, t) == jar.browse = t \/ jar.ownerBrowse = t

\* An accepted proof of possession, and an accepted owner.
Unlocked(t) == [cookies EXCEPT !.browse = t, !.ownerBrowse = NoAccessory]
OwnerOpened(t) == [cookies EXCEPT !.browse = NoAccessory, !.ownerBrowse = t]

(* Mutant of redirect: the unlock page is gated like any other. *)
redirect_from_any(p) ==
    IF p.path = "link" THEN walletHref(p.token)
    ELSE IF p.token = NoAccessory \/ canAccess(cookies, p.token) THEN NoPage
    ELSE IF cookies.session /\ p.path # "unlock" THEN HomePage
    ELSE tokenUnlockHref(p.token)

\* Where a request for a page is sent instead; NoPage lets it through.
redirect(p) ==
    IF p.token = NoAccessory THEN NoPage
    ELSE IF p.path = "link" THEN walletHref(p.token)
    ELSE IF p.path = "unlock"
         THEN IF canAccess(cookies, p.token) THEN walletHref(p.token) ELSE NoPage
    ELSE IF canAccess(cookies, p.token) THEN NoPage
    ELSE IF cookies.session THEN HomePage
    ELSE tokenUnlockHref(p.token)

-----------------------------------------------------------------------------
(* What a page does by itself: an unclaimed accessory is claimed first, a  *)
(* claimed one has nothing to claim, and its own page is the wallet.       *)

\* useTokenOwner: who owns an accessory, once both queries have settled.  A
\* query that failed has no data, and none is taken for unclaimed.
token_owner(t, chain, login) ==
    IF login = "loading" THEN "loading"
    ELSE IF chain[t] = "failed" THEN "nobody" ELSE chain[t]

sendOn(p, chain, login) ==
    LET owner == token_owner(p.token, chain, login)
    IN  IF p.token = NoAccessory \/ p.path = "unlock" \/ owner = "loading" THEN NoPage
        ELSE IF owner = "nobody"
             THEN IF p.path = "claim" THEN NoPage ELSE walletClaimHref(p.token)
        ELSE IF p.path \in {"claim", "address"} THEN walletHref(p.token) ELSE NoPage

\* A page comes on the screen after n redirects; its effects run.
Show(p, n) ==
    LET next == sendOn(p, tokenAuthority, ownerSession)
    IN  /\ screen' = p
        /\ going' = next
        /\ hops' = IF next = NoPage THEN n ELSE n + 1
        /\ mismatch' = NoAccessory

\* The queries have changed: the effects that depend on them run again.
Learn(chain, login) ==
    LET next == sendOn(screen, chain, login)
    IN  /\ tokenAuthority' = chain
        /\ ownerSession' = login
        /\ IF next \in {NoPage, sendOn(screen, tokenAuthority, ownerSession)}
           THEN hops' = 0 /\ UNCHANGED <<going, asked>>
           ELSE /\ hops' = 1
                /\ going' = next
                /\ asked' = IF next.token = asked THEN asked ELSE NoAccessory

\* The router is sent to a page, for t's sake.
GoTo(p, t) ==
    /\ going' = p
    /\ hops' = 0
    /\ asked' = IF t = NoAccessory \/ canAccess(cookies, t) THEN t ELSE NoAccessory

\* The cookies have changed.
SetCookies(jar) ==
    /\ cookies' = jar
    /\ asked' = IF asked = NoAccessory \/ canAccess(jar, asked) THEN asked ELSE NoAccessory
    /\ hops' = 0

\* A request for the page under way: the middleware answers.
Request ==
    /\ going # NoPage
    /\ IF redirect(going) = NoPage
       THEN /\ Show(going, hops)
            /\ behind' = IF screen \in {NoPage, going} THEN behind ELSE screen
       ELSE /\ going' = redirect(going)
            /\ hops' = hops + 1
            /\ UNCHANGED <<screen, behind, mismatch>>
    /\ UNCHANGED <<cookies, hold, opening, owners, tokenAuthority, ownerSession, owning, asked,
                   acted, elsewhere>>

-----------------------------------------------------------------------------
(* What the user does *)

Act == acted < MaxActions /\ acted' = acted + 1 /\ UNCHANGED elsewhere

NoHold    == [phase |-> "none", expected |-> NoAccessory, held |-> NoAccessory]
NoOpening == [phase |-> "none", token |-> NoAccessory, again |-> FALSE]
NoOwning  == [phase |-> "none", token |-> NoAccessory, to |-> "nobody", before |-> "nobody"]

\* A page is loaded anew: what ran on the old one is gone, with the queries,
\* none of which is among the persisted ones.
Load ==
    /\ screen' = NoPage
    /\ behind' = IF screen = NoPage THEN behind ELSE screen
    /\ hold' = NoHold /\ opening' = NoOpening /\ owning' = NoOwning
    /\ mismatch' = NoAccessory
    /\ tokenAuthority' = [t \in Accessories |-> "loading"]
    /\ ownerSession' = "loading"
    /\ UNCHANGED owners

\* An address typed in, a bookmark, a reload.
Visit(p) ==
    /\ Act
    /\ Load
    /\ GoTo(p, NoAccessory)
    /\ UNCHANGED cookies

\* The link of a tapped accessory: the middleware has the API verify it,
\* forwards the cookies of the answer and redirects, to the cold page (and
\* its error) if it was refused.
TapLink(t) ==
    /\ Act
    /\ Load
    /\ hops' = 1
    /\ \/ cookies' = Unlocked(t) /\ going' = walletHref(t) /\ asked' = t
       \/ going' = ColdPage /\ asked' = NoAccessory /\ UNCHANGED cookies

\* WalletRouteShell's go, goSettings, goSend, goHome; the rail of the desktop.
Go(p) ==
    /\ Act
    /\ screen.path \in {"wallet", "leaf"} /\ p.token = screen.token
    /\ p.path \in {"wallet", "leaf"}
    /\ GoTo(p, NoAccessory)
    /\ UNCHANGED <<cookies, screen, behind, hold, opening, mismatch, owners, tokenAuthority,
                   ownerSession, owning>>

\* ClaimAccessoryPanel's cancel: what it has begun goes on.
leaveToken ==
    /\ Act
    /\ screen.path = "claim"
    /\ GoTo(HomePage, NoAccessory)
    /\ UNCHANGED <<cookies, screen, behind, hold, opening, mismatch, owners, tokenAuthority,
                   ownerSession, owning>>

\* The router keeps pages it has shown, and may show one without a request.
Back ==
    /\ Act
    /\ behind # NoPage
    /\ \/ Show(behind, 0) /\ asked' = NoAccessory
       \/ GoTo(behind, NoAccessory) /\ UNCHANGED <<screen, mismatch>>
    /\ behind' = NoPage
    /\ UNCHANGED <<cookies, hold, opening, owners, tokenAuthority, ownerSession, owning>>

\* login(): a session cookie, then the query's data.
SignedIn ==
    /\ cookies' = [cookies EXCEPT !.session = TRUE]
    /\ Learn(tokenAuthority, "in")

SignIn ==
    /\ Act
    /\ ownerSession = "out" /\ screen.path \in {"home", "claim", "leaf"}
    /\ SignedIn
    /\ UNCHANGED <<screen, behind, hold, opening, mismatch, owners, owning>>

\* logout(): the query is fetched again afterwards (FetchAccount).
logOut ==
    /\ Act
    /\ ownerSession = "in" /\ screen = HomePage
    /\ SetCookies([cookies EXCEPT !.session = FALSE, !.ownerBrowse = NoAccessory])
    /\ UNCHANGED <<screen, going, behind, hold, opening, mismatch, owners, tokenAuthority,
                   ownerSession, owning>>

-----------------------------------------------------------------------------
(* Hold to open: on the cold page and at home whatever is held, on the     *)
(* unlock page the accessory of the address.                               *)

StartHold ==
    /\ Act
    /\ screen.path \in {"token", "unlock", "home"} /\ hold.phase = "none"
    /\ screen = HomePage => ownerSession # "loading"
    /\ hold' = [phase |-> "asked", expected |-> screen.token, held |-> NoAccessory]
    /\ mismatch' = NoAccessory
    /\ UNCHANGED <<cookies, screen, going, behind, opening, owners, tokenAuthority, ownerSession,
                   owning, asked, hops>>

\* The API has verified what was held and its answer sets the cookie.
Held(t) ==
    /\ hold.phase = "asked"
    /\ hold' = [hold EXCEPT !.phase = "answered", !.held = t]
    /\ SetCookies(Unlocked(t))
    /\ UNCHANGED <<screen, going, behind, opening, mismatch, owners, tokenAuthority, ownerSession,
                   owning, acted, elsewhere>>

HoldFails ==
    /\ hold.phase = "asked"
    /\ hold' = NoHold
    /\ UNCHANGED <<cookies, screen, going, behind, opening, mismatch, owners, tokenAuthority,
                   ownerSession, owning, asked, hops, acted, elsewhere>>

\* connectAccessory returns, or throws AccessoryMismatchError, whichever page
\* is shown by then; only the page that waited for it shows a mismatch.
HoldEnds ==
    /\ hold.phase = "answered"
    /\ hold' = NoHold
    /\ IF hold.expected \in {NoAccessory, hold.held}
       THEN GoTo(walletHref(hold.held), hold.held) /\ UNCHANGED mismatch
       ELSE /\ mismatch' = IF screen = tokenUnlockHref(hold.expected) THEN hold.held ELSE mismatch
            /\ UNCHANGED <<going, hops, asked>>
    /\ UNCHANGED <<cookies, screen, behind, opening, owners, tokenAuthority, ownerSession, owning,
                   acted, elsewhere>>

openHeldInstead ==
    /\ Act
    /\ mismatch # NoAccessory /\ hold.phase = "none"
    /\ mismatch' = NoAccessory
    /\ GoTo(walletHref(mismatch), mismatch)
    /\ UNCHANGED <<cookies, screen, behind, hold, opening, owners, tokenAuthority, ownerSession, owning>>

-----------------------------------------------------------------------------
(* A card of the owner's home: POST /accessory/owner-browse, once more     *)
(* after a login if there is no session.  The list may be old.             *)

StartOpen(t) ==
    /\ Act
    /\ screen = HomePage /\ ownerSession = "in" /\ opening.phase = "none"
    /\ opening' = [phase |-> "mint", token |-> t, again |-> FALSE]
    /\ UNCHANGED <<cookies, screen, going, behind, hold, mismatch, owners, tokenAuthority,
                   ownerSession, owning, asked, hops>>

mintOwnerBrowse ==
    /\ opening.phase = "mint"
    /\ \/ /\ cookies.session
          /\ cookies.ownerBrowse = opening.token \/ owners[opening.token] = "me"
          /\ SetCookies(OwnerOpened(opening.token))
          /\ opening' = [opening EXCEPT !.phase = "answered"]
       \/ /\ ~cookies.session /\ ~opening.again
          /\ opening' = [opening EXCEPT !.phase = "login"]
          /\ UNCHANGED <<cookies, asked, hops>>
       \/ /\ cookies.session => owners[opening.token] # "me"
          /\ cookies.session \/ opening.again
          /\ opening' = NoOpening
          /\ UNCHANGED <<cookies, asked, hops>>
    /\ UNCHANGED <<screen, going, behind, hold, mismatch, owners, tokenAuthority, ownerSession,
                   owning, acted, elsewhere>>

\* A cancelled login returns as a successful one does.
LoginToOpen ==
    /\ opening.phase = "login"
    /\ opening' = [opening EXCEPT !.phase = "mint", !.again = TRUE]
    /\ \/ SignedIn
       \/ UNCHANGED <<cookies, going, tokenAuthority, ownerSession, asked, hops>>
    /\ UNCHANGED <<screen, behind, hold, mismatch, owners, owning, acted, elsewhere>>

OpenEnds ==
    /\ opening.phase = "answered"
    /\ opening' = NoOpening
    /\ GoTo(walletHref(opening.token), opening.token)
    /\ UNCHANGED <<cookies, screen, behind, hold, mismatch, owners, tokenAuthority, ownerSession,
                   owning, acted, elsewhere>>

-----------------------------------------------------------------------------
(* Claim and unlink: the query is patched when the network has accepted    *)
(* the transaction, and put back if it dies.                               *)

StartClaim ==
    /\ Act
    /\ screen.path = "claim" /\ owning.phase = "none" /\ ownerSession = "in"
    /\ token_owner(screen.token, tokenAuthority, ownerSession) = "nobody"
    /\ owning' = [phase |-> "asked", token |-> screen.token, to |-> "me", before |-> "nobody"]
    /\ UNCHANGED <<cookies, screen, going, behind, hold, opening, mismatch, owners, tokenAuthority,
                   ownerSession, asked, hops>>

StartUnlink ==
    /\ Act
    /\ screen.path = "leaf" /\ owning.phase = "none" /\ ownerSession = "in"
    /\ tokenAuthority[screen.token] = "me"
    /\ owning' = [phase |-> "asked", token |-> screen.token, to |-> "nobody", before |-> "me"]
    /\ UNCHANGED <<cookies, screen, going, behind, hold, opening, mismatch, owners, tokenAuthority,
                   ownerSession, asked, hops>>

\* A claim's own page also calls onClaimed, which goes where the effect goes.
OwningSent ==
    /\ owning.phase = "asked"
    /\ owning' = [owning EXCEPT !.phase = "sent", !.before = tokenAuthority[owning.token]]
    /\ Learn([tokenAuthority EXCEPT ![owning.token] = owning.to], ownerSession)
    /\ UNCHANGED <<cookies, screen, behind, hold, opening, mismatch, owners, acted, elsewhere>>

\* What was not cached is removed from the cache again.
OwningFails ==
    /\ owning.phase # "none"
    /\ owning' = NoOwning
    /\ IF owning.phase = "asked" THEN UNCHANGED <<going, tokenAuthority, ownerSession, asked, hops>>
       ELSE Learn([tokenAuthority EXCEPT ![owning.token] =
                       IF owning.before = "failed" THEN "loading" ELSE owning.before], ownerSession)
    /\ UNCHANGED <<cookies, screen, behind, hold, opening, mismatch, owners, acted, elsewhere>>

OwningLands ==
    /\ owning.phase = "sent"
    /\ owners[owning.token] = IF owning.to = "me" THEN "nobody" ELSE "me"
    /\ owners' = [owners EXCEPT ![owning.token] = owning.to]
    /\ owning' = NoOwning
    /\ UNCHANGED <<cookies, screen, going, behind, hold, opening, mismatch, tokenAuthority, ownerSession,
                   asked, hops, acted, elsewhere>>

-----------------------------------------------------------------------------
(* The queries, other tabs, and time *)

FetchAccount ==
    /\ Learn(tokenAuthority, IF cookies.session THEN "in" ELSE "out")
    /\ ownerSession' # ownerSession
    /\ UNCHANGED <<cookies, screen, behind, hold, opening, mismatch, owners, owning, acted,
                   elsewhere>>

FetchAuthority ==
    /\ screen.token # NoAccessory
    /\ \E answer \in {owners[screen.token]}
                        \cup (IF tokenAuthority[screen.token] = "loading" THEN {"failed"} ELSE {}) :
           Learn([tokenAuthority EXCEPT ![screen.token] = answer], ownerSession)
    /\ tokenAuthority' # tokenAuthority
    /\ UNCHANGED <<cookies, screen, behind, hold, opening, mismatch, owners, owning, acted,
                   elsewhere>>

\* Cookies expire one by one; another tab opens an accessory, signs in or out.
ElsewhereCookies ==
    {[cookies EXCEPT !.browse = NoAccessory], [cookies EXCEPT !.ownerBrowse = NoAccessory],
     [cookies EXCEPT !.session = FALSE], [cookies EXCEPT !.session = TRUE],
     [cookies EXCEPT !.session = FALSE, !.ownerBrowse = NoAccessory]}
        \cup {Unlocked(t) : t \in Accessories}
        \cup {OwnerOpened(t) : t \in {a \in Accessories : cookies.session /\ owners[a] = "me"}}

Elsewhere ==
    /\ elsewhere < MaxElsewhere /\ elsewhere' = elsewhere + 1
    /\ \/ \E jar \in ElsewhereCookies : SetCookies(jar) /\ UNCHANGED owners
       \/ /\ \E t \in Accessories, o \in {"nobody", "me", "other"} :
                 owners' = [owners EXCEPT ![t] = o]
          /\ UNCHANGED <<cookies, asked, hops>>
    /\ UNCHANGED <<screen, going, behind, hold, opening, mismatch, tokenAuthority, ownerSession, owning,
                   acted>>

-----------------------------------------------------------------------------

\* A page is asked for, with whatever cookies earlier visits have left.
RoutesInit ==
    /\ cookies \in [browse : Accessories \cup {NoAccessory},
                    ownerBrowse : Accessories \cup {NoAccessory}, session : BOOLEAN]
    /\ screen = NoPage /\ going \in Pages /\ behind = NoPage
    /\ hold = NoHold /\ opening = NoOpening /\ owning = NoOwning
    /\ mismatch = NoAccessory
    /\ owners \in [Accessories -> {"nobody", "me", "other"}]
    /\ tokenAuthority = [t \in Accessories |-> "loading"]
    /\ ownerSession = "loading"
    /\ asked = NoAccessory
    /\ hops = 0 /\ acted = 0 /\ elsewhere = 0

RoutesNext ==
    \/ Request
    \/ \E p \in Pages : Visit(p) \/ Go(p)
    \/ \E t \in Accessories : TapLink(t) \/ Held(t) \/ StartOpen(t)
    \/ leaveToken \/ Back \/ SignIn \/ logOut
    \/ StartHold \/ HoldFails \/ HoldEnds \/ openHeldInstead
    \/ mintOwnerBrowse \/ LoginToOpen \/ OpenEnds
    \/ StartClaim \/ StartUnlink \/ OwningSent \/ OwningFails \/ OwningLands
    \/ FetchAccount \/ FetchAuthority \/ Elsewhere

RoutesSpec == RoutesInit /\ [][RoutesNext]_routes

-----------------------------------------------------------------------------

RoutesTypeOK ==
    /\ cookies \in [browse : Accessories \cup {NoAccessory},
                    ownerBrowse : Accessories \cup {NoAccessory}, session : BOOLEAN]
    /\ {screen, going, behind} \subseteq Pages \cup {NoPage}
    /\ hold \in [phase : {"none", "asked", "answered"},
                 expected : Accessories \cup {NoAccessory}, held : Accessories \cup {NoAccessory}]
    /\ opening \in [phase : {"none", "mint", "login", "answered"},
                    token : Accessories \cup {NoAccessory}, again : BOOLEAN]
    /\ mismatch \in Accessories \cup {NoAccessory}
    /\ owners \in [Accessories -> {"nobody", "me", "other"}]
    /\ tokenAuthority \in [Accessories -> {"loading", "failed", "nobody", "me", "other"}]
    /\ ownerSession \in {"loading", "in", "out"}
    /\ owning \in [phase : {"none", "asked", "sent"}, token : Accessories \cup {NoAccessory},
                   to : {"nobody", "me"}, before : {"loading", "failed", "nobody", "me", "other"}]
    /\ asked \in Accessories \cup {NoAccessory}
    /\ hops \in Nat /\ acted \in Nat /\ elsewhere \in Nat

(* Navigation settles, and where it was asked to.  Between two things that *)
(* are done or learnt the user is sent on at most twice: the middleware,   *)
(* the gate before an unclaimed accessory and the panel that claims it do  *)
(* not send him back and forth.  When an accessory was opened (its link, a *)
(* Hold, "open the one held", a card) and it may be entered still, then    *)
(* unless another navigation came he ends in its wallet or where it is     *)
(* claimed, as the queries say.                                            *)
Arrives ==
    /\ hops <= 2
    /\ going = NoPage /\ asked # NoAccessory =>
           /\ screen.token = asked
           /\ screen.path \in {"wallet", "claim"}
           /\ LET owner == token_owner(asked, tokenAuthority, ownerSession)
              IN  IF screen.path = "wallet" THEN owner # "nobody"
                  ELSE owner \in {"nobody", "loading"}
=============================================================================
