------------------------------- MODULE Access -------------------------------
(***************************************************************************)
(* Who may open an accessory's pages, and what the API keeps to decide it. *)
(* A tap or a Hold of the accessory earns the `browse_unlock` cookie; a    *)
(* signed-in owner (`owner_session`, minted when the wallet backup is      *)
(* stored) earns `owner_browse` for an accessory the chain says is theirs. *)
(* The API keeps tap counters and wallet backups in D1 and single-use      *)
(* challenges in KV; everything else is in the cookies, which the browser  *)
(* sends as they are when a request leaves and changes when an answer      *)
(* arrives.  Every await of a handler is a step of its own.                *)
(*                                                                         *)
(* Lifetimes count ticks that are left rather than dates: a cookie, a      *)
(* challenge or an answer under way has one tick less after Tick.          *)
(***************************************************************************)
EXTENDS Naturals, FiniteSets, Sequences

CONSTANTS
    Tokens,         \* phygital tokens, one accessory each
    Keys,           \* owner public keys
    Credentials,    \* passkey credential ids (their hashes)
    Challenges,     \* challenge ids, each issued at most once
    Requests,       \* requests that can be under way at once
    None,
    BrowseTTL,      \* BROWSE_SESSION_TTL_MS, in ticks
    OwnerTTL,       \* OWNER_SESSION_TTL_MS
    ChallengeTTL,   \* how long KV keeps a challenge
    MaxCounter,     \* bound: taps of one accessory
    MaxEvents       \* bound: requests sent and authorities changed

ASSUME LimitsAssumption ==
    /\ MaxCounter \in Nat
    /\ BrowseTTL \in Nat \ {0}
    /\ OwnerTTL \in Nat \ {0}
    /\ ChallengeTTL \in Nat \ {0}

VARIABLES
    kv,         \* challenge -> [kind, left]; kind None: not issued yet
    counters,   \* D1 tap_counters: high-water mark, 0 without a row
    blobs,      \* D1 owner_wallet_blob: None or [key, blob, cose]
    authority,  \* on-chain authority of each token, None before the claim
    jar,        \* the browser's cookies
    reqs,       \* requests under way
    events,     \* bound: requests sent and authorities changed so far
    counted,   \* history: counters accepted for each accessory, in order
    spent,      \* history: challenges an answered request had accepted
    signedOut   \* history: what a sign-out took away and no request that
                \* was under way by then, and no later login, can bring back

server == <<kv, counters, blobs>>
history == <<counted, spent, signedOut>>
access == <<kv, counters, blobs, authority, jar, reqs, events,
          counted, spent, signedOut>>

-----------------------------------------------------------------------------
(* Cookies *)

NoCookie == [head |-> None, left |-> 0, by |-> None, stale |-> 0]

\* `by` and `stale` follow an owner_browse cookie for the properties: the key
\* it was minted for and the ticks since that key was last the authority.
Cookie(head, ttl, by) == [head |-> head, left |-> ttl, by |-> by, stale |-> 0]

\* parseSignedSessionToken: the head of a cookie that has not expired
Read(cookie) == IF cookie.left > 0 THEN cookie.head ELSE None

(* Mutant of IssueBrowseUnlock: leftover owner mode is not cleared. *)
issue_beside_owner(token) == [browse |-> Cookie(token, BrowseTTL, None)]

\* What an accepted tap or Hold sets: a physical proof drops owner mode.
IssueBrowseUnlock(token) ==
    [ownerBrowse |-> NoCookie, browse |-> Cookie(token, BrowseTTL, None)]

IssueOwnerBrowse(token, key) ==
    [browse |-> NoCookie, ownerBrowse |-> Cookie(token, BrowseTTL, key)]

(* Mutant of KeepOwnerBrowse: reopening starts the lifetime again. *)
renew_owner_browse(cookie) ==
    [browse |-> NoCookie, ownerBrowse |-> [cookie EXCEPT !.left = BrowseTTL]]

\* The accessory an owner reopens is admitted already: nothing is minted.
KeepOwnerBrowse(cookie) == [browse |-> NoCookie]

IssueOwnerSession(key) == [session |-> Cookie(key, OwnerTTL, None)]

(* Mutant of SignOut: owner mode is forgotten. *)
sign_out_session_only == [session |-> NoCookie]

SignOut == [session |-> NoCookie, ownerBrowse |-> NoCookie]

Unchanged == <<>>       \* an answer without Set-Cookie

-----------------------------------------------------------------------------
(* The gates that read the cookies *)

\* requireAppAccess: browse_unlock first, owner_browse only without it
AdmitToken(cookies) ==
    IF Read(cookies.browse) # None THEN Read(cookies.browse)
                                   ELSE Read(cookies.ownerBrowse)

ApiAdmits(cookies, token) == AdmitToken(cookies) = token

\* The app's middleware and the fee-balance route: either cookie will do
PageAdmits(cookies, token) ==
    token \in {Read(cookies.browse), Read(cookies.ownerBrowse)}

\* GET /accessory/session
SessionMode(cookies) ==
    CASE Read(cookies.browse) # None      -> "accessory"
      [] Read(cookies.browse) = None
         /\ Read(cookies.ownerBrowse) # None -> "owner"
      [] OTHER                            -> "none"

-----------------------------------------------------------------------------
(* Requests *)

Idle == [op |-> "idle"]

Reply(cookies, challenge) ==
    [op |-> "reply", set |-> cookies, used |-> challenge]

Refusal == Reply(Unchanged, None)

Goto(r, at) == reqs' = [reqs EXCEPT ![r] = [@ EXCEPT !.at = at]]

AnswerWith(r, reply) == reqs' = [reqs EXCEPT ![r] = reply]

Send(r, request) ==
    /\ reqs[r] = Idle
    /\ events < MaxEvents
    /\ events' = events + 1
    /\ reqs' = [reqs EXCEPT ![r] = request]

At(r, op, at) == reqs[r].op = op /\ reqs[r].at = at

\* createKvChallenge().issue: a fresh id, kept for the challenge's lifetime
IssueChallenge(kind, challenge) ==
    /\ kv[challenge].kind = None
    /\ kv' = [kv EXCEPT ![challenge] = [kind |-> kind, left |-> ChallengeTTL]]
    /\ UNCHANGED <<counters, blobs, authority, jar, reqs, events, history>>

\* createKvChallenge().consume, first half: the value is read ...
ConsumeRead(r, op, kind) ==
    /\ At(r, op, "read")
    /\ LET entry == kv[reqs[r].challenge] IN
         IF entry.kind = kind /\ entry.left > 0
         THEN Goto(r, "delete")
         ELSE AnswerWith(r, Refusal)
    /\ UNCHANGED <<server, authority, jar, events, history>>

(* Mutant of DropChallenge: the challenge is left to expire. *)
leave_challenge(challenge) == kv' = kv

\* ... and then deleted, which another reader may not have seen yet
DropChallenge(challenge) == kv' = [kv EXCEPT ![challenge] = [@ EXCEPT !.left = 0]]

-----------------------------------------------------------------------------
(* POST /accessory/unlock/tap *)

\* The chip counts its taps; the links it made may be opened in any order and
\* more than once.
SendTap(r, token, c) ==
    /\ Send(r, [op |-> "tap", at |-> "read", token |-> token, c |-> c])
    /\ UNCHANGED <<server, authority, jar, history>>

\* evaluateCounter over the stored mark
EvaluateCounter(token, c) == IF c > counters[token] THEN "new" ELSE "replay"

ReadCounter(r) ==
    /\ At(r, "tap", "read")
    /\ IF EvaluateCounter(reqs[r].token, reqs[r].c) = "new"
       THEN Goto(r, "write")
       ELSE AnswerWith(r, Refusal)
    /\ UNCHANGED <<server, authority, jar, events, history>>

(* Mutant of Advances: the upsert without its condition. *)
always_advances(token, c) == TRUE

\* The upsert's WHERE clause: does this statement change the row?
Advances(token, c) == counters[token] < c

WriteCounter(r) ==
    /\ At(r, "tap", "write")
    /\ LET token == reqs[r].token
           c == reqs[r].c
       IN  IF Advances(token, c)
           THEN /\ counters' = [counters EXCEPT ![token] = c]
                /\ counted' = [counted EXCEPT ![token] = Append(@, c)]
                /\ Goto(r, "resolve")
           ELSE /\ AnswerWith(r, Refusal)
                /\ UNCHANGED <<counters, counted>>
    /\ UNCHANGED <<kv, blobs, authority, jar, events, spent, signedOut>>

\* The token of the chip is looked up on chain; without it the tap was
\* verified and its counter is gone, but no cookie is issued.
ResolveToken(r) ==
    /\ At(r, "tap", "resolve")
    /\ \E found \in BOOLEAN :
          AnswerWith(r, IF found
                        THEN Reply(IssueBrowseUnlock(reqs[r].token), None)
                        ELSE Refusal)
    /\ UNCHANGED <<server, authority, jar, events, history>>

-----------------------------------------------------------------------------
(* POST /accessory/unlock/webauthn *)

SendHold(r, challenge, token) ==
    /\ kv[challenge].kind = "unlock"
    /\ Send(r, [op |-> "hold", at |-> "read", challenge |-> challenge,
                token |-> token, late |-> challenge \in spent])
    /\ UNCHANGED <<server, authority, jar, history>>

\* `valid`: the accessory signed this very challenge
VerifyHold(r) ==
    /\ At(r, "hold", "delete")
    /\ DropChallenge(reqs[r].challenge)
    /\ \E valid \in BOOLEAN :
          AnswerWith(r, IF valid
                        THEN Reply(IssueBrowseUnlock(reqs[r].token),
                                   reqs[r].challenge)
                        ELSE Refusal)
    /\ UNCHANGED <<counters, blobs, authority, jar, events, history>>

-----------------------------------------------------------------------------
(* POST /accessory/owner-browse and DELETE /owner-session *)

\* The cookies a handler reads are those the browser held when it sent them.
SendOwnerBrowse(r, token) ==
    /\ Send(r, [op |-> "owner", at |-> "start", token |-> token,
                session |-> jar.session, existing |-> jar.ownerBrowse])
    /\ UNCHANGED <<server, authority, jar, history>>

CheckOwnerSession(r) ==
    /\ At(r, "owner", "start")
    /\ CASE Read(reqs[r].session) = None -> AnswerWith(r, Refusal)
         [] Read(reqs[r].session) # None
            /\ Read(reqs[r].existing) = reqs[r].token ->
               AnswerWith(r, Reply(KeepOwnerBrowse(reqs[r].existing), None))
         [] OTHER -> AnswerWith(r, [op |-> "owner", at |-> "lookup",
                                    token |-> reqs[r].token,
                                    key |-> reqs[r].session.head])
    /\ UNCHANGED <<server, authority, jar, events, history>>

\* not_claimed and not_authority are refused alike
LookupAuthority(r) ==
    /\ At(r, "owner", "lookup")
    /\ LET key == reqs[r].key IN
         AnswerWith(r, IF authority[reqs[r].token] = key
                       THEN Reply(IssueOwnerBrowse(reqs[r].token, key), None)
                       ELSE Refusal)
    /\ UNCHANGED <<server, authority, jar, events, history>>

SendSignOut(r) ==
    /\ Send(r, [op |-> "signout", at |-> "start"])
    /\ UNCHANGED <<server, authority, jar, history>>

ClearOwnerSession(r) ==
    /\ At(r, "signout", "start")
    /\ AnswerWith(r, [Reply(SignOut, None) EXCEPT !.op = "signedout"])
    /\ UNCHANGED <<server, authority, jar, events, history>>

-----------------------------------------------------------------------------
(* PUT /owner-wallet/blob and POST /owner-wallet/blob/restore *)

\* The handler has matched the key and the attested credential with the blob's
\* header, so a blob is the key it holds and its serial number.
SendPut(r, challenge, credential, blob) ==
    /\ kv[challenge].kind = "backup"
    /\ Send(r, [op |-> "put", at |-> "read", challenge |-> challenge,
                credential |-> credential, blob |-> blob,
                late |-> challenge \in spent])
    /\ signedOut' = signedOut \ {"session"}
    /\ UNCHANGED <<server, authority, jar, counted, spent>>

VerifyPossession(r) ==
    /\ At(r, "put", "delete")
    /\ DropChallenge(reqs[r].challenge)
    /\ Goto(r, "select") \/ AnswerWith(r, Refusal)
    /\ UNCHANGED <<counters, blobs, authority, jar, events, history>>

\* A complete row: the key, its ciphertext and the passkey's COSE key
Row(blob) == [key |-> blob.key, blob |-> blob, cose |-> TRUE]

\* mapRow: a row without its COSE key counts as none
StoredBlob(credential) ==
    IF blobs[credential] # None /\ blobs[credential].cose
    THEN blobs[credential] ELSE None

Stored(r) == Reply(IssueOwnerSession(reqs[r].blob.key), reqs[r].challenge)

\* A refusal of the store has used the challenge up all the same.
NotStored(r) == Reply(Unchanged, reqs[r].challenge)

SelectBlob(r) ==
    /\ At(r, "put", "select")
    /\ LET existing == StoredBlob(reqs[r].credential)
           blob == reqs[r].blob
       IN  CASE existing = None -> Goto(r, "drop")
             [] existing # None /\ existing.key # blob.key ->
                AnswerWith(r, NotStored(r))
             [] existing # None /\ existing.key = blob.key
                /\ existing.blob = blob -> AnswerWith(r, Stored(r))
             [] OTHER -> Goto(r, "update")
    /\ UNCHANGED <<server, authority, jar, events, history>>

\* UPDATE ... WHERE credential_id_hash = ?: the ciphertext, and nothing else
WithBlob(row, blob) == IF row = None THEN None ELSE [row EXCEPT !.blob = blob]

UpdateBlob(r) ==
    /\ At(r, "put", "update")
    /\ blobs' = [blobs EXCEPT ![reqs[r].credential] =
                    WithBlob(@, reqs[r].blob)]
    /\ AnswerWith(r, Stored(r))
    /\ UNCHANGED <<kv, counters, authority, jar, events, history>>

\* DELETE ... AND webauthn_public_key IS NULL
WithoutIncomplete(row) == IF row # None /\ ~row.cose THEN None ELSE row

DropIncomplete(r) ==
    /\ At(r, "put", "drop")
    /\ blobs' = [blobs EXCEPT ![reqs[r].credential] = WithoutIncomplete(@)]
    /\ \E attested \in BOOLEAN :
          IF attested THEN Goto(r, "insert") ELSE AnswerWith(r, NotStored(r))
    /\ UNCHANGED <<kv, counters, authority, jar, events, history>>

(* Mutant of CanInsert: INSERT OR REPLACE. *)
insert_or_replace(credential) == TRUE

\* The plain INSERT: the primary key refuses a second row (answered with 502).
CanInsert(credential) == blobs[credential] = None

InsertBlob(r) ==
    /\ At(r, "put", "insert")
    /\ LET credential == reqs[r].credential IN
         IF CanInsert(credential)
         THEN /\ blobs' = [blobs EXCEPT ![credential] =
                              Row(reqs[r].blob)]
              /\ AnswerWith(r, Stored(r))
         ELSE /\ AnswerWith(r, NotStored(r))
              /\ UNCHANGED blobs
    /\ UNCHANGED <<kv, counters, authority, jar, events, history>>

SendRestore(r, challenge, credential) ==
    /\ kv[challenge].kind = "restore"
    /\ Send(r, [op |-> "restore", at |-> "read", challenge |-> challenge,
                credential |-> credential, late |-> challenge \in spent])
    /\ UNCHANGED <<server, authority, jar, history>>

DropRestoreChallenge(r) ==
    /\ At(r, "restore", "delete")
    /\ DropChallenge(reqs[r].challenge)
    /\ Goto(r, "select")
    /\ UNCHANGED <<counters, blobs, authority, jar, events, history>>

\* The row is loaded and the assertion judged with its key.
LoadBlob(r) ==
    /\ At(r, "restore", "select")
    /\ \/ StoredBlob(reqs[r].credential) # None
          /\ AnswerWith(r, Reply(Unchanged, reqs[r].challenge))
       \/ AnswerWith(r, Refusal)
    /\ UNCHANGED <<server, authority, jar, events, history>>

-----------------------------------------------------------------------------
(* Answers, failures, time and the authority outside *)

Overlaid(set, cookies) ==
    [name \in DOMAIN cookies |-> IF name \in DOMAIN set THEN set[name] ELSE cookies[name]]

OwnerCookies == {"session", "ownerBrowse"}

\* Requests that may end in a cookie: a backup in a session, an owner open in
\* owner mode, if it was sent with a session.
mints(q, name) ==
    \/ q.op = "put" /\ name = "session"
    \/ q.op = "owner" /\ name = "ownerBrowse" /\ (q.at = "start" => q.session.left > 0)
    \/ q.op = "reply" /\ name \in DOMAIN q.set /\ q.set[name].left > 0

\* A sign-out is over, but for what others under way may bring back; signed in
\* again, the browser may have either.
gone_after(r) ==
    CASE reqs[r].op = "signedout" ->
           signedOut \cup {name \in OwnerCookies :
                              \A q \in Requests \ {r} : ~mints(reqs[q], name)}
      [] mints(reqs[r], "session") -> {}
      [] OTHER -> signedOut

\* The browser takes an answer's cookies all at once.
Answer(r) ==
    /\ reqs[r].op \in {"reply", "signedout"}
    /\ jar' = Overlaid(reqs[r].set, jar)
    /\ reqs' = [reqs EXCEPT ![r] = Idle]
    /\ spent' = spent \cup ({reqs[r].used} \ {None})
    /\ signedOut' = gone_after(r)
    /\ UNCHANGED <<server, authority, events, counted>>

\* The answer never arrives: the server has done its part.
LoseAnswer(r) ==
    /\ reqs[r].op \in {"reply", "signedout"}
    /\ reqs' = [reqs EXCEPT ![r] = Idle]
    /\ spent' = spent \cup ({reqs[r].used} \ {None})
    /\ UNCHANGED <<server, authority, jar, events, counted, signedOut>>

\* A call of D1, KV or the RPC throws, or the worker dies: an error, and no
\* cookie.  What the earlier statements did stays done.
Break(r) ==
    /\ reqs[r].op \notin {"idle", "reply", "signedout"}
    /\ AnswerWith(r, Refusal)
    /\ UNCHANGED <<server, authority, jar, events, history>>

Aged(cookie) ==
    IF cookie.left <= 1 THEN NoCookie
    ELSE LET lost == cookie.by # None /\ authority[cookie.head] # cookie.by
         IN  [head |-> cookie.head, left |-> cookie.left - 1, by |-> cookie.by,
              stale |-> IF lost THEN cookie.stale + 1 ELSE 0]

AgedRequest(request) ==
    CASE request.op \in {"reply", "signedout"} ->
           [op |-> request.op, used |-> request.used,
            set |-> [name \in DOMAIN request.set |-> Aged(request.set[name])]]
      [] request.op = "owner" /\ request.at = "start" ->
           [op |-> "owner", at |-> "start", token |-> request.token,
            session |-> Aged(request.session), existing |-> Aged(request.existing)]
      [] OTHER -> request

Tick ==
    /\ jar' = [name \in DOMAIN jar |-> Aged(jar[name])]
    /\ reqs' = [r \in Requests |-> AgedRequest(reqs[r])]
    /\ kv' = [c \in Challenges |->
                 [kv[c] EXCEPT !.left = IF @ > 0 THEN @ - 1 ELSE 0]]
    /\ UNCHANGED <<counters, blobs, authority, events, history>>

\* A claim or a handover lands on chain.
ChangeAuthority(token, key) ==
    /\ authority[token] # key
    /\ events < MaxEvents
    /\ events' = events + 1
    /\ authority' = [authority EXCEPT ![token] = key]
    /\ UNCHANGED <<server, jar, reqs, history>>

-----------------------------------------------------------------------------
Blobs == [key : Keys, serial : 1 .. 2]

Rows == [key : Keys, blob : Blobs, cose : BOOLEAN]

ASSUME CredentialsAssumption == Credentials # {}

ASSUME NoneAssumption ==
    /\ None \notin Tokens \cup Keys \cup Challenges
    /\ None \notin {"unlock", "backup", "restore"}
    /\ \A row \in Rows : row # None

NoRow == [credential \in Credentials |-> None]

\* A row kept from before COSE keys were required
LegacyRow(key) == [key |-> key, blob |-> [key |-> key, serial |-> 1],
                   cose |-> FALSE]

SignedOutJar ==
    [browse |-> NoCookie, ownerBrowse |-> NoCookie, session |-> NoCookie]

SignedInJar(key) == [SignedOutJar EXCEPT !.session = Cookie(key, OwnerTTL, None)]

AccessInit ==
    /\ kv = [c \in Challenges |-> [kind |-> None, left |-> 0]]
    /\ counters = [t \in Tokens |-> 0]
    /\ \/ /\ jar = SignedOutJar
          /\ blobs \in {NoRow} \cup
                       {[c \in Credentials |-> LegacyRow(k)] : k \in Keys}
       \/ \E k \in Keys :
             /\ jar = SignedInJar(k)
             /\ blobs = [c \in Credentials |-> Row([key |-> k, serial |-> 1])]
    /\ authority \in [Tokens -> Keys \cup {None}]
    /\ reqs = [r \in Requests |-> Idle]
    /\ events = 0
    /\ counted = [t \in Tokens |-> <<>>]
    /\ spent = {}
    /\ signedOut = {}

Begin(r) ==
    \/ \E t \in Tokens, c \in 1 .. MaxCounter : SendTap(r, t, c)
    \/ \E ch \in Challenges, t \in Tokens : SendHold(r, ch, t)
    \/ \E t \in Tokens : SendOwnerBrowse(r, t)
    \/ SendSignOut(r)
    \/ \E ch \in Challenges, cr \in Credentials, b \in Blobs :
          SendPut(r, ch, cr, b)
    \/ \E ch \in Challenges, cr \in Credentials : SendRestore(r, ch, cr)

Handle(r) ==
    \/ ReadCounter(r) \/ WriteCounter(r) \/ ResolveToken(r)
    \/ ConsumeRead(r, "hold", "unlock") \/ VerifyHold(r)
    \/ CheckOwnerSession(r) \/ LookupAuthority(r) \/ ClearOwnerSession(r)
    \/ ConsumeRead(r, "put", "backup") \/ VerifyPossession(r)
    \/ SelectBlob(r) \/ UpdateBlob(r) \/ DropIncomplete(r) \/ InsertBlob(r)
    \/ ConsumeRead(r, "restore", "restore") \/ DropRestoreChallenge(r)
    \/ LoadBlob(r) \/ Break(r)

AccessNext ==
    \/ \E r \in Requests :
          Begin(r) \/ Handle(r) \/ Answer(r) \/ LoseAnswer(r)
    \/ \E kind \in {"unlock", "backup", "restore"}, ch \in Challenges :
          IssueChallenge(kind, ch)
    \/ \E t \in Tokens, k \in Keys : ChangeAuthority(t, k)
    \/ Tick

AccessSpec == AccessInit /\ [][AccessNext]_access

-----------------------------------------------------------------------------
(* Properties *)

\* The gates read the two admit cookies differently: the API looks at
\* owner_browse only without a browse_unlock, the app's middleware and the
\* fee-balance route take either.  They agree on every accessory whatever
\* answers crossed, because no answer leaves both cookies alive.
GatesAgree ==
    /\ \A t \in Tokens : PageAdmits(jar, t) <=> ApiAdmits(jar, t)
    /\ SessionMode(jar) = "none" <=> \A t \in Tokens : ~PageAdmits(jar, t)

\* Of all the times a tap link is opened, at once or again later, the API
\* accepts each counter of an accessory at most once and only in rising
\* order, although the mark is read and written in two statements.
TapsRise ==
    \A t \in Tokens :
      /\ \A i, j \in DOMAIN counted[t] :
            i < j => counted[t][i] < counted[t][j]
      /\ counted[t] # <<>> => counters[t] = counted[t][Len(counted[t])]

\* A challenge is spent once an answer has accepted it: a request sent after
\* that answer never gets past the challenge.  Requests under way at the same
\* time may share one, for it is read before it is deleted.
ChallengeSpent ==
    \A r \in Requests :
      reqs[r].op \in {"hold", "put", "restore"} /\ reqs[r].late
         => reqs[r].at = "read"

\* Owner mode outlives the ownership by one cookie lifetime at most: the
\* chain is asked when the cookie is minted, and reopening the same accessory
\* does not start the lifetime again.
OwnerModeExpires == jar.ownerBrowse.left + jar.ownerBrowse.stale <= BrowseTTL

\* Signing out takes the session and owner mode away for good, whatever else
\* is under way: a session comes back by a backup, begun before the sign-out
\* was answered or after it, and by nothing else; owner mode by an accessory
\* that was being opened with the session, or once a session is back.  An
\* open sent later, a tap, a Hold or another sign-out that crosses it brings
\* back neither.  (Nothing cancels what was sent before: an open or a backup
\* that is answered last has the last word.)
SignOutHolds == \A name \in signedOut : Read(jar[name]) = None

\* A browser signed in as a key is one whose wallet can be restored: however
\* backups of one passkey race, a session is only minted for a key whose
\* complete row is stored, and a complete row keeps its public key and its COSE
\* key, with a ciphertext that is always one of that public key.
SessionBacked ==
    Read(jar.session) # None =>
       \E c \in Credentials :
          StoredBlob(c) # None /\ StoredBlob(c).key = jar.session.head

RowKept(c) ==
    StoredBlob(c) # None =>
       /\ StoredBlob(c)' # None
       /\ blobs'[c].key = blobs[c].key
       /\ blobs'[c].blob.key = blobs[c].key

BackupKept == []SessionBacked /\ [][\A c \in Credentials : RowKept(c)]_access

=============================================================================
