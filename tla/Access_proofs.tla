--------------------------- MODULE Access_proofs ---------------------------
(***************************************************************************)
(* Proofs about access to accessories, for any number of tokens, keys,     *)
(* passkeys, challenges and requests under way, and any lifetimes; and     *)
(* about the web app's way to their pages, for any number of accessories.  *)
(*                                                                         *)
(* RequestOK says what a request carries at each of its awaits.  On it     *)
(* rest four invariants, one for what each part of the state promises: the *)
(* counters, the challenges, the cookies and the stored backups.           *)
(***************************************************************************)
EXTENDS Access, AccessoryRoutes, TLAPS

Names == {"browse", "ownerBrowse", "session"}
Heads(name) == (IF name = "session" THEN Keys ELSE Tokens) \cup {None}

CookieType(name) == [head : Heads(name), left : Nat, by : Keys \cup {None}, stale : Nat]

\* Some of the browser's cookies: its own, or those an answer sets.
Cookies(set) ==
    /\ DOMAIN set \subseteq Names
    /\ \A name \in DOMAIN set : set[name] \in CookieType(name)

RequestOK(q) ==
    /\ q.op \in {"idle", "tap", "hold", "owner", "signout", "put", "restore", "reply", "signedout"}
    /\ q.op = "tap" => q.token \in Tokens /\ q.c \in Nat
    /\ q.op = "hold" => q.token \in Tokens
    /\ q.op \in {"tap", "hold", "put", "restore"} => "at" \in DOMAIN q
    /\ q.op \in {"hold", "put", "restore"} => q.challenge \in Challenges
    /\ q.op = "owner" =>
          /\ q.token \in Tokens
          /\ \/ /\ q.at = "start"
                /\ q.session \in CookieType("session")
                /\ q.existing \in CookieType("ownerBrowse")
             \/ q.at = "lookup" /\ q.key \in Keys
    /\ q.op \in {"put", "restore"} => q.credential \in Credentials
    /\ q.op = "put" => q.blob \in Blobs
    /\ q.op \in {"reply", "signedout"} => Cookies(q.set) /\ q.used \in Challenges \cup {None}

TypeOK ==
    /\ kv \in [Challenges -> [kind : {"unlock", "backup", "restore", None}, left : Nat]]
    /\ counters \in [Tokens -> Nat]
    /\ blobs \in [Credentials -> Rows \cup {None}]
    /\ DOMAIN jar = Names /\ Cookies(jar)
    /\ DOMAIN reqs = Requests /\ \A r \in Requests : RequestOK(reqs[r])
    /\ counted \in [Tokens -> Seq(Nat)]
    /\ spent \subseteq Challenges
    /\ signedOut \subseteq OwnerCookies

-----------------------------------------------------------------------------
(* Cookies and answers.                                                    *)

LEMMA NoCookieType == \A name \in Names : NoCookie \in CookieType(name)
  BY DEF NoCookie, CookieType, Heads

LEMMA IssuedType ==
    /\ \A token \in Tokens : Cookies(IssueBrowseUnlock(token))
    /\ \A token \in Tokens, key \in Keys : Cookies(IssueOwnerBrowse(token, key))
    /\ \A cookie : Cookies(KeepOwnerBrowse(cookie))
    /\ \A key \in Keys : Cookies(IssueOwnerSession(key))
    /\ Cookies(SignOut)
    /\ Cookies(Unchanged)
  BY LimitsAssumption, NoCookieType
     DEF Cookies, CookieType, Heads, Names, Cookie, IssueBrowseUnlock, IssueOwnerBrowse,
         KeepOwnerBrowse, IssueOwnerSession, SignOut, Unchanged

LEMMA AgedType ==
    ASSUME NEW name \in Names, NEW cookie \in CookieType(name)
    PROVE  /\ Aged(cookie) \in CookieType(name)
           /\ Aged(cookie).left > 0 => cookie.left > 0 /\ Aged(cookie).head = cookie.head
           /\ Aged(cookie).left + Aged(cookie).stale <= cookie.left + cookie.stale
<1>1. CASE cookie.left <= 1
  BY <1>1, NoCookieType DEF Aged, NoCookie, CookieType
<1>2. CASE ~(cookie.left <= 1)
  BY <1>2 DEF Aged, CookieType
<1> QED  BY <1>1, <1>2

LEMMA AgedCookies ==
    ASSUME NEW set, Cookies(set)
    PROVE  Cookies([name \in DOMAIN set |-> Aged(set[name])])
  BY AgedType DEF Cookies

LEMMA OverlaidCookies ==
    ASSUME NEW set, NEW kept, Cookies(set), Cookies(kept), DOMAIN kept = Names
    PROVE  /\ Cookies(Overlaid(set, kept)) /\ DOMAIN Overlaid(set, kept) = Names
           /\ \A name \in Names : Overlaid(set, kept)[name] = IF name \in DOMAIN set THEN set[name]
                                                                             ELSE kept[name]
  BY DEF Cookies, Overlaid

LEMMA ReplyOK ==
    ASSUME NEW set, Cookies(set), NEW used \in Challenges \cup {None}
    PROVE  RequestOK(Reply(set, used))
  BY DEF RequestOK, Reply

LEMMA RefusalOK == RequestOK(Refusal)
  BY ReplyOK, IssuedType DEF Refusal

LEMMA InitType == AccessInit => TypeOK
<1> SUFFICES ASSUME AccessInit PROVE TypeOK
  OBVIOUS
<1>1. DOMAIN SignedOutJar = Names /\ Cookies(SignedOutJar)
  BY NoCookieType DEF SignedOutJar, Cookies, Names
<1>2. ASSUME NEW k \in Keys PROVE DOMAIN SignedInJar(k) = Names /\ Cookies(SignedInJar(k))
  BY <1>1, LimitsAssumption DEF SignedInJar, SignedOutJar, Cookies, CookieType, Cookie, Heads, Names
<1>3. \A k \in Keys : LegacyRow(k) \in Rows /\ Row([key |-> k, serial |-> 1]) \in Rows
  BY DEF LegacyRow, Row, Rows, Blobs
<1>4. blobs \in [Credentials -> Rows \cup {None}]
  BY <1>3 DEF AccessInit, NoRow
<1>5. DOMAIN jar = Names /\ Cookies(jar)
  BY <1>1, <1>2 DEF AccessInit
<1>6. RequestOK(Idle)
  BY DEF RequestOK, Idle
<1>7. counted \in [Tokens -> Seq(Nat)]
  BY DEF AccessInit
<1> QED  BY <1>4, <1>5, <1>6, <1>7 DEF AccessInit, TypeOK

-----------------------------------------------------------------------------
(* Types.  Each handler leaves its request at a later await, or answered.  *)

LEMMA SentOK ==
    ASSUME TypeOK, NEW r \in Requests, Begin(r)
    PROVE  \E q : RequestOK(q) /\ q.op \notin {"reply", "signedout"} /\ reqs' = [reqs EXCEPT ![r] = q]
<1>1. jar["session"] \in CookieType("session") /\ jar["ownerBrowse"] \in CookieType("ownerBrowse")
  BY DEF TypeOK, Cookies, Names
<1>2. ASSUME NEW t \in Tokens, NEW c \in 1 .. MaxCounter, SendTap(r, t, c)
      PROVE  \E q : RequestOK(q) /\ q.op \notin {"reply", "signedout"} /\ reqs' = [reqs EXCEPT ![r] = q]
  <2> DEFINE q == [op |-> "tap", at |-> "read", token |-> t, c |-> c]
  <2>1. c \in Nat
    BY LimitsAssumption
  <2>2. RequestOK(q)
    BY <2>1 DEF RequestOK
  <2>3. reqs' = [reqs EXCEPT ![r] = q]
    BY <1>2 DEF SendTap, Send
  <2> QED  BY <2>2, <2>3
<1>3. ASSUME NEW ch \in Challenges, NEW t \in Tokens, SendHold(r, ch, t)
      PROVE  \E q : RequestOK(q) /\ q.op \notin {"reply", "signedout"} /\ reqs' = [reqs EXCEPT ![r] = q]
  BY <1>3 DEF SendHold, Send, RequestOK
<1>4. ASSUME NEW t \in Tokens, SendOwnerBrowse(r, t)
      PROVE  \E q : RequestOK(q) /\ q.op \notin {"reply", "signedout"} /\ reqs' = [reqs EXCEPT ![r] = q]
  BY <1>1, <1>4 DEF SendOwnerBrowse, Send, RequestOK
<1>5. CASE SendSignOut(r)
  BY <1>5 DEF SendSignOut, Send, RequestOK
<1>6. ASSUME NEW ch \in Challenges, NEW cr \in Credentials, NEW b \in Blobs, SendPut(r, ch, cr, b)
      PROVE  \E q : RequestOK(q) /\ q.op \notin {"reply", "signedout"} /\ reqs' = [reqs EXCEPT ![r] = q]
  BY <1>6 DEF SendPut, Send, RequestOK
<1>7. ASSUME NEW ch \in Challenges, NEW cr \in Credentials, SendRestore(r, ch, cr)
      PROVE  \E q : RequestOK(q) /\ q.op \notin {"reply", "signedout"} /\ reqs' = [reqs EXCEPT ![r] = q]
  BY <1>7 DEF SendRestore, Send, RequestOK
<1> QED  BY <1>2, <1>3, <1>4, <1>5, <1>6, <1>7 DEF Begin

\* What a handler may set, and when.
Issued(r, set) ==
    \/ set = Unchanged
    \/ \E token \in Tokens : set = IssueBrowseUnlock(token)
    \/ reqs[r].op = "owner" /\ \E cookie : set = KeepOwnerBrowse(cookie)
    \/ /\ reqs[r].op = "owner" /\ reqs[r].at = "lookup"
       /\ \E token \in Tokens, key \in Keys : set = IssueOwnerBrowse(token, key)
    \/ reqs[r].op = "put" /\ set = IssueOwnerSession(reqs[r].blob.key)

\* Where a handler leaves its request.
Moves(r, q) ==
    \/ /\ reqs[r].op \in {"tap", "hold", "put", "restore"}
       /\ \E at : q = [reqs[r] EXCEPT !.at = at]
    \/ \E set, used : q = Reply(set, used) /\ Issued(r, set) /\ used \in Challenges \cup {None}
    \/ /\ reqs[r].op = "owner" /\ reqs[r].at = "start" /\ Read(reqs[r].session) # None
       /\ q = [op |-> "owner", at |-> "lookup", token |-> reqs[r].token,
               key |-> reqs[r].session.head]
    \/ q = [Reply(SignOut, None) EXCEPT !.op = "signedout"]

LEMMA MoveOn ==
    ASSUME NEW r \in Requests, reqs[r].op \in {"tap", "hold", "put", "restore"}, NEW at, Goto(r, at)
    PROVE  \E q : Moves(r, q) /\ reqs' = [reqs EXCEPT ![r] = q]
  BY DEF Goto, Moves

LEMMA Answers ==
    ASSUME NEW r \in Requests, NEW set, NEW used \in Challenges \cup {None}, Issued(r, set),
           AnswerWith(r, Reply(set, used))
    PROVE  \E q : Moves(r, q) /\ reqs' = [reqs EXCEPT ![r] = q]
  BY DEF AnswerWith, Moves

LEMMA Refuses ==
    ASSUME NEW r \in Requests, AnswerWith(r, Refusal)
    PROVE  \E q : Moves(r, q) /\ reqs' = [reqs EXCEPT ![r] = q]
  BY Answers DEF Refusal, Issued

LEMMA Handling ==
    ASSUME TypeOK, NEW r \in Requests, Handle(r)
    PROVE  /\ \E q : Moves(r, q) /\ reqs' = [reqs EXCEPT ![r] = q]
           /\ UNCHANGED <<authority, jar, events, spent, signedOut>>
<1> DEFINE Moved == \E q : Moves(r, q) /\ reqs' = [reqs EXCEPT ![r] = q]
<1>1. RequestOK(reqs[r])
  BY DEF TypeOK
<1> HIDE DEF Moved
<1>2. ASSUME AnswerWith(r, Refusal) PROVE Moved
  BY <1>2, Refuses DEF Moved
<1>3. ASSUME reqs[r].op \in {"tap", "hold", "put", "restore"}, NEW at, Goto(r, at) PROVE Moved
  BY <1>3, MoveOn DEF Moved
<1>4. ASSUME NEW set, NEW used \in Challenges \cup {None}, Issued(r, set),
             AnswerWith(r, Reply(set, used))
      PROVE  Moved
  BY <1>4, Answers DEF Moved
<1>5. ASSUME ReadCounter(r) \/ WriteCounter(r) PROVE Moved
  BY <1>2, <1>3, <1>5 DEF ReadCounter, WriteCounter, At
<1>6. ASSUME ResolveToken(r) PROVE Moved
  <2>1. reqs[r].token \in Tokens
    BY <1>1, <1>6 DEF ResolveToken, At, RequestOK
  <2>2. Issued(r, IssueBrowseUnlock(reqs[r].token))
    BY <2>1 DEF Issued
  <2> QED  BY <1>2, <1>4, <1>6, <2>2 DEF ResolveToken
<1>7. ASSUME NEW op \in {"hold", "put", "restore"}, NEW kind, ConsumeRead(r, op, kind) PROVE Moved
  BY <1>2, <1>3, <1>7 DEF ConsumeRead, At
<1>8. ASSUME VerifyHold(r) PROVE Moved
  <2>1. reqs[r].token \in Tokens /\ reqs[r].challenge \in Challenges
    BY <1>1, <1>8 DEF VerifyHold, At, RequestOK
  <2>2. Issued(r, IssueBrowseUnlock(reqs[r].token))
    BY <2>1 DEF Issued
  <2> QED  BY <1>2, <1>4, <1>8, <2>1, <2>2 DEF VerifyHold
<1>9. ASSUME CheckOwnerSession(r) PROVE Moved
  <2>1. reqs[r].op = "owner" /\ reqs[r].at = "start"
    BY <1>9 DEF CheckOwnerSession, At
  <2>2. CASE AnswerWith(r, Reply(KeepOwnerBrowse(reqs[r].existing), None))
    BY <1>4, <2>1, <2>2 DEF Issued
  <2>3. CASE /\ Read(reqs[r].session) # None
             /\ AnswerWith(r, [op |-> "owner", at |-> "lookup", token |-> reqs[r].token,
                               key |-> reqs[r].session.head])
    BY <2>1, <2>3 DEF AnswerWith, Moved, Moves
  <2> QED  BY <1>2, <1>9, <2>2, <2>3 DEF CheckOwnerSession
<1>10. ASSUME LookupAuthority(r) PROVE Moved
  <2>1. reqs[r].op = "owner" /\ reqs[r].at = "lookup" /\ reqs[r].token \in Tokens /\ reqs[r].key \in Keys
    BY <1>1, <1>10 DEF LookupAuthority, At, RequestOK
  <2>2. Issued(r, IssueOwnerBrowse(reqs[r].token, reqs[r].key))
    BY <2>1 DEF Issued
  <2> QED  BY <1>2, <1>4, <1>10, <2>2 DEF LookupAuthority
<1>11. ASSUME ClearOwnerSession(r) PROVE Moved
  BY <1>11 DEF ClearOwnerSession, AnswerWith, Moved, Moves
<1>12. ASSUME reqs[r].op = "put"
       PROVE  /\ AnswerWith(r, Stored(r)) => Moved
              /\ AnswerWith(r, NotStored(r)) => Moved
  <2>1. reqs[r].challenge \in Challenges
    BY <1>1, <1>12 DEF RequestOK
  <2>2. Issued(r, IssueOwnerSession(reqs[r].blob.key)) /\ Issued(r, Unchanged)
    BY <1>12 DEF Issued
  <2> QED  BY <1>4, <2>1, <2>2 DEF Stored, NotStored
<1>13. ASSUME VerifyPossession(r) PROVE Moved
  BY <1>2, <1>3, <1>13 DEF VerifyPossession, At
<1>14. ASSUME SelectBlob(r) PROVE Moved
  <2>1. reqs[r].op = "put"
    BY <1>14 DEF SelectBlob, At
  <2>2. \/ AnswerWith(r, NotStored(r)) \/ AnswerWith(r, Stored(r))
        \/ Goto(r, "drop") \/ Goto(r, "update")
    BY <1>14 DEF SelectBlob
  <2> QED  BY <1>3, <1>12, <2>1, <2>2
<1>15. ASSUME UpdateBlob(r) \/ DropIncomplete(r) \/ InsertBlob(r) PROVE Moved
  <2>1. reqs[r].op = "put"
    BY <1>15 DEF UpdateBlob, DropIncomplete, InsertBlob, At
  <2>2. AnswerWith(r, NotStored(r)) \/ AnswerWith(r, Stored(r)) \/ Goto(r, "insert")
    BY <1>15 DEF UpdateBlob, DropIncomplete, InsertBlob
  <2> QED  BY <1>3, <1>12, <2>1, <2>2
<1>16. ASSUME DropRestoreChallenge(r) PROVE Moved
  BY <1>3, <1>16 DEF DropRestoreChallenge, At
<1>17. ASSUME LoadBlob(r) PROVE Moved
  <2>1. reqs[r].challenge \in Challenges
    BY <1>1, <1>17 DEF LoadBlob, At, RequestOK
  <2>2. Issued(r, Unchanged)
    BY DEF Issued
  <2> QED  BY <1>2, <1>4, <1>17, <2>1, <2>2 DEF LoadBlob
<1>18. ASSUME Break(r) PROVE Moved
  BY <1>2, <1>18 DEF Break
<1>19. Moved
  BY <1>5, <1>6, <1>7, <1>8, <1>9, <1>10, <1>11, <1>13, <1>14, <1>15, <1>16, <1>17, <1>18
     DEF Handle
<1>20. UNCHANGED <<authority, jar, events, spent, signedOut>>
  BY DEF Handle, ReadCounter, WriteCounter, ResolveToken, ConsumeRead, VerifyHold,
         CheckOwnerSession, LookupAuthority, ClearOwnerSession, VerifyPossession, SelectBlob,
         UpdateBlob, DropIncomplete, InsertBlob, DropRestoreChallenge, LoadBlob, Break, history
<1> QED  BY <1>19, <1>20 DEF Moved

-----------------------------------------------------------------------------
(* Steps, by what they touch.                                              *)

LEMMA MovesOK ==
    ASSUME TypeOK, NEW r \in Requests, NEW q, Moves(r, q)
    PROVE  RequestOK(q)
<1>1. RequestOK(reqs[r])
  BY DEF TypeOK
<1>2. CASE reqs[r].op \in {"tap", "hold", "put", "restore"} /\ \E at : q = [reqs[r] EXCEPT !.at = at]
  BY <1>1, <1>2 DEF RequestOK
<1>3. ASSUME NEW set, NEW used \in Challenges \cup {None}, q = Reply(set, used), Issued(r, set)
      PROVE  RequestOK(q)
  <2>1. ASSUME reqs[r].op = "put" PROVE reqs[r].blob.key \in Keys
    BY <1>1, <2>1 DEF RequestOK, Blobs
  <2>2. Cookies(set)
    BY <1>3, <2>1, IssuedType DEF Issued
  <2> QED  BY <1>3, <2>2, ReplyOK
<1>4. CASE /\ reqs[r].op = "owner" /\ reqs[r].at = "start" /\ Read(reqs[r].session) # None
           /\ q = [op |-> "owner", at |-> "lookup", token |-> reqs[r].token,
                   key |-> reqs[r].session.head]
  <2>1. reqs[r].session \in CookieType("session") /\ reqs[r].token \in Tokens
    BY <1>1, <1>4 DEF RequestOK
  <2>2. reqs[r].session.head \in Keys
    BY <1>4, <2>1 DEF Read, CookieType, Heads
  <2> QED  BY <1>4, <2>1, <2>2 DEF RequestOK
<1>5. CASE q = [Reply(SignOut, None) EXCEPT !.op = "signedout"]
  BY <1>5, IssuedType DEF Reply, RequestOK
<1> QED  BY <1>2, <1>3, <1>4, <1>5 DEF Moves

\* An answer arrives, or is lost.
Ends(r) == Answer(r) \/ LoseAnswer(r)

LEMMA EndsIdle ==
    ASSUME TypeOK, NEW r \in Requests, Ends(r)
    PROVE  /\ reqs' = [reqs EXCEPT ![r] = Idle]
           /\ reqs[r].op \in {"reply", "signedout"}
           /\ Cookies(reqs[r].set) /\ reqs[r].used \in Challenges \cup {None}
           /\ spent' = spent \cup ({reqs[r].used} \ {None})
           /\ UNCHANGED <<kv, counters, blobs, authority, events, counted>>
<1>1. RequestOK(reqs[r])
  BY DEF TypeOK
<1> QED  BY <1>1 DEF Ends, Answer, LoseAnswer, server, RequestOK

Issues == \E kind \in {"unlock", "backup", "restore"}, ch \in Challenges : IssueChallenge(kind, ch)
Changes == \E t \in Tokens, k \in Keys : ChangeAuthority(t, k)

LEMMA Steps ==
    ASSUME [AccessNext]_access
    PROVE  \/ \E r \in Requests : Begin(r)
           \/ \E r \in Requests : Handle(r)
           \/ \E r \in Requests : Ends(r)
           \/ Issues \/ Changes \/ Tick \/ UNCHANGED access
  BY DEF AccessNext, Ends, Issues, Changes

LEMMA BeginsAlone ==
    ASSUME NEW r \in Requests, Begin(r)
    PROVE  UNCHANGED <<kv, counters, blobs, authority, jar, counted, spent>>
           /\ reqs[r] = Idle /\ signedOut' \in {signedOut, signedOut \ {"session"}}
  BY DEF Begin, SendTap, SendHold, SendOwnerBrowse, SendSignOut, SendPut, SendRestore, Send,
         server, history

\* A tick makes requests no other than older.
LEMMA AgedRequestOK ==
    ASSUME NEW q, RequestOK(q)
    PROVE  /\ RequestOK(AgedRequest(q))
           /\ AgedRequest(q).op = q.op
           /\ q.op \in {"reply", "signedout"} =>
                 /\ AgedRequest(q).used = q.used
                 /\ AgedRequest(q).set = [name \in DOMAIN q.set |-> Aged(q.set[name])]
           /\ q.op \notin {"reply", "signedout", "owner"} => AgedRequest(q) = q
           /\ q.op = "owner" =>
                 /\ AgedRequest(q).at = q.at
                 /\ q.at = "start" => AgedRequest(q).session = Aged(q.session)
<1>1. CASE q.op \in {"reply", "signedout"}
  <2> DEFINE set == [name \in DOMAIN q.set |-> Aged(q.set[name])]
  <2>1. AgedRequest(q) = [op |-> q.op, used |-> q.used, set |-> set]
    BY <1>1 DEF AgedRequest
  <2>2. Cookies(set) /\ q.used \in Challenges \cup {None}
    BY <1>1, AgedCookies DEF RequestOK
  <2> HIDE DEF set
  <2>3. RequestOK(AgedRequest(q)) /\ AgedRequest(q).op = q.op
        /\ AgedRequest(q).used = q.used /\ AgedRequest(q).set = set
    BY <1>1, <2>1, <2>2 DEF RequestOK
  <2> QED  BY <1>1, <2>3 DEF set
<1>2. CASE q.op = "owner" /\ q.at = "start"
  <2>1. Aged(q.session) \in CookieType("session") /\ Aged(q.existing) \in CookieType("ownerBrowse")
    BY <1>2, AgedType DEF RequestOK, Names
  <2> QED  BY <1>2, <2>1 DEF AgedRequest, RequestOK
<1>3. CASE q.op \notin {"reply", "signedout"} /\ ~(q.op = "owner" /\ q.at = "start")
  BY <1>3 DEF AgedRequest, RequestOK
<1> QED  BY <1>1, <1>2, <1>3

LEMMA TypeKept ==
    ASSUME TypeOK, [AccessNext]_access
    PROVE  TypeOK'
<1>1. ASSUME NEW r \in Requests, NEW q, RequestOK(q), reqs' = [reqs EXCEPT ![r] = q]
      PROVE  DOMAIN reqs' = Requests /\ \A s \in Requests : RequestOK(reqs'[s])
  BY <1>1 DEF TypeOK
<1>2. ASSUME NEW r \in Requests, Begin(r) PROVE TypeOK'
  <2>1. DOMAIN reqs' = Requests /\ \A s \in Requests : RequestOK(reqs'[s])
    BY <1>1, <1>2, SentOK
  <2> QED  BY <1>2, <2>1, BeginsAlone DEF TypeOK, Cookies
<1>3. ASSUME NEW r \in Requests, Handle(r) PROVE TypeOK'
  <2>1. DOMAIN reqs' = Requests /\ \A s \in Requests : RequestOK(reqs'[s])
    BY <1>1, <1>3, Handling, MovesOK
  <2>2. UNCHANGED <<jar, spent, signedOut>> /\ RequestOK(reqs[r])
    BY <1>3, Handling DEF TypeOK
  <2>3. kv' \in [Challenges -> [kind : {"unlock", "backup", "restore", None}, left : Nat]]
    <3>1. UNCHANGED kv \/ (reqs[r].op \in {"hold", "put", "restore"} /\ DropChallenge(reqs[r].challenge))
      BY <1>3 DEF Handle, ReadCounter, WriteCounter, ResolveToken, ConsumeRead, VerifyHold,
         CheckOwnerSession, LookupAuthority, ClearOwnerSession, VerifyPossession, SelectBlob,
         UpdateBlob, DropIncomplete, InsertBlob, DropRestoreChallenge, LoadBlob, Break, At, server
    <3>2. \A ch \in Challenges : [kv[ch] EXCEPT !.left = 0]
              \in [kind : {"unlock", "backup", "restore", None}, left : Nat]
      BY DEF TypeOK
    <3>3. reqs[r].op \in {"hold", "put", "restore"} => reqs[r].challenge \in Challenges
      BY <2>2 DEF RequestOK
    <3> QED  BY <3>1, <3>2, <3>3 DEF DropChallenge, TypeOK
  <2>4. counters' \in [Tokens -> Nat] /\ counted' \in [Tokens -> Seq(Nat)]
    <3>1. UNCHANGED <<counters, counted>> \/ WriteCounter(r)
      BY <1>3 DEF Handle, ReadCounter, ResolveToken, ConsumeRead, VerifyHold,
         CheckOwnerSession, LookupAuthority, ClearOwnerSession, VerifyPossession, SelectBlob,
         UpdateBlob, DropIncomplete, InsertBlob, DropRestoreChallenge, LoadBlob, Break, server, history
    <3>2. CASE WriteCounter(r)
      <4>1. reqs[r].token \in Tokens /\ reqs[r].c \in Nat
        BY <2>2, <3>2 DEF WriteCounter, At, RequestOK
      <4>2. counted[reqs[r].token] \in Seq(Nat)
        BY <4>1 DEF TypeOK
      <4>3. Append(counted[reqs[r].token], reqs[r].c) \in Seq(Nat)
        BY <4>1, <4>2
      <4>4. /\ counters' \in {counters, [counters EXCEPT ![reqs[r].token] = reqs[r].c]}
            /\ counted' \in {counted, [counted EXCEPT ![reqs[r].token] =
                                               Append(counted[reqs[r].token], reqs[r].c)]}
        BY <3>2 DEF WriteCounter
      <4> QED  BY <4>1, <4>3, <4>4 DEF TypeOK
    <3> QED  BY <3>1, <3>2 DEF TypeOK
  <2>5. blobs' \in [Credentials -> Rows \cup {None}]
    <3>1. UNCHANGED blobs \/ UpdateBlob(r) \/ DropIncomplete(r) \/ InsertBlob(r)
      BY <1>3 DEF Handle, ReadCounter, WriteCounter, ResolveToken, ConsumeRead, VerifyHold,
         CheckOwnerSession, LookupAuthority, ClearOwnerSession, VerifyPossession, SelectBlob,
         DropRestoreChallenge, LoadBlob, Break, server
    <3>2. CASE UpdateBlob(r)
      <4>1. reqs[r].credential \in Credentials /\ reqs[r].blob \in Blobs
        BY <2>2, <3>2 DEF UpdateBlob, At, RequestOK
      <4>2. \A row \in Rows \cup {None} : WithBlob(row, reqs[r].blob) \in Rows \cup {None}
        BY <4>1 DEF WithBlob, Rows
      <4> QED  BY <3>2, <4>1, <4>2 DEF UpdateBlob, TypeOK
    <3>3. CASE DropIncomplete(r)
      <4>1. reqs[r].credential \in Credentials
        BY <2>2, <3>3 DEF DropIncomplete, At, RequestOK
      <4>2. \A row \in Rows \cup {None} : WithoutIncomplete(row) \in Rows \cup {None}
        BY DEF WithoutIncomplete
      <4> QED  BY <3>3, <4>1, <4>2 DEF DropIncomplete, TypeOK
    <3>4. CASE InsertBlob(r)
      <4>1. reqs[r].credential \in Credentials /\ reqs[r].blob \in Blobs
        BY <2>2, <3>4 DEF InsertBlob, At, RequestOK
      <4>2. Row(reqs[r].blob) \in Rows
        BY <4>1 DEF Row, Rows, Blobs
      <4> QED  BY <3>4, <4>1, <4>2 DEF InsertBlob, TypeOK
    <3> QED  BY <3>1, <3>2, <3>3, <3>4 DEF TypeOK
  <2> QED  BY <2>1, <2>2, <2>3, <2>4, <2>5 DEF TypeOK, Cookies
<1>4. ASSUME NEW r \in Requests, Ends(r) PROVE TypeOK'
  <2>1. RequestOK(Idle)
    BY DEF RequestOK, Idle
  <2>2. DOMAIN reqs' = Requests /\ \A s \in Requests : RequestOK(reqs'[s])
    BY <1>1, <1>4, <2>1, EndsIdle
  <2>3. DOMAIN jar' = Names /\ Cookies(jar')
    <3>1. Cookies(reqs[r].set) /\ Cookies(jar) /\ DOMAIN jar = Names
      BY <1>4, EndsIdle DEF TypeOK
    <3>2. jar' = jar \/ jar' = Overlaid(reqs[r].set, jar)
      BY <1>4 DEF Ends, Answer, LoseAnswer
    <3>3. Cookies(Overlaid(reqs[r].set, jar)) /\ DOMAIN Overlaid(reqs[r].set, jar) = Names
      BY <3>1, OverlaidCookies
    <3> QED  BY <3>1, <3>2, <3>3 DEF Cookies
  <2>4. signedOut' \subseteq OwnerCookies
    BY <1>4 DEF Ends, Answer, LoseAnswer, gone_after, TypeOK
  <2>5. spent' \subseteq Challenges
    BY <1>4, EndsIdle DEF TypeOK
  <2> QED  BY <1>4, <2>2, <2>3, <2>4, <2>5, EndsIdle DEF TypeOK
<1>5. CASE Issues
  <2>1. PICK kind \in {"unlock", "backup", "restore"}, ch \in Challenges : IssueChallenge(kind, ch)
    BY <1>5 DEF Issues
  <2>2. [kind |-> kind, left |-> ChallengeTTL]
            \in [kind : {"unlock", "backup", "restore", None}, left : Nat]
    BY LimitsAssumption
  <2>3. kv' \in [Challenges -> [kind : {"unlock", "backup", "restore", None}, left : Nat]]
    BY <2>1, <2>2 DEF IssueChallenge, TypeOK
  <2> QED  BY <2>1, <2>3 DEF IssueChallenge, TypeOK, history, Cookies
<1>6. CASE Changes
  BY <1>6 DEF Changes, ChangeAuthority, TypeOK, history, server, Cookies
<1>7. CASE Tick
  <2>1. DOMAIN reqs' = Requests /\ \A s \in Requests : RequestOK(reqs'[s])
    BY <1>7, AgedRequestOK DEF Tick, TypeOK
  <2>2. DOMAIN jar' = Names /\ Cookies(jar')
    BY <1>7, AgedCookies DEF Tick, TypeOK
  <2>3. ASSUME NEW ch \in Challenges
        PROVE  [kv[ch] EXCEPT !.left = IF @ > 0 THEN @ - 1 ELSE 0]
                   \in [kind : {"unlock", "backup", "restore", None}, left : Nat]
    <3>1. kv[ch] \in [kind : {"unlock", "backup", "restore", None}, left : Nat]
      BY DEF TypeOK
    <3>2. (IF kv[ch].left > 0 THEN kv[ch].left - 1 ELSE 0) \in Nat
      BY <3>1
    <3> QED  BY <3>1, <3>2
  <2>4. kv' \in [Challenges -> [kind : {"unlock", "backup", "restore", None}, left : Nat]]
    BY <1>7, <2>3 DEF Tick
  <2> QED  BY <1>7, <2>1, <2>2, <2>4 DEF Tick, TypeOK, history
<1>8. CASE UNCHANGED access
  BY <1>8 DEF access, TypeOK, Cookies
<1> QED  BY <1>2, <1>3, <1>4, <1>5, <1>6, <1>7, <1>8, Steps

\* Cookies, tickets, rows and requests keep their shapes.
THEOREM TypeCorrect == AccessSpec => []TypeOK
  BY InitType, TypeKept, PTL DEF AccessSpec

-----------------------------------------------------------------------------
(* The counters.                                                           *)

LEMMA OnlyWrites ==
    ASSUME [AccessNext]_access
    PROVE  UNCHANGED <<counters, counted>> \/ \E r \in Requests : WriteCounter(r)
<1>1. ASSUME NEW r \in Requests, Begin(r)
      PROVE  UNCHANGED <<counters, counted>>
  BY <1>1, BeginsAlone
<1>2. ASSUME NEW r \in Requests, Handle(r), ~WriteCounter(r)
      PROVE  UNCHANGED <<counters, counted>>
  BY <1>2 DEF Handle, ReadCounter, ResolveToken, ConsumeRead, VerifyHold,
     CheckOwnerSession, LookupAuthority, ClearOwnerSession, VerifyPossession, SelectBlob,
     UpdateBlob, DropIncomplete, InsertBlob, DropRestoreChallenge, LoadBlob, Break, server, history
<1>3. ASSUME NEW r \in Requests, Ends(r)
      PROVE  UNCHANGED <<counters, counted>>
  BY <1>3 DEF Ends, Answer, LoseAnswer, server
<1>4. CASE Issues \/ Changes \/ Tick \/ UNCHANGED access
  BY <1>4 DEF Issues, IssueChallenge, Changes, ChangeAuthority, Tick, access, server, history
<1> QED  BY <1>1, <1>2, <1>3, <1>4, Steps

LEMMA RisingKept ==
    ASSUME TypeOK, TapsRise, [AccessNext]_access
    PROVE  TapsRise'
<1>1. CASE UNCHANGED <<counters, counted>>
  BY <1>1 DEF TapsRise
<1>2. ASSUME NEW r \in Requests, WriteCounter(r) PROVE TapsRise'
  <2> DEFINE token == reqs[r].token
             c     == reqs[r].c
             s     == counted[token]
  <2>1. token \in Tokens /\ c \in Nat
    BY <1>2 DEF WriteCounter, At, TypeOK, RequestOK
  <2>2. CASE ~(counters[token] < c)
    BY <1>1, <1>2, <2>2 DEF WriteCounter, Advances
  <2>3. CASE counters[token] < c
    <3>1. /\ counters' = [counters EXCEPT ![token] = c]
          /\ counted' = [counted EXCEPT ![token] = Append(s, c)]
      BY <1>2, <2>3 DEF WriteCounter, Advances
    <3>2. s \in Seq(Nat) /\ counters[token] \in Nat
      BY <2>1 DEF TypeOK
    <3>3. /\ \A i, j \in DOMAIN s : i < j => s[i] < s[j]
          /\ s # <<>> => counters[token] = s[Len(s)]
      BY <2>1 DEF TapsRise
    <3> HIDE DEF s, c, token
    <3>4. /\ DOMAIN Append(s, c) = 1 .. Len(s) + 1 /\ Len(Append(s, c)) = Len(s) + 1
          /\ \A i \in 1 .. Len(s) : Append(s, c)[i] = s[i]
          /\ Append(s, c)[Len(s) + 1] = c
      BY <2>1, <3>2
    <3>5. \A i \in 1 .. Len(s) : s[i] < c
      <4> SUFFICES ASSUME NEW i \in 1 .. Len(s) PROVE s[i] < c
        OBVIOUS
      <4>1. s # <<>> /\ s[Len(s)] < c /\ Len(s) \in DOMAIN s /\ i \in DOMAIN s
        BY <2>3, <3>2, <3>3
      <4>2. CASE i = Len(s)
        BY <4>1, <4>2
      <4>3. CASE i < Len(s)
        <5>1. s[i] < s[Len(s)] /\ s[i] \in Nat /\ s[Len(s)] \in Nat
          BY <3>2, <3>3, <4>1, <4>3
        <5> QED  BY <2>1, <4>1, <5>1
      <4> QED  BY <3>2, <4>2, <4>3
    <3>6. \A i, j \in DOMAIN Append(s, c) : i < j => Append(s, c)[i] < Append(s, c)[j]
      <4> SUFFICES ASSUME NEW i \in DOMAIN Append(s, c), NEW j \in DOMAIN Append(s, c), i < j
                   PROVE  Append(s, c)[i] < Append(s, c)[j]
        OBVIOUS
      <4>1. i \in 1 .. Len(s) /\ i \in DOMAIN s
        BY <3>2, <3>4
      <4>2. CASE j = Len(s) + 1
        BY <3>4, <3>5, <4>1, <4>2
      <4>3. CASE j \in 1 .. Len(s)
        BY <3>2, <3>3, <3>4, <4>1, <4>3
      <4> QED  BY <3>2, <3>4, <4>2, <4>3
    <3>7. counted'[token] = Append(s, c) /\ counters'[token] = c
      BY <2>1, <3>1 DEF TypeOK
    <3>8. \A t \in Tokens \ {token} : counted'[t] = counted[t] /\ counters'[t] = counters[t]
      BY <3>1 DEF TypeOK
    <3>9. ASSUME NEW t \in Tokens
          PROVE  /\ \A i, j \in DOMAIN counted'[t] : i < j => counted'[t][i] < counted'[t][j]
                 /\ counted'[t] # <<>> => counters'[t] = counted'[t][Len(counted'[t])]
      <4>1. CASE t = token
        BY <3>4, <3>6, <3>7, <4>1
      <4>2. CASE t # token
        BY <3>8, <4>2 DEF TapsRise
      <4> QED  BY <4>1, <4>2
    <3> QED  BY <3>9 DEF TapsRise
  <2> QED  BY <2>2, <2>3
<1> QED  BY <1>1, <1>2, OnlyWrites

\* However requests with the links of one accessory interleave, the counters
\* accepted rise, and the mark is the last of them (evaluateCounter and the
\* conditional upsert of counter-store.ts).
THEOREM TapsAlwaysRise == AccessSpec => []TapsRise
<1>1. AccessInit => TapsRise
  BY DEF AccessInit, TapsRise
<1>2. TypeOK /\ TapsRise /\ [AccessNext]_access => TapsRise'
  BY RisingKept
<1> QED  BY <1>1, <1>2, TypeCorrect, PTL DEF AccessSpec

-----------------------------------------------------------------------------
(* The challenges.                                                         *)

\* Gone: issued once, and deleted or expired, so that nobody gets past it and
\* it is not issued again.
gone(ch) == kv[ch].kind # None /\ kv[ch].left = 0

past(q) ==
    \/ q.op = "put" /\ q.at \in {"select", "update", "drop", "insert"}
    \/ q.op = "restore" /\ q.at = "select"

ticketed(q) ==
    /\ q.op \in {"hold", "put", "restore"} =>
          /\ kv[q.challenge].kind # None
          /\ past(q) => gone(q.challenge)
          /\ q.late => q.at = "read" /\ gone(q.challenge)
    /\ q.op \in {"reply", "signedout"} /\ q.used # None => gone(q.used)

TicketsOK ==
    /\ \A ch \in spent : gone(ch)
    /\ \A r \in Requests : ticketed(reqs[r])

LEMMA TicketsImply == TicketsOK => ChallengeSpent
  BY DEF TicketsOK, ticketed, ChallengeSpent

\* Once gone, always gone.
LEMMA GoneStays ==
    ASSUME TypeOK, [AccessNext]_access, NEW ch \in Challenges
    PROVE  /\ gone(ch) => gone(ch)'
           /\ kv[ch].kind # None => kv'[ch].kind # None
<1>1. kv[ch] \in [kind : {"unlock", "backup", "restore", None}, left : Nat]
  BY DEF TypeOK
<1>2. CASE UNCHANGED kv
  BY <1>2 DEF gone
<1>3. ASSUME NEW c \in Challenges, DropChallenge(c)
      PROVE  /\ gone(ch) => gone(ch)'
             /\ kv[ch].kind # None => kv'[ch].kind # None
  BY <1>1, <1>3 DEF gone, DropChallenge, TypeOK
<1>4. CASE Issues
  BY <1>4 DEF Issues, IssueChallenge, gone, TypeOK
<1>5. CASE Tick
  <2>1. kv'[ch] = [kv[ch] EXCEPT !.left = IF kv[ch].left > 0 THEN kv[ch].left - 1 ELSE 0]
    BY <1>5 DEF Tick
  <2> QED  BY <1>1, <2>1 DEF gone
<1>6. ASSUME NEW r \in Requests, Begin(r) \/ Ends(r)
      PROVE  UNCHANGED kv
  BY <1>6, BeginsAlone DEF Ends, Answer, LoseAnswer, server
<1>7. ASSUME NEW r \in Requests, Handle(r)
      PROVE  UNCHANGED kv \/ \E c \in Challenges : DropChallenge(c)
  <2>1. RequestOK(reqs[r])
    BY DEF TypeOK
  <2> QED  BY <1>7, <2>1 DEF Handle, ReadCounter, WriteCounter, ResolveToken, ConsumeRead, VerifyHold,
     CheckOwnerSession, LookupAuthority, ClearOwnerSession, VerifyPossession, SelectBlob,
     UpdateBlob, DropIncomplete, InsertBlob, DropRestoreChallenge, LoadBlob, Break, At, server, RequestOK
<1>8. CASE Changes \/ UNCHANGED access
  BY <1>2, <1>8 DEF Changes, ChangeAuthority, access, server
<1> QED  BY <1>2, <1>3, <1>4, <1>5, <1>6, <1>7, <1>8, Steps

LEMMA TicketStays ==
    ASSUME TypeOK, [AccessNext]_access, NEW q, RequestOK(q), ticketed(q)
    PROVE  ticketed(q)'
<1>1. q.op \in {"hold", "put", "restore"} => q.challenge \in Challenges
  BY DEF RequestOK
<1>2. q.op \in {"reply", "signedout"} => q.used \in Challenges \cup {None}
  BY DEF RequestOK
<1> QED  BY <1>1, <1>2, GoneStays DEF ticketed, past

\* The request of a step, at its next await.
LEMMA TicketNext ==
    ASSUME TypeOK, TicketsOK, [AccessNext]_access, NEW r \in Requests, Handle(r)
    PROVE  ticketed(reqs[r])'
<1> PICK q : q = reqs[r]
  OBVIOUS
<1> PICK ch : ch = q.challenge
  OBVIOUS
<1>1. RequestOK(q) /\ ticketed(q) /\ DOMAIN reqs = Requests
  BY DEF TypeOK, TicketsOK
<1>2. ASSUME AnswerWith(r, Refusal) PROVE ticketed(reqs[r])'
  BY <1>1, <1>2 DEF AnswerWith, Refusal, Reply, ticketed
<1>3. ASSUME NEW set, AnswerWith(r, Reply(set, None)) PROVE ticketed(reqs[r])'
  BY <1>1, <1>3 DEF AnswerWith, Reply, ticketed
<1>4. ASSUME NEW set, gone(ch)', AnswerWith(r, Reply(set, ch))
      PROVE  ticketed(reqs[r])'
  <2>1. reqs'[r] = Reply(set, ch)
    BY <1>1, <1>4 DEF AnswerWith
  <2> QED  BY <1>4, <2>1 DEF Reply, ticketed, gone
<1>5. ASSUME q.op = "tap", NEW at, Goto(r, at) PROVE ticketed(reqs[r])'
  BY <1>1, <1>5 DEF Goto, ticketed, RequestOK
<1>6. ASSUME q.op \in {"hold", "put", "restore"}, ~q.late, kv'[ch].kind # None,
             NEW at, Goto(r, at), at = "delete" \/ gone(ch)'
      PROVE  ticketed(reqs[r])'
  <2>1. reqs'[r] = [q EXCEPT !.at = at] /\ "at" \in DOMAIN q
    BY <1>1, <1>6 DEF Goto, RequestOK
  <2>2. /\ reqs'[r].op = q.op /\ reqs'[r].challenge = ch /\ reqs'[r].late = q.late
        /\ reqs'[r].at = at
    BY <2>1
  <2>3. at = "delete" => ~past(reqs'[r])
    BY <2>2 DEF past
  <2> QED  BY <1>6, <2>2, <2>3 DEF ticketed, past, gone
<1>7. ASSUME ReadCounter(r) \/ WriteCounter(r) \/ ResolveToken(r) PROVE ticketed(reqs[r])'
  BY <1>2, <1>3, <1>5, <1>7 DEF ReadCounter, WriteCounter, ResolveToken, At
<1>8. ASSUME NEW op \in {"hold", "put", "restore"}, NEW kind \in {"unlock", "backup", "restore"},
             ConsumeRead(r, op, kind)
      PROVE  ticketed(reqs[r])'
  <2>1. q.op = op /\ q.at = "read" /\ kv' = kv /\ ch \in Challenges
    BY <1>1, <1>8 DEF ConsumeRead, At, server, RequestOK
  <2>2. CASE Goto(r, "delete") /\ kv[ch].left > 0 /\ kv[ch].kind = kind
    <3>1. ~q.late
      BY <1>1, <2>1, <2>2 DEF ticketed, gone
    <3>2. kv'[ch].kind # None
      BY <2>1, <2>2, NoneAssumption
    <3> QED  BY <1>6, <2>1, <2>2, <3>1, <3>2
  <2> QED  BY <1>2, <1>8, <2>2 DEF ConsumeRead
<1>9. ASSUME q.op \in {"hold", "put", "restore"}, q.at = "delete", DropChallenge(ch)
      PROVE  ~q.late /\ kv'[ch].kind # None /\ gone(ch)'
  <2>1. ch \in Challenges /\ kv[ch].kind # None /\ ~q.late
    BY <1>1, <1>9 DEF RequestOK, ticketed
  <2>2. kv[ch] \in [kind : {"unlock", "backup", "restore", None}, left : Nat]
    BY <2>1 DEF TypeOK
  <2>3. kv'[ch] = [kv[ch] EXCEPT !.left = 0]
    BY <1>9, <2>1 DEF DropChallenge, TypeOK
  <2> QED  BY <2>1, <2>2, <2>3 DEF gone
<1>10. ASSUME VerifyHold(r) PROVE ticketed(reqs[r])'
  BY <1>2, <1>4, <1>9, <1>10 DEF VerifyHold, At
<1>11. ASSUME VerifyPossession(r) \/ DropRestoreChallenge(r) PROVE ticketed(reqs[r])'
  BY <1>2, <1>6, <1>9, <1>11 DEF VerifyPossession, DropRestoreChallenge, At
<1>12. ASSUME q.op \in {"put", "restore"}, past(q)
       PROVE  ~q.late /\ kv'[ch].kind # None /\ gone(ch)'
  <2>1. ch \in Challenges /\ gone(ch) /\ ~q.late
    BY <1>1, <1>12 DEF RequestOK, ticketed, past
  <2> QED  BY <2>1, GoneStays DEF gone
<1>13. ASSUME SelectBlob(r) \/ UpdateBlob(r) \/ DropIncomplete(r) \/ InsertBlob(r) \/ LoadBlob(r)
       PROVE  ticketed(reqs[r])'
  <2>1. q.op \in {"put", "restore"} /\ past(q)
    BY <1>13 DEF SelectBlob, UpdateBlob, DropIncomplete, InsertBlob, LoadBlob, At, past
  <2>2. \/ AnswerWith(r, NotStored(r)) \/ AnswerWith(r, Stored(r)) \/ AnswerWith(r, Refusal)
        \/ AnswerWith(r, Reply(Unchanged, ch)) \/ \E at : Goto(r, at)
    BY <1>13 DEF SelectBlob, UpdateBlob, DropIncomplete, InsertBlob, LoadBlob
  <2> QED  BY <1>2, <1>4, <1>6, <1>12, <2>1, <2>2 DEF NotStored, Stored
<1>14. ASSUME CheckOwnerSession(r) PROVE ticketed(reqs[r])'
  <2>1. CASE AnswerWith(r, [op |-> "owner", at |-> "lookup", token |-> q.token,
                            key |-> q.session.head])
    BY <1>1, <2>1 DEF AnswerWith, ticketed
  <2> QED  BY <1>2, <1>3, <1>14, <2>1 DEF CheckOwnerSession
<1>15. ASSUME LookupAuthority(r) PROVE ticketed(reqs[r])'
  BY <1>2, <1>3, <1>15 DEF LookupAuthority
<1>16. ASSUME ClearOwnerSession(r) PROVE ticketed(reqs[r])'
  BY <1>1, <1>16 DEF ClearOwnerSession, AnswerWith, Reply, ticketed
<1>17. ASSUME Break(r) PROVE ticketed(reqs[r])'
  BY <1>2, <1>17 DEF Break
<1> QED  BY <1>7, <1>8, <1>10, <1>11, <1>13, <1>14, <1>15, <1>16, <1>17 DEF Handle

\* A request sent: of an issued challenge, marked late if it is spent.
LEMMA TicketSent ==
    ASSUME TypeOK, TicketsOK, [AccessNext]_access, NEW r \in Requests, Begin(r)
    PROVE  ticketed(reqs[r])'
<1>1. DOMAIN reqs = Requests /\ \A ch \in spent : gone(ch)
  BY DEF TypeOK, TicketsOK
<1>2. UNCHANGED kv
  BY BeginsAlone
<1>3. ASSUME NEW ch \in Challenges, NEW t \in Tokens, SendHold(r, ch, t) PROVE ticketed(reqs[r])'
  BY <1>1, <1>2, <1>3, NoneAssumption DEF SendHold, Send, ticketed, past, gone
<1>4. ASSUME NEW ch \in Challenges, NEW cr \in Credentials, NEW b \in Blobs, SendPut(r, ch, cr, b)
      PROVE  ticketed(reqs[r])'
  BY <1>1, <1>2, <1>4, NoneAssumption DEF SendPut, Send, ticketed, past, gone
<1>5. ASSUME NEW ch \in Challenges, NEW cr \in Credentials, SendRestore(r, ch, cr)
      PROVE  ticketed(reqs[r])'
  BY <1>1, <1>2, <1>5, NoneAssumption DEF SendRestore, Send, ticketed, past, gone
<1>6. ASSUME NEW t \in Tokens, NEW c, SendTap(r, t, c) PROVE ticketed(reqs[r])'
  BY <1>1, <1>6 DEF SendTap, Send, ticketed
<1>7. ASSUME NEW t \in Tokens, SendOwnerBrowse(r, t) PROVE ticketed(reqs[r])'
  BY <1>1, <1>7 DEF SendOwnerBrowse, Send, ticketed
<1>8. ASSUME SendSignOut(r) PROVE ticketed(reqs[r])'
  BY <1>1, <1>8 DEF SendSignOut, Send, ticketed
<1> QED  BY <1>3, <1>4, <1>5, <1>6, <1>7, <1>8 DEF Begin

LEMMA TicketsKept ==
    ASSUME TypeOK, TicketsOK, [AccessNext]_access
    PROVE  TicketsOK'
<1>1. ASSUME NEW s \in Requests, UNCHANGED reqs[s] PROVE ticketed(reqs[s])'
  <2>1. RequestOK(reqs[s]) /\ ticketed(reqs[s])
    BY DEF TypeOK, TicketsOK
  <2>2. PICK q : q = reqs[s]
    OBVIOUS
  <2>3. ticketed(q)'
    BY <2>1, <2>2, TicketStays
  <2> QED  BY <1>1, <2>2, <2>3 DEF ticketed, past, gone
<1>2. ASSUME UNCHANGED spent PROVE \A ch \in spent' : gone(ch)'
  BY <1>2, GoneStays DEF TypeOK, TicketsOK
<1>3. ASSUME NEW r \in Requests, NEW q, reqs' = [reqs EXCEPT ![r] = q], ticketed(reqs[r])'
      PROVE  \A s \in Requests : ticketed(reqs[s])'
  <2> TAKE s \in Requests
  <2>1. CASE s = r
    BY <1>3, <2>1
  <2>2. CASE s # r
    BY <1>1, <1>3, <2>2 DEF TypeOK
  <2> QED  BY <2>1, <2>2
<1>4. ASSUME NEW r \in Requests, Begin(r) PROVE TicketsOK'
  BY <1>2, <1>3, <1>4, SentOK, TicketSent, BeginsAlone DEF TicketsOK
<1>5. ASSUME NEW r \in Requests, Handle(r) PROVE TicketsOK'
  BY <1>2, <1>3, <1>5, Handling, TicketNext DEF TicketsOK
<1>6. ASSUME NEW r \in Requests, Ends(r) PROVE TicketsOK'
  <2>1. ticketed(reqs[r]) /\ DOMAIN reqs = Requests
    BY DEF TypeOK, TicketsOK
  <2>2. reqs' = [reqs EXCEPT ![r] = Idle] /\ ticketed(reqs[r])'
    BY <1>6, <2>1, EndsIdle DEF Idle, ticketed
  <2>3. kv' = kv /\ \A ch \in spent' : ch \in spent \/ gone(ch)
    BY <1>6, <2>1, EndsIdle DEF ticketed
  <2>4. \A ch \in spent' : gone(ch)'
    BY <2>3 DEF TicketsOK, gone
  <2> QED  BY <1>3, <2>2, <2>4 DEF TicketsOK
<1>7. CASE Issues \/ Changes \/ UNCHANGED access
  <2>1. UNCHANGED <<reqs, spent>>
    BY <1>7 DEF Issues, IssueChallenge, Changes, ChangeAuthority, access, history
  <2> QED  BY <1>1, <1>2, <2>1 DEF TicketsOK
<1>8. CASE Tick
  <2>1. UNCHANGED spent /\ \A s \in Requests : reqs'[s] = AgedRequest(reqs[s])
    BY <1>8 DEF Tick, history
  <2>2. ASSUME NEW s \in Requests PROVE ticketed(reqs[s])'
    <3>1. PICK q : q = reqs[s]
      OBVIOUS
    <3>2. RequestOK(q) /\ ticketed(q)
      BY <3>1 DEF TypeOK, TicketsOK
    <3>3. ticketed(q)'
      BY <3>2, TicketStays
    <3>4. PICK p : p = AgedRequest(q)
      OBVIOUS
    <3>5. /\ p.op = q.op
          /\ q.op \in {"reply", "signedout"} => p.used = q.used
          /\ q.op \in {"hold", "put", "restore"} => p = q
      BY <3>2, <3>4, AgedRequestOK
    <3>6. reqs'[s] = p
      BY <2>1, <3>1, <3>4
    <3>7. ticketed(p)'
      BY <3>3, <3>5 DEF ticketed, past, gone
    <3> QED  BY <3>6, <3>7 DEF ticketed, past, gone
  <2> QED  BY <1>2, <2>1, <2>2 DEF TicketsOK
<1> QED  BY <1>4, <1>5, <1>6, <1>7, <1>8, Steps

\* No request sent after an answer accepted a challenge gets past it again
\* (createKvChallenge: consume reads, then deletes).
THEOREM ChallengesSpentOnce == AccessSpec => []ChallengeSpent
<1>1. AccessInit => TicketsOK
  BY DEF AccessInit, TicketsOK, ticketed, Idle
<1>2. TypeOK /\ TicketsOK /\ [AccessNext]_access => TicketsOK'
  BY TicketsKept
<1> QED  BY <1>1, <1>2, TicketsImply, TypeCorrect, PTL DEF AccessSpec

-----------------------------------------------------------------------------
(* The cookies.                                                            *)

alive(set, name) == name \in DOMAIN set /\ set[name].left > 0
dead(set, name) == name \in DOMAIN set /\ set[name].left = 0

\* Whoever puts one admit cookie down alive takes the other away, and owner
\* mode has its lifetime to lose ownership in.
fits(set) ==
    /\ alive(set, "browse") => dead(set, "ownerBrowse")
    /\ alive(set, "ownerBrowse") => dead(set, "browse")
    /\ "ownerBrowse" \in DOMAIN set =>
          set["ownerBrowse"].left + set["ownerBrowse"].stale <= BrowseTTL

answering(q) == q.op \in {"reply", "signedout"}

CookiesOK ==
    /\ fits(jar)
    /\ \A r \in Requests : answering(reqs[r]) => fits(reqs[r].set)

LEMMA CookiesImply == TypeOK /\ CookiesOK => GatesAgree /\ OwnerModeExpires
<1> SUFFICES ASSUME TypeOK, CookiesOK PROVE GatesAgree /\ OwnerModeExpires
  OBVIOUS
<1>1. DOMAIN jar = Names /\ fits(jar)
  BY DEF TypeOK, CookiesOK
<1>2. jar["browse"] \in CookieType("browse") /\ jar["ownerBrowse"] \in CookieType("ownerBrowse")
  BY DEF TypeOK, Cookies, Names
<1>3. OwnerModeExpires
  BY <1>1 DEF fits, Names, OwnerModeExpires
<1>4. Read(jar.browse) \in Tokens \cup {None} /\ Read(jar.ownerBrowse) \in Tokens \cup {None}
  BY <1>2 DEF CookieType, Heads, Read
<1>5. Read(jar.browse) = None \/ Read(jar.ownerBrowse) = None
  BY <1>1, <1>2 DEF fits, alive, dead, Names, Read, CookieType
<1>6. GatesAgree
  BY <1>4, <1>5, NoneAssumption DEF GatesAgree, PageAdmits, ApiAdmits, AdmitToken, SessionMode
<1> QED  BY <1>3, <1>6

LEMMA IssuedFits ==
    /\ \A token \in Tokens : fits(IssueBrowseUnlock(token))
    /\ \A token \in Tokens, key \in Keys : fits(IssueOwnerBrowse(token, key))
    /\ \A cookie : fits(KeepOwnerBrowse(cookie))
    /\ \A key : fits(IssueOwnerSession(key))
    /\ fits(SignOut)
    /\ fits(Unchanged)
  BY LimitsAssumption
     DEF fits, alive, dead, Cookie, NoCookie, IssueBrowseUnlock, IssueOwnerBrowse,
         KeepOwnerBrowse, IssueOwnerSession, SignOut, Unchanged

LEMMA AgedFits ==
    ASSUME NEW set, Cookies(set), fits(set)
    PROVE  fits([name \in DOMAIN set |-> Aged(set[name])])
<1> DEFINE aged == [name \in DOMAIN set |-> Aged(set[name])]
<1>1. DOMAIN aged = DOMAIN set
  OBVIOUS
<1>2. ASSUME NEW name \in DOMAIN set
      PROVE  /\ set[name].left \in Nat /\ set[name].stale \in Nat
             /\ aged[name].left \in Nat /\ aged[name].stale \in Nat
             /\ aged[name].left > 0 => set[name].left > 0
             /\ aged[name].left + aged[name].stale <= set[name].left + set[name].stale
  <2>1. name \in Names /\ set[name] \in CookieType(name)
    BY DEF Cookies
  <2>2. aged[name] = Aged(set[name])
    OBVIOUS
  <2>3. aged[name] \in CookieType(name)
    BY <2>1, <2>2, AgedType
  <2> QED  BY <2>1, <2>2, <2>3, AgedType DEF CookieType
<1> HIDE DEF aged
<1>3. fits(aged)
  <2>1. ASSUME NEW a, NEW b, alive(set, a) => dead(set, b) PROVE alive(aged, a) => dead(aged, b)
    BY <1>1, <1>2, <2>1 DEF alive, dead
  <2>2. "ownerBrowse" \in DOMAIN aged =>
            aged["ownerBrowse"].left + aged["ownerBrowse"].stale <= BrowseTTL
    BY <1>1, <1>2, LimitsAssumption DEF fits
  <2> QED  BY <2>1, <2>2 DEF fits
<1> QED  BY <1>3 DEF aged

LEMMA OverlaidFits ==
    ASSUME NEW set, NEW kept, Cookies(set), Cookies(kept), DOMAIN kept = Names,
           fits(set), fits(kept)
    PROVE  fits(Overlaid(set, kept))
<1> PICK over : over = Overlaid(set, kept)
  OBVIOUS
<1>1. DOMAIN over = Names /\ \A name \in Names : over[name] = IF name \in DOMAIN set THEN set[name]
                                                                                   ELSE kept[name]
  BY OverlaidCookies
<1>2. \A name \in DOMAIN set : set[name].left \in Nat
  BY DEF Cookies, CookieType
<1>3. \A name \in DOMAIN kept : kept[name].left \in Nat
  BY DEF Cookies, CookieType
<1>4. fits(over)
  BY <1>1, <1>2, <1>3 DEF fits, alive, dead, Names
<1> QED  BY <1>4

LEMMA CookiesKept ==
    ASSUME TypeOK, CookiesOK, [AccessNext]_access
    PROVE  CookiesOK'
<1>1. ASSUME NEW r \in Requests, NEW q, reqs' = [reqs EXCEPT ![r] = q], answering(q) => fits(q.set)
      PROVE  \A s \in Requests : answering(reqs'[s]) => fits(reqs'[s].set)
  BY <1>1 DEF CookiesOK, TypeOK
<1>2. ASSUME NEW r \in Requests, Begin(r) PROVE CookiesOK'
  <2>1. PICK q : ~answering(q) /\ reqs' = [reqs EXCEPT ![r] = q]
    BY <1>2, SentOK DEF answering
  <2>2. \A s \in Requests : answering(reqs'[s]) => fits(reqs'[s].set)
    BY <1>1, <2>1
  <2> QED  BY <1>2, <2>2, BeginsAlone DEF CookiesOK, fits, alive, dead, answering
<1>3. ASSUME NEW r \in Requests, Handle(r) PROVE CookiesOK'
  <2>1. PICK q : Moves(r, q) /\ reqs' = [reqs EXCEPT ![r] = q]
    BY <1>3, Handling
  <2>2. answering(q) => fits(q.set)
    <3>1. CASE reqs[r].op \in {"tap", "hold", "put", "restore"} /\ \E at : q = [reqs[r] EXCEPT !.at = at]
      BY <3>1 DEF answering
    <3>2. ASSUME NEW set, NEW used, q = Reply(set, used), Issued(r, set) PROVE fits(q.set)
      <4>1. fits(set)
        <5>1. CASE reqs[r].op = "owner"
          BY <3>2, <5>1, IssuedFits DEF Issued
        <5>2. CASE reqs[r].op # "owner"
          BY <3>2, <5>2, IssuedFits DEF Issued
        <5> QED  BY <5>1, <5>2
      <4> QED  BY <3>2, <4>1 DEF Reply
    <3>3. CASE q = [op |-> "owner", at |-> "lookup", token |-> reqs[r].token,
                    key |-> reqs[r].session.head]
      BY <3>3 DEF answering
    <3>4. CASE q = [Reply(SignOut, None) EXCEPT !.op = "signedout"]
      BY <3>4, IssuedFits DEF Reply
    <3> QED  BY <2>1, <3>1, <3>2, <3>3, <3>4 DEF Moves
  <2>3. \A s \in Requests : answering(reqs'[s]) => fits(reqs'[s].set)
    BY <1>1, <2>1, <2>2
  <2>4. UNCHANGED jar
    BY <1>3, Handling
  <2> QED  BY <2>3, <2>4 DEF CookiesOK, fits, alive, dead, answering
<1>4. ASSUME NEW r \in Requests, Ends(r) PROVE CookiesOK'
  <2>1. \A s \in Requests : answering(reqs'[s]) => fits(reqs'[s].set)
    BY <1>1, <1>4, EndsIdle DEF Idle, answering
  <2>2. fits(jar) /\ fits(reqs[r].set) /\ Cookies(reqs[r].set) /\ Cookies(jar) /\ DOMAIN jar = Names
    BY <1>4, EndsIdle DEF CookiesOK, TypeOK, answering
  <2>3. jar' = jar \/ jar' = Overlaid(reqs[r].set, jar)
    BY <1>4 DEF Ends, Answer, LoseAnswer
  <2>4. fits(jar')
    BY <2>2, <2>3, OverlaidFits
  <2> QED  BY <2>1, <2>4 DEF CookiesOK, fits, alive, dead, answering
<1>5. CASE Issues \/ Changes \/ UNCHANGED access
  <2>1. UNCHANGED <<reqs, jar>>
    BY <1>5 DEF Issues, IssueChallenge, Changes, ChangeAuthority, access, history
  <2> QED  BY <2>1 DEF CookiesOK, fits, alive, dead, answering
<1>6. CASE Tick
  <2>1. jar' = [name \in DOMAIN jar |-> Aged(jar[name])]
        /\ \A s \in Requests : reqs'[s] = AgedRequest(reqs[s])
    BY <1>6 DEF Tick
  <2>2. fits(jar')
    BY <2>1, AgedFits DEF CookiesOK, TypeOK
  <2>3. ASSUME NEW s \in Requests, answering(reqs'[s]) PROVE fits(reqs'[s].set)
    <3>1. RequestOK(reqs[s]) /\ reqs'[s] = AgedRequest(reqs[s])
      BY <2>1 DEF TypeOK
    <3>2. answering(reqs[s])
      <4>1. AgedRequest(reqs[s]).op = reqs[s].op
        BY <3>1, AgedRequestOK
      <4> QED  BY <2>3, <3>1, <4>1 DEF answering
    <3>3. reqs'[s].set = [name \in DOMAIN reqs[s].set |-> Aged(reqs[s].set[name])]
          /\ Cookies(reqs[s].set)
      BY <3>1, <3>2, AgedRequestOK DEF answering, RequestOK
    <3>4. fits(reqs[s].set)
      BY <3>2 DEF CookiesOK
    <3> QED  BY <3>3, <3>4, AgedFits
  <2> QED  BY <2>2, <2>3 DEF CookiesOK, fits, alive, dead, answering
<1> QED  BY <1>2, <1>3, <1>4, <1>5, <1>6, Steps

LEMMA CookiesStart == AccessInit => CookiesOK
<1> SUFFICES ASSUME AccessInit PROVE CookiesOK
  OBVIOUS
<1>1. fits(SignedOutJar) /\ \A k \in Keys : fits(SignedInJar(k))
  BY LimitsAssumption DEF SignedOutJar, SignedInJar, Cookie, NoCookie, fits, alive, dead
<1> QED  BY <1>1 DEF AccessInit, CookiesOK, Idle, answering

\* Whatever answers cross, the API's gate and the app's admit the same
\* accessories (requireAppAccess, the middleware, GET /accessory/session).
THEOREM GatesAlwaysAgree == AccessSpec => []GatesAgree
<1>1. TypeOK /\ CookiesOK /\ [AccessNext]_access => CookiesOK'
  BY CookiesKept
<1> QED  BY <1>1, CookiesStart, CookiesImply, TypeCorrect, PTL DEF AccessSpec

\* Owner mode is left at most one cookie lifetime after the ownership.
THEOREM OwnerModeEnds == AccessSpec => []OwnerModeExpires
<1>1. TypeOK /\ CookiesOK /\ [AccessNext]_access => CookiesOK'
  BY CookiesKept
<1> QED  BY <1>1, CookiesStart, CookiesImply, TypeCorrect, PTL DEF AccessSpec

-----------------------------------------------------------------------------
(* Signing out.                                                            *)

clears(q) == q.op = "signedout" => \A name \in OwnerCookies : dead(q.set, name)

\* While a cookie is away nothing under way could end in it; without a session
\* no accessory is opened.
SignOutOK ==
    /\ signedOut # {} => jar["session"].left = 0
    /\ \A name \in signedOut :
          jar[name].left = 0 /\ \A r \in Requests : ~mints(reqs[r], name)
    /\ \A r \in Requests : clears(reqs[r])

LEMMA SignOutImplies == TypeOK /\ SignOutOK => SignOutHolds
  BY DEF SignOutOK, SignOutHolds, Read

LEMMA AgedMints ==
    ASSUME NEW q, RequestOK(q), NEW name \in OwnerCookies
    PROVE  /\ mints(AgedRequest(q), name) => mints(q, name)
           /\ clears(q) => clears(AgedRequest(q))
<1> PICK p : p = AgedRequest(q)
  OBVIOUS
<1>1. /\ p.op = q.op
      /\ answering(q) => p.set = [n \in DOMAIN q.set |-> Aged(q.set[n])] /\ Cookies(q.set)
      /\ q.op = "owner" => p.at = q.at /\ (q.at = "start" => p.session = Aged(q.session))
  BY AgedRequestOK DEF answering, RequestOK
<1>2. \A cookie : cookie.left = 0 => Aged(cookie).left = 0
  BY DEF Aged, NoCookie
<1>3. \A n \in Names : \A cookie \in CookieType(n) : Aged(cookie).left > 0 => cookie.left > 0
  BY AgedType
<1>4. mints(p, name) => mints(q, name)
  <2>1. CASE q.op = "put"
    BY <1>1, <2>1 DEF mints
  <2>2. CASE q.op = "owner"
    <3>1. q.at = "start" => q.session \in CookieType("session")
      BY <2>2 DEF RequestOK
    <3> QED  BY <1>1, <1>3, <2>2, <3>1 DEF mints, Names
  <2>3. CASE q.op = "reply"
    <3>1. Cookies(q.set) /\ p.set = [n \in DOMAIN q.set |-> Aged(q.set[n])]
      BY <1>1, <2>3 DEF answering
    <3> QED  BY <1>1, <1>3, <2>3, <3>1 DEF mints, Cookies
  <2> QED  BY <1>1, <2>1, <2>2, <2>3 DEF mints
<1>5. clears(q) => clears(p)
  BY <1>1, <1>2 DEF clears, dead, answering
<1> QED  BY <1>4, <1>5

LEMMA SentMintsNone ==
    ASSUME TypeOK, SignOutOK, NEW r \in Requests, Begin(r), NEW name \in signedOut'
    PROVE  ~mints(reqs'[r], name)
<1>1. DOMAIN reqs = Requests
  BY DEF TypeOK
<1>2. ASSUME NEW t \in Tokens, NEW c, SendTap(r, t, c) PROVE ~mints(reqs'[r], name)
  BY <1>1, <1>2 DEF SendTap, Send, mints
<1>3. ASSUME NEW ch, NEW t \in Tokens, SendHold(r, ch, t) PROVE ~mints(reqs'[r], name)
  BY <1>1, <1>3 DEF SendHold, Send, mints
<1>4. ASSUME NEW t \in Tokens, SendOwnerBrowse(r, t) PROVE ~mints(reqs'[r], name)
  <2>1. jar.session.left = 0
    BY <1>4 DEF SendOwnerBrowse, history, SignOutOK
  <2> QED  BY <1>1, <1>4, <2>1 DEF SendOwnerBrowse, Send, mints
<1>5. CASE SendSignOut(r)
  BY <1>1, <1>5 DEF SendSignOut, Send, mints
<1>6. ASSUME NEW ch, NEW cr, NEW b, SendPut(r, ch, cr, b) PROVE ~mints(reqs'[r], name)
  BY <1>1, <1>6 DEF SendPut, Send, mints
<1>7. ASSUME NEW ch, NEW cr, SendRestore(r, ch, cr) PROVE ~mints(reqs'[r], name)
  BY <1>1, <1>7 DEF SendRestore, Send, mints
<1> QED  BY <1>2, <1>3, <1>4, <1>5, <1>6, <1>7 DEF Begin

LEMMA MovesMintNone ==
    ASSUME NEW r \in Requests, NEW q, Moves(r, q), NEW name \in OwnerCookies
    PROVE  /\ mints(q, name) => mints(reqs[r], name)
           /\ clears(q)
<1>1. CASE reqs[r].op \in {"tap", "hold", "put", "restore"} /\ \E at : q = [reqs[r] EXCEPT !.at = at]
  BY <1>1 DEF mints, clears
<1>2. ASSUME NEW set, NEW used, q = Reply(set, used), Issued(r, set)
      PROVE  (mints(q, name) => mints(reqs[r], name)) /\ clears(q)
  <2>1. q.op = "reply" /\ q.set = set
    BY <1>2 DEF Reply
  <2>2. CASE set = Unchanged
    BY <2>1, <2>2 DEF mints, clears, Unchanged
  <2>3. ASSUME NEW token, set = IssueBrowseUnlock(token)
        PROVE  ~mints(q, name) /\ clears(q)
    BY <2>1, <2>3 DEF mints, clears, IssueBrowseUnlock, NoCookie, OwnerCookies
  <2>4. ASSUME NEW cookie, set = KeepOwnerBrowse(cookie)
        PROVE  ~mints(q, name) /\ clears(q)
    BY <2>1, <2>4 DEF mints, clears, KeepOwnerBrowse, OwnerCookies
  <2>5. ASSUME reqs[r].op = "owner", reqs[r].at = "lookup",
               NEW token, NEW key, set = IssueOwnerBrowse(token, key)
        PROVE  (mints(q, name) => mints(reqs[r], name)) /\ clears(q)
    BY <2>1, <2>5 DEF mints, clears, IssueOwnerBrowse, OwnerCookies
  <2>6. CASE reqs[r].op = "put" /\ set = IssueOwnerSession(reqs[r].blob.key)
    BY <2>1, <2>6 DEF mints, clears, IssueOwnerSession, OwnerCookies
  <2> QED  BY <1>2, <2>2, <2>3, <2>4, <2>5, <2>6 DEF Issued
<1>3. CASE /\ reqs[r].op = "owner" /\ reqs[r].at = "start" /\ Read(reqs[r].session) # None
           /\ q = [op |-> "owner", at |-> "lookup", token |-> reqs[r].token,
                   key |-> reqs[r].session.head]
  BY <1>3 DEF mints, clears, Read
<1>4. CASE q = [Reply(SignOut, None) EXCEPT !.op = "signedout"]
  <2>1. q.op = "signedout" /\ q.set = SignOut
    BY <1>4 DEF Reply
  <2>2. \A n \in OwnerCookies : dead(SignOut, n)
    BY DEF OwnerCookies, dead, SignOut, NoCookie
  <2> QED  BY <2>1, <2>2 DEF mints, clears
<1> QED  BY <1>1, <1>2, <1>3, <1>4 DEF Moves

LEMMA SignOutKept ==
    ASSUME TypeOK, SignOutOK, [AccessNext]_access
    PROVE  SignOutOK'
<1>1. ASSUME NEW r \in Requests, NEW q, reqs' = [reqs EXCEPT ![r] = q], clears(q)
      PROVE  \A s \in Requests : clears(reqs'[s])
  BY <1>1 DEF SignOutOK, TypeOK
<1>2. ASSUME NEW r \in Requests, NEW q, reqs' = [reqs EXCEPT ![r] = q],
             NEW name \in signedOut, ~mints(q, name)
      PROVE  \A s \in Requests : ~mints(reqs'[s], name)
  BY <1>2 DEF SignOutOK, TypeOK
<1>3. ASSUME \A s \in Requests : clears(reqs'[s]),
             signedOut' # {} => jar'["session"].left = 0,
             \A name \in signedOut' :
                jar'[name].left = 0 /\ \A s \in Requests : ~mints(reqs'[s], name)
      PROVE  SignOutOK'
  BY <1>3 DEF SignOutOK, clears, mints, dead
<1>4. ASSUME NEW r \in Requests, Begin(r) PROVE SignOutOK'
  <2>1. PICK q : RequestOK(q) /\ ~answering(q) /\ reqs' = [reqs EXCEPT ![r] = q]
    BY <1>4, SentOK DEF answering
  <2>2. \A s \in Requests : clears(reqs'[s])
    BY <1>1, <2>1 DEF clears, answering
  <2>3. signedOut' \subseteq signedOut /\ jar' = jar
    BY <1>4, BeginsAlone
  <2>4. ASSUME NEW name \in signedOut' PROVE \A s \in Requests : ~mints(reqs'[s], name)
    <3>1. ~mints(q, name)
      BY <1>4, <2>1, <2>4, SentMintsNone DEF TypeOK
    <3> QED  BY <1>2, <2>1, <2>3, <2>4, <3>1
  <2> QED  BY <1>3, <2>2, <2>3, <2>4 DEF SignOutOK
<1>5. ASSUME NEW r \in Requests, Handle(r) PROVE SignOutOK'
  <2>1. PICK q : Moves(r, q) /\ reqs' = [reqs EXCEPT ![r] = q]
    BY <1>5, Handling
  <2>2. jar' = jar /\ signedOut' = signedOut
    BY <1>5, Handling
  <2>3. clears(q)
    BY <2>1, MovesMintNone DEF OwnerCookies
  <2>4. \A s \in Requests : clears(reqs'[s])
    BY <1>1, <2>1, <2>3
  <2>5. ASSUME NEW name \in signedOut PROVE \A s \in Requests : ~mints(reqs'[s], name)
    <3>1. ~mints(reqs[r], name) /\ name \in OwnerCookies
      BY <2>5 DEF SignOutOK, TypeOK
    <3>2. ~mints(q, name)
      BY <2>1, <3>1, MovesMintNone
    <3> QED  BY <1>2, <2>1, <2>5, <3>2
  <2> QED  BY <1>3, <2>2, <2>4, <2>5 DEF SignOutOK
<1>6. ASSUME NEW r \in Requests, Ends(r) PROVE SignOutOK'
  <2>1. clears(Idle) /\ \A name : ~mints(Idle, name)
    BY DEF mints, clears, Idle
  <2>2. reqs' = [reqs EXCEPT ![r] = Idle] /\ answering(reqs[r]) /\ DOMAIN reqs = Requests
    BY <1>6, EndsIdle DEF answering, TypeOK
  <2>3. \A s \in Requests : clears(reqs'[s])
    BY <1>1, <2>1, <2>2
  <2>4. \A name \in signedOut : \A s \in Requests : ~mints(reqs'[s], name)
    BY <1>2, <2>1, <2>2
  <2>5. CASE LoseAnswer(r)
    BY <1>3, <2>3, <2>4, <2>5 DEF LoseAnswer, SignOutOK
  <2>6. CASE Answer(r)
    <3>1. jar' = Overlaid(reqs[r].set, jar) /\ signedOut' = gone_after(r)
      BY <2>6 DEF Answer
    <3>2. ASSUME NEW name \in OwnerCookies
          PROVE  jar'[name] = IF name \in DOMAIN reqs[r].set THEN reqs[r].set[name] ELSE jar[name]
      <4>1. Cookies(reqs[r].set) /\ Cookies(jar) /\ DOMAIN jar = Names
        BY <1>6, EndsIdle DEF TypeOK
      <4> QED  BY <3>1, <4>1, OverlaidCookies DEF OwnerCookies, Names
    <3>3. CASE reqs[r].op = "signedout"
      <4>1. \A name \in OwnerCookies : jar'[name].left = 0
        BY <3>2, <3>3 DEF SignOutOK, clears, dead
      <4>2. signedOut' \subseteq OwnerCookies
        BY <3>1, <3>3 DEF gone_after, TypeOK
      <4>3. ASSUME NEW name \in signedOut' PROVE \A s \in Requests : ~mints(reqs'[s], name)
        <5>1. CASE name \in signedOut
          BY <2>4, <5>1
        <5>2. CASE name \notin signedOut
          <6>1. \A s \in Requests \ {r} : ~mints(reqs[s], name)
            BY <3>1, <3>3, <4>3, <5>2 DEF gone_after
          <6> QED  BY <2>1, <2>2, <6>1
        <5> QED  BY <5>1, <5>2
      <4> QED  BY <1>3, <2>3, <4>1, <4>2, <4>3 DEF OwnerCookies
    <3>4. CASE reqs[r].op = "reply" /\ mints(reqs[r], "session")
      <4>1. signedOut' = {}
        BY <3>1, <3>4 DEF gone_after
      <4> QED  BY <1>3, <2>3, <4>1
    <3>5. CASE reqs[r].op = "reply" /\ ~mints(reqs[r], "session")
      <4>1. signedOut' = signedOut
        BY <3>1, <3>5 DEF gone_after
      <4>2. ASSUME NEW name \in OwnerCookies, ~mints(reqs[r], name), jar[name].left = 0
            PROVE  jar'[name].left = 0
        <5>1. name \in DOMAIN reqs[r].set => reqs[r].set[name].left \in Nat
          BY <1>6, <4>2, EndsIdle DEF Cookies, CookieType
        <5> QED  BY <3>2, <3>5, <4>2, <5>1 DEF mints
      <4>3. signedOut # {} => jar'["session"].left = 0
        BY <3>5, <4>2 DEF SignOutOK, OwnerCookies
      <4>4. \A name \in signedOut : jar'[name].left = 0
        BY <4>2 DEF SignOutOK, TypeOK
      <4> QED  BY <1>3, <2>3, <2>4, <4>1, <4>3, <4>4
    <3> QED  BY <2>2, <3>3, <3>4, <3>5 DEF answering
  <2> QED  BY <1>6, <2>5, <2>6 DEF Ends
<1>7. CASE Issues \/ Changes \/ UNCHANGED access
  <2>1. UNCHANGED <<reqs, jar, signedOut>>
    BY <1>7 DEF Issues, IssueChallenge, Changes, ChangeAuthority, access, history
  <2> QED  BY <1>3, <2>1 DEF SignOutOK
<1>8. CASE Tick
  <2>1. jar' = [name \in DOMAIN jar |-> Aged(jar[name])] /\ signedOut' = signedOut
        /\ \A s \in Requests : reqs'[s] = AgedRequest(reqs[s])
    BY <1>8 DEF Tick, history
  <2>2. \A s \in Requests : RequestOK(reqs[s])
    BY DEF TypeOK
  <2>3. ASSUME NEW s \in Requests
        PROVE  clears(reqs'[s]) /\ \A name \in signedOut : ~mints(reqs'[s], name)
    <3>1. clears(reqs'[s])
      BY <2>1, <2>2, AgedMints DEF SignOutOK, OwnerCookies
    <3>2. ASSUME NEW name \in signedOut PROVE ~mints(reqs'[s], name)
      <4>1. ~mints(reqs[s], name) /\ name \in OwnerCookies
        BY <3>2 DEF SignOutOK, TypeOK
      <4> QED  BY <2>1, <2>2, <4>1, AgedMints
    <3> QED  BY <3>1, <3>2
  <2>4. DOMAIN jar = Names /\ signedOut \subseteq OwnerCookies
    BY DEF TypeOK
  <2>5. \A name \in OwnerCookies : jar[name].left = 0 => jar'[name].left = 0
    BY <2>1, <2>4 DEF Aged, NoCookie, OwnerCookies, Names
  <2> QED  BY <1>3, <2>1, <2>3, <2>4, <2>5 DEF SignOutOK, OwnerCookies
<1> QED  BY <1>4, <1>5, <1>6, <1>7, <1>8, Steps

\* A sign-out takes the session and owner mode away until the next login, but
\* for what was under way and may bring one of them back (DELETE
\* /owner-session clears both cookies).
THEOREM SignOutAlwaysHolds == AccessSpec => []SignOutHolds
<1>1. AccessInit => SignOutOK
  BY DEF AccessInit, SignOutOK, clears, Idle
<1>2. TypeOK /\ SignOutOK /\ [AccessNext]_access => SignOutOK'
  BY SignOutKept
<1> QED  BY <1>1, <1>2, SignOutImplies, TypeCorrect, PTL DEF AccessSpec

-----------------------------------------------------------------------------
(* The stored backups.                                                     *)

backed(key) ==
    \E c \in Credentials : StoredBlob(c) # None /\ StoredBlob(c).key = key

vouched(set) == alive(set, "session") => backed(set["session"].head)

\* An update has seen the row it will change.
updates(q) ==
    q.op = "put" /\ q.at = "update" =>
       StoredBlob(q.credential) # None /\ StoredBlob(q.credential).key = q.blob.key

BackupOK ==
    /\ \A c \in Credentials : StoredBlob(c) # None => blobs[c].blob.key = blobs[c].key
    /\ vouched(jar)
    /\ \A r \in Requests : answering(reqs[r]) => vouched(reqs[r].set)
    /\ \A r \in Requests : updates(reqs[r])

LEMMA BackupImplies == TypeOK /\ BackupOK => SessionBacked
<1> SUFFICES ASSUME TypeOK, BackupOK, Read(jar.session) # None
             PROVE  backed(jar.session.head)
  BY DEF SessionBacked, backed
<1>1. "session" \in DOMAIN jar /\ jar["session"].left > 0
  BY DEF TypeOK, Names, Read
<1> QED  BY <1>1 DEF BackupOK, vouched, alive

\* What a row holds.
LEMMA RowFacts ==
    ASSUME TypeOK, NEW c \in Credentials
    PROVE  /\ blobs[c] \in Rows \cup {None}
           /\ StoredBlob(c) \in {None, blobs[c]}
           /\ StoredBlob(c) # None <=> blobs[c] \in Rows /\ blobs[c].cose
  BY NoneAssumption DEF TypeOK, StoredBlob

LEMMA OnlyStores ==
    ASSUME [AccessNext]_access
    PROVE  UNCHANGED blobs \/ \E r \in Requests : UpdateBlob(r) \/ DropIncomplete(r) \/ InsertBlob(r)
<1>1. ASSUME NEW r \in Requests, Begin(r) PROVE UNCHANGED blobs
  BY <1>1, BeginsAlone
<1>2. ASSUME NEW r \in Requests, Handle(r), ~UpdateBlob(r), ~DropIncomplete(r), ~InsertBlob(r)
      PROVE  UNCHANGED blobs
  BY <1>2 DEF Handle, ReadCounter, WriteCounter, ResolveToken, ConsumeRead, VerifyHold,
     CheckOwnerSession, LookupAuthority, ClearOwnerSession, VerifyPossession, SelectBlob,
     DropRestoreChallenge, LoadBlob, Break, server
<1>3. ASSUME NEW r \in Requests, Ends(r) PROVE UNCHANGED blobs
  BY <1>3 DEF Ends, Answer, LoseAnswer, server
<1>4. CASE Issues \/ Changes \/ Tick \/ UNCHANGED access
  BY <1>4 DEF Issues, IssueChallenge, Changes, ChangeAuthority, Tick, access, server
<1> QED  BY <1>1, <1>2, <1>3, <1>4, Steps

\* A complete row stays complete, of the same key and with a ciphertext of it.
LEMMA RowsKept ==
    ASSUME TypeOK, BackupOK, [AccessNext]_access, NEW c \in Credentials
    PROVE  /\ RowKept(c)
           /\ StoredBlob(c)' # None => blobs'[c].blob.key = blobs'[c].key
           /\ StoredBlob(c) # None => StoredBlob(c)' # None /\ StoredBlob(c)'.key = StoredBlob(c).key
<1> DEFINE Kept == /\ RowKept(c)
                   /\ StoredBlob(c)' # None => blobs'[c].blob.key = blobs'[c].key
                   /\ StoredBlob(c) # None => StoredBlob(c)' # None
                                              /\ StoredBlob(c)'.key = StoredBlob(c).key
<1>1. /\ blobs[c] \in Rows \cup {None}
      /\ StoredBlob(c) = IF blobs[c] # None /\ blobs[c].cose THEN blobs[c] ELSE None
      /\ StoredBlob(c)' = IF blobs'[c] # None /\ blobs'[c].cose THEN blobs'[c] ELSE None
      /\ StoredBlob(c) # None => blobs[c].blob.key = blobs[c].key
      /\ \A row \in Rows : row # None
  BY NoneAssumption DEF TypeOK, StoredBlob, BackupOK
<1>2. ASSUME blobs'[c] = blobs[c] PROVE Kept
  BY <1>1, <1>2 DEF RowKept
<1>3. ASSUME NEW r \in Requests, UpdateBlob(r) PROVE Kept
  <2>1. PICK q : q = reqs[r]
    OBVIOUS
  <2>2. /\ q.op = "put" /\ q.at = "update" /\ q.credential \in Credentials /\ q.blob \in Blobs
        /\ StoredBlob(q.credential) # None /\ StoredBlob(q.credential).key = q.blob.key
        /\ blobs' = [blobs EXCEPT ![q.credential] = WithBlob(blobs[q.credential], q.blob)]
    BY <1>3, <2>1 DEF UpdateBlob, At, TypeOK, RequestOK, BackupOK, updates
  <2>3. CASE c # q.credential
    BY <1>2, <2>2, <2>3 DEF TypeOK
  <2>4. CASE c = q.credential
    <3>1. blobs[c] \in Rows /\ blobs[c].cose /\ blobs[c].key = q.blob.key
      BY <1>1, <2>2, <2>4
    <3>2. blobs'[c] = [blobs[c] EXCEPT !.blob = q.blob]
      BY <2>2, <2>4, <3>1, NoneAssumption DEF WithBlob, TypeOK
    <3>3. blobs'[c] \in Rows /\ blobs'[c].cose /\ blobs'[c].key = blobs[c].key
          /\ blobs'[c].blob = q.blob
      BY <2>2, <3>1, <3>2 DEF Rows
    <3> QED  BY <1>1, <3>1, <3>3 DEF RowKept
  <2> QED  BY <2>3, <2>4
<1>4. ASSUME NEW r \in Requests, DropIncomplete(r) PROVE Kept
  <2>1. blobs'[c] \in {blobs[c], WithoutIncomplete(blobs[c])}
    BY <1>4 DEF DropIncomplete, TypeOK
  <2>2. blobs'[c] = blobs[c] \/ (StoredBlob(c) = None /\ blobs'[c] = None)
    BY <1>1, <2>1 DEF WithoutIncomplete
  <2> QED  BY <1>1, <1>2, <2>2 DEF RowKept
<1>5. ASSUME NEW r \in Requests, InsertBlob(r) PROVE Kept
  <2>1. \/ blobs'[c] = blobs[c]
        \/ blobs[c] = None /\ blobs'[c] = Row(reqs[r].blob)
    BY <1>5 DEF InsertBlob, CanInsert, TypeOK
  <2>2. Row(reqs[r].blob).blob.key = Row(reqs[r].blob).key
    BY DEF Row
  <2>3. CASE blobs[c] = None /\ blobs'[c] = Row(reqs[r].blob)
    BY <1>1, <2>2, <2>3 DEF RowKept
  <2> QED  BY <1>2, <2>1, <2>3
<1> HIDE DEF Kept
<1>6. Kept
  BY <1>2, <1>3, <1>4, <1>5, OnlyStores
<1> QED  BY <1>6 DEF Kept

LEMMA BackedStays ==
    ASSUME TypeOK, BackupOK, [AccessNext]_access, NEW key, backed(key)
    PROVE  backed(key)'
  BY RowsKept DEF backed

\* A handler of a backup answers with a session once the row is there.
LEMMA PutNext ==
    ASSUME TypeOK, BackupOK, [AccessNext]_access, NEW r \in Requests, Handle(r), reqs[r].op = "put"
    PROVE  \/ \E at \in {"delete", "select", "drop", "insert"} : Goto(r, at)
           \/ /\ Goto(r, "update") /\ StoredBlob(reqs[r].credential) # None
              /\ StoredBlob(reqs[r].credential).key = reqs[r].blob.key
           \/ AnswerWith(r, Refusal) \/ AnswerWith(r, NotStored(r))
           \/ AnswerWith(r, Stored(r)) /\ \A key : key = reqs[r].blob.key => backed(key)'
<1>1. reqs[r].credential \in Credentials /\ reqs[r].blob \in Blobs /\ updates(reqs[r])
  BY DEF TypeOK, RequestOK, BackupOK
<1>2. ASSUME StoredBlob(reqs[r].credential) # None,
             StoredBlob(reqs[r].credential).key = reqs[r].blob.key
      PROVE  \A key : key = reqs[r].blob.key => backed(key)'
  BY <1>1, <1>2, BackedStays DEF backed
<1>3. CASE SelectBlob(r)
  BY <1>2, <1>3 DEF SelectBlob
<1>4. CASE UpdateBlob(r)
  BY <1>1, <1>2, <1>4 DEF UpdateBlob, At, updates
<1>5. CASE InsertBlob(r)
  <2>1. ASSUME CanInsert(reqs[r].credential), NEW key, key = reqs[r].blob.key PROVE backed(key)'
    <3>1. PICK c \in Credentials : c = reqs[r].credential
      BY <1>1
    <3>2. blobs'[c] = Row(reqs[r].blob)
      BY <1>5, <2>1, <3>1 DEF InsertBlob, TypeOK
    <3>3. Row(reqs[r].blob) \in Rows /\ Row(reqs[r].blob).cose /\ Row(reqs[r].blob).key = key
      BY <1>1, <2>1 DEF Row, Rows, Blobs
    <3>4. StoredBlob(c)' = IF blobs'[c] # None /\ blobs'[c].cose THEN blobs'[c] ELSE None
      BY DEF StoredBlob
    <3>5. StoredBlob(c)' # None /\ StoredBlob(c)'.key = key
      BY <3>2, <3>3, <3>4, NoneAssumption
    <3> QED  BY <3>5 DEF backed
  <2> QED  BY <1>5, <2>1 DEF InsertBlob
<1>6. CASE DropIncomplete(r)
  BY <1>6 DEF DropIncomplete
<1>7. CASE VerifyPossession(r)
  BY <1>7 DEF VerifyPossession
<1>8. CASE ConsumeRead(r, "put", "backup")
  BY <1>8 DEF ConsumeRead
<1>9. CASE Break(r)
  BY <1>9 DEF Break
<1> QED
  BY <1>3, <1>4, <1>5, <1>6, <1>7, <1>8, <1>9
     DEF Handle, ReadCounter, WriteCounter, ResolveToken, ConsumeRead, VerifyHold,
         CheckOwnerSession, LookupAuthority, ClearOwnerSession, DropRestoreChallenge, LoadBlob, At

\* How a handler leaves its request.
LEMMA HandledBacked ==
    ASSUME TypeOK, BackupOK, [AccessNext]_access, NEW r \in Requests, Handle(r)
    PROVE  \E q : /\ reqs' = [reqs EXCEPT ![r] = q]
                  /\ answering(q) => vouched(q.set)'
                  /\ updates(q)'
<1> DEFINE Left == \E q : /\ reqs' = [reqs EXCEPT ![r] = q]
                          /\ answering(q) => vouched(q.set)'
                          /\ updates(q)'
<1>0. RequestOK(reqs[r])
  BY DEF TypeOK
<1>1. ASSUME NEW q, reqs' = [reqs EXCEPT ![r] = q], answering(q) => vouched(q.set)', updates(q)'
      PROVE  Left
  BY <1>1
<1> HIDE DEF Left
<1>2. ASSUME NEW set, NEW used, ~alive(set, "session"), AnswerWith(r, Reply(set, used)) PROVE Left
  <2>1. PICK q : q = Reply(set, used)
    OBVIOUS
  <2>2. reqs' = [reqs EXCEPT ![r] = q] /\ q.op = "reply" /\ q.set = set
    BY <1>2, <2>1 DEF AnswerWith, Reply
  <2>3. vouched(q.set)' /\ updates(q)'
    BY <1>2, <2>2 DEF vouched, updates, alive
  <2> QED  BY <1>1, <2>2, <2>3
<1>3. ASSUME reqs[r].op = "put" PROVE Left
  <2>1. ASSUME NEW at \in {"delete", "select", "drop", "insert"}, Goto(r, at) PROVE Left
    <3>1. PICK q : q = [reqs[r] EXCEPT !.at = at]
      OBVIOUS
    <3>2. q.op = "put" /\ q.at = at /\ reqs' = [reqs EXCEPT ![r] = q]
      BY <1>0, <1>3, <2>1, <3>1 DEF RequestOK, Goto
    <3> QED  BY <1>1, <3>2 DEF answering, updates
  <2>2. ASSUME Goto(r, "update"), StoredBlob(reqs[r].credential) # None,
               StoredBlob(reqs[r].credential).key = reqs[r].blob.key
        PROVE  Left
    <3>1. PICK q : q = [reqs[r] EXCEPT !.at = "update"]
      OBVIOUS
    <3>2. q.op = "put" /\ reqs' = [reqs EXCEPT ![r] = q] /\ q.credential \in Credentials
          /\ q.credential = reqs[r].credential /\ q.blob = reqs[r].blob
      BY <1>0, <1>3, <2>2, <3>1 DEF RequestOK, Goto
    <3>3. StoredBlob(q.credential)' # None /\ StoredBlob(q.credential)'.key = q.blob.key
      BY <2>2, <3>2, RowsKept
    <3> QED  BY <1>1, <3>2, <3>3 DEF answering, updates
  <2>3. ASSUME AnswerWith(r, Refusal) \/ AnswerWith(r, NotStored(r)) PROVE Left
    <3>1. ~alive(Unchanged, "session")
      BY DEF alive, Unchanged
    <3> QED  BY <1>2, <2>3, <3>1 DEF Refusal, NotStored
  <2>4. ASSUME AnswerWith(r, Stored(r)), \A key : key = reqs[r].blob.key => backed(key)' PROVE Left
    <3>1. PICK q : q = Stored(r)
      OBVIOUS
    <3>2. PICK key : key = reqs[r].blob.key
      OBVIOUS
    <3>3. reqs' = [reqs EXCEPT ![r] = q] /\ q.op = "reply" /\ q.set = IssueOwnerSession(key)
      BY <2>4, <3>1, <3>2 DEF AnswerWith, Stored, Reply
    <3>4. q.set["session"].head = key
      BY <3>3 DEF IssueOwnerSession, Cookie
    <3>5. vouched(q.set)' /\ updates(q)'
      BY <2>4, <3>2, <3>3, <3>4 DEF vouched, updates, alive
    <3> QED  BY <1>1, <3>3, <3>5
  <2> QED  BY <1>3, <2>1, <2>2, <2>3, <2>4, PutNext
<1>4. ASSUME reqs[r].op # "put" PROVE Left
  <2>1. PICK q : Moves(r, q) /\ reqs' = [reqs EXCEPT ![r] = q]
    BY Handling
  <2>2. CASE reqs[r].op \in {"tap", "hold", "put", "restore"} /\ \E at : q = [reqs[r] EXCEPT !.at = at]
    <3>1. q.op = reqs[r].op /\ q.op # "put" /\ ~answering(q)
      BY <1>4, <2>2 DEF answering
    <3> QED  BY <1>1, <2>1, <3>1 DEF updates
  <2>3. ASSUME NEW set, NEW used, q = Reply(set, used), Issued(r, set) PROVE Left
    <3>1. ~alive(set, "session")
      BY <1>4, <2>3 DEF Issued, alive, Unchanged, IssueBrowseUnlock, KeepOwnerBrowse, IssueOwnerBrowse
    <3> QED  BY <1>2, <2>1, <2>3, <3>1 DEF AnswerWith
  <2>4. CASE q = [op |-> "owner", at |-> "lookup", token |-> reqs[r].token,
                  key |-> reqs[r].session.head]
    <3>1. q.op = "owner"
      BY <2>4
    <3> QED  BY <1>1, <2>1, <3>1 DEF answering, updates
  <2>5. CASE q = [Reply(SignOut, None) EXCEPT !.op = "signedout"]
    <3>1. q.op = "signedout" /\ q.set = SignOut
      BY <2>5 DEF Reply
    <3>2. ~alive(SignOut, "session")
      BY DEF alive, SignOut, NoCookie
    <3> QED  BY <1>1, <2>1, <3>1, <3>2 DEF vouched, updates, alive
  <2> QED  BY <2>1, <2>2, <2>3, <2>4, <2>5 DEF Moves
<1> QED  BY <1>3, <1>4 DEF Left

LEMMA AgedBacked ==
    ASSUME NEW set, Cookies(set), vouched(set)
    PROVE  vouched([name \in DOMAIN set |-> Aged(set[name])])
<1> PICK aged : aged = [name \in DOMAIN set |-> Aged(set[name])]
  OBVIOUS
<1>1. ASSUME alive(aged, "session") PROVE alive(set, "session") /\ aged["session"].head = set["session"].head
  <2>1. "session" \in DOMAIN set /\ aged["session"] = Aged(set["session"])
    BY <1>1 DEF alive
  <2>2. set["session"] \in CookieType("session")
    BY <2>1 DEF Cookies
  <2> QED  BY <1>1, <2>1, <2>2, AgedType DEF alive, Names
<1>2. vouched(aged)
  BY <1>1 DEF vouched
<1> QED  BY <1>2

LEMMA BackupStays ==
    ASSUME TypeOK, BackupOK, [AccessNext]_access
    PROVE  BackupOK'
<1>1. \A c \in Credentials : StoredBlob(c)' # None => blobs'[c].blob.key = blobs'[c].key
  BY RowsKept
<1>2. ASSUME NEW set, vouched(set) PROVE vouched(set)'
  BY <1>2, BackedStays DEF vouched, alive
<1>3. ASSUME NEW q, RequestOK(q), updates(q) PROVE updates(q)'
  BY <1>3, RowsKept DEF updates, RequestOK
<1>4. \A s \in Requests : RequestOK(reqs[s]) /\ updates(reqs[s])
                          /\ (answering(reqs[s]) => vouched(reqs[s].set))
  BY DEF TypeOK, BackupOK
<1>5. ASSUME NEW r \in Requests, NEW q, reqs' = [reqs EXCEPT ![r] = q],
             answering(q) => vouched(q.set)', updates(q)', NEW s \in Requests
      PROVE  (answering(reqs[s]) => vouched(reqs[s].set))' /\ updates(reqs[s])'
  <2>1. PICK p : p = reqs'[s]
    OBVIOUS
  <2>2. p = q \/ p = reqs[s]
    BY <1>5, <2>1 DEF TypeOK
  <2>3. (answering(p) => vouched(p.set)') /\ updates(p)'
    BY <1>2, <1>3, <1>4, <1>5, <2>2
  <2> QED  BY <2>1, <2>3 DEF answering, vouched, updates, alive, backed, StoredBlob
<1>6. ASSUME NEW jars, jar' = jars, vouched(jars)' PROVE vouched(jar)'
  BY <1>6 DEF vouched, alive, backed, StoredBlob
<1>7. ASSUME NEW r \in Requests, Begin(r) PROVE BackupOK'
  <2>1. PICK q : ~answering(q) /\ reqs' = [reqs EXCEPT ![r] = q] /\ ~(q.op = "put" /\ q.at = "update")
    <3>1. DOMAIN reqs = Requests
      BY DEF TypeOK
    <3>2. ~(reqs'[r].op = "put" /\ reqs'[r].at = "update")
      BY <1>7, <3>1 DEF Begin, SendTap, SendHold, SendOwnerBrowse, SendSignOut, SendPut,
                        SendRestore, Send
    <3>3. PICK q : ~answering(q) /\ reqs' = [reqs EXCEPT ![r] = q]
      BY <1>7, SentOK DEF answering
    <3>4. reqs'[r] = q
      BY <3>1, <3>3
    <3> QED  BY <3>2, <3>3, <3>4
  <2>2. updates(q)'
    BY <2>1 DEF updates
  <2>3. jar' = jar /\ vouched(jar)
    BY <1>7, BeginsAlone DEF BackupOK
  <2>4. vouched(jar)'
    BY <1>2, <1>6, <2>3
  <2> QED  BY <1>1, <1>5, <2>1, <2>2, <2>4 DEF BackupOK
<1>8. ASSUME NEW r \in Requests, Handle(r) PROVE BackupOK'
  <2>1. jar' = jar /\ vouched(jar)
    BY <1>8, Handling DEF BackupOK
  <2>2. vouched(jar)'
    BY <1>2, <1>6, <2>1
  <2> QED  BY <1>1, <1>5, <1>8, <2>2, HandledBacked DEF BackupOK
<1>9. ASSUME NEW r \in Requests, Ends(r) PROVE BackupOK'
  <2>1. reqs' = [reqs EXCEPT ![r] = Idle] /\ answering(reqs[r]) /\ Cookies(reqs[r].set)
    BY <1>9, EndsIdle DEF answering
  <2>2. PICK q : q = Idle
    OBVIOUS
  <2>3. ~answering(q) /\ updates(q)'
    BY <2>2 DEF answering, updates, Idle
  <2>4. vouched(jar)'
    <3>1. vouched(jar) /\ vouched(reqs[r].set) /\ DOMAIN jar = Names /\ Cookies(jar)
      BY <2>1, <1>4 DEF BackupOK, TypeOK
    <3>2. jar' = jar \/ jar' = Overlaid(reqs[r].set, jar)
      BY <1>9 DEF Ends, Answer, LoseAnswer
    <3>3. vouched(Overlaid(reqs[r].set, jar))
      <4>1. PICK over : over = Overlaid(reqs[r].set, jar)
        OBVIOUS
      <4>2. over["session"] = (IF "session" \in DOMAIN reqs[r].set THEN reqs[r].set["session"]
                                                                   ELSE jar["session"])
        BY <2>1, <3>1, <4>1, OverlaidCookies DEF Names
      <4>3. vouched(over)
        BY <3>1, <4>2 DEF vouched, alive, Names
      <4> QED  BY <4>1, <4>3
    <3>4. PICK jars : jars = jar' /\ vouched(jars)
      BY <3>1, <3>2, <3>3
    <3> QED  BY <1>2, <1>6, <3>4
  <2> QED  BY <1>1, <1>5, <2>1, <2>2, <2>3, <2>4 DEF BackupOK
<1>10. CASE Issues \/ Changes \/ UNCHANGED access
  <2>1. UNCHANGED <<reqs, jar, blobs>>
    BY <1>10 DEF Issues, IssueChallenge, Changes, ChangeAuthority, access, server
  <2> QED  BY <2>1 DEF BackupOK, vouched, updates, alive, answering, backed, StoredBlob
<1>11. CASE Tick
  <2>1. jar' = [name \in DOMAIN jar |-> Aged(jar[name])] /\ blobs' = blobs
        /\ \A s \in Requests : reqs'[s] = AgedRequest(reqs[s])
    BY <1>11 DEF Tick
  <2>2. vouched(jar)'
    <3>1. PICK jars : jars = jar' /\ vouched(jars)
      BY <2>1, AgedBacked DEF BackupOK, TypeOK
    <3> QED  BY <1>2, <1>6, <3>1
  <2>3. ASSUME NEW s \in Requests
        PROVE  (answering(reqs[s]) => vouched(reqs[s].set))' /\ updates(reqs[s])'
    <3>1. PICK p, q : p = reqs'[s] /\ q = reqs[s] /\ p = AgedRequest(q)
      BY <2>1
    <3>2. /\ p.op = q.op
          /\ answering(q) => p.set = [name \in DOMAIN q.set |-> Aged(q.set[name])] /\ Cookies(q.set)
          /\ q.op = "put" => p = q
      BY <1>4, <3>1, AgedRequestOK DEF answering, RequestOK
    <3>3. answering(p) => vouched(p.set)
      BY <1>4, <3>1, <3>2, AgedBacked DEF answering
    <3>4. updates(p)'
      BY <1>3, <1>4, <3>1, <3>2 DEF updates
    <3>5. answering(p) => vouched(p.set)'
      BY <1>2, <3>3
    <3> QED  BY <3>1, <3>4, <3>5 DEF answering, vouched, updates, alive, backed, StoredBlob
  <2> QED  BY <1>1, <2>2, <2>3 DEF BackupOK
<1> QED  BY <1>7, <1>8, <1>9, <1>10, <1>11, Steps

LEMMA BackupStarts == AccessInit => BackupOK
<1> SUFFICES ASSUME AccessInit PROVE BackupOK
  OBVIOUS
<1>1. \A r \in Requests : ~answering(reqs[r]) /\ updates(reqs[r])
  BY DEF AccessInit, Idle, answering, updates
<1>2. CASE jar = SignedOutJar /\ blobs = NoRow
  <2>1. \A c \in Credentials : StoredBlob(c) = None
    BY <1>2 DEF NoRow, StoredBlob
  <2> QED  BY <1>1, <1>2, <2>1 DEF BackupOK, vouched, alive, SignedOutJar, NoCookie
<1>3. ASSUME NEW k \in Keys, jar = SignedOutJar, blobs = [c \in Credentials |-> LegacyRow(k)]
      PROVE  BackupOK
  <2>1. \A c \in Credentials : StoredBlob(c) = None
    BY <1>3 DEF LegacyRow, StoredBlob
  <2> QED  BY <1>1, <1>3, <2>1 DEF BackupOK, vouched, alive, SignedOutJar, NoCookie
<1>4. ASSUME NEW k \in Keys, jar = SignedInJar(k),
             blobs = [c \in Credentials |-> Row([key |-> k, serial |-> 1])]
      PROVE  BackupOK
  <2>1. ASSUME NEW c \in Credentials
        PROVE  StoredBlob(c) # None /\ StoredBlob(c).key = k /\ blobs[c].blob.key = blobs[c].key
    <3>1. Row([key |-> k, serial |-> 1]) \in Rows
      BY DEF Row, Rows, Blobs
    <3> QED  BY <1>4, <3>1, NoneAssumption DEF Row, StoredBlob
  <2>2. vouched(jar)
    <3>1. jar["session"].head = k
      BY <1>4 DEF SignedInJar, SignedOutJar, Cookie
    <3>2. \E c \in Credentials : TRUE
      BY CredentialsAssumption
    <3> QED  BY <2>1, <3>1, <3>2 DEF vouched, backed
  <2> QED  BY <1>1, <2>1, <2>2 DEF BackupOK
<1> QED  BY <1>2, <1>3, <1>4 DEF AccessInit

\* A browser signed in as a key can restore its wallet: sessions are minted
\* for keys with a complete row, and a complete row is never lost nor its key
\* changed (upsertOwnerWalletBlob under racing backups).
THEOREM BackupAlwaysKept == AccessSpec => BackupKept
<1>1. TypeOK /\ BackupOK /\ [AccessNext]_access => BackupOK'
  BY BackupStays
<1>2. TypeOK /\ BackupOK /\ [AccessNext]_access => [\A c \in Credentials : RowKept(c)]_access
  BY RowsKept
<1> QED  BY <1>1, <1>2, BackupStarts, BackupImplies, TypeCorrect, PTL DEF AccessSpec, BackupKept

-----------------------------------------------------------------------------
(* The web app's way to its pages.  A page either ends the navigation      *)
(* (EndsAt) or sends on to one that does (EndsSoon); every page that a     *)
(* redirect, a page or a Back leads to is of the second kind, as neither   *)
(* cookies nor queries change without the count of redirects starting      *)
(* anew.                                                                   *)

\* A page that sends nobody on.
EndsAt(p) == redirect(p) = NoPage /\ sendOn(p, tokenAuthority, ownerSession) = NoPage

\* A page that sends on at most once, by the middleware or by itself.
EndsSoon(p) ==
    IF redirect(p) # NoPage THEN EndsAt(redirect(p))
    ELSE EndsAt(p) \/ EndsAt(sendOn(p, tokenAuthority, ownerSession))

\* What the user does at hops = 0 leads to pages for which one redirect is left.
RedirectsEnd == \A p \in Pages : redirect(p) = NoPage \/ EndsSoon(redirect(p))
SendOnsEnd ==
    \A p \in Pages \cup {NoPage} :
        LET q == sendOn(p, tokenAuthority, ownerSession) IN q = NoPage \/ EndsSoon(q)

\* As the middleware and the pages redirect.
Settles ==
    /\ hops \in 0..2
    /\ hops = 1 => going = NoPage \/ EndsSoon(going)
    /\ hops = 2 => going = NoPage \/ EndsAt(going)
    /\ going = NoPage => sendOn(screen, tokenAuthority, ownerSession) = NoPage

\* The accessory opened last is where the user is going, or is.
OnTheWay ==
    asked # NoAccessory =>
        /\ canAccess(cookies, asked)
        /\ (IF going = NoPage THEN screen ELSE going) \in {walletHref(asked), walletClaimHref(asked)}

RoutesShape ==
    /\ RoutesTypeOK
    /\ hold.phase = "answered" => hold.held \in Accessories
    /\ opening.phase # "none" => opening.token \in Accessories
    /\ owning.phase # "none" => owning.token \in Accessories

RoutesInv == RoutesShape /\ Settles /\ OnTheWay

-----------------------------------------------------------------------------

LEMMA PagePaths ==
    ASSUME NEW p \in Pages \cup {NoPage}
    PROVE  /\ p = NoPage => p.token = NoAccessory
           /\ p.token = NoAccessory <=> p.path \in {"home", "token", "none"}
           /\ p.token \in Accessories \cup {NoAccessory}
           /\ p = Page(p.path, p.token)
BY RoutesAssumption DEF Pages, HomePage, ColdPage, NoPage, Page

LEMMA Destinations ==
    ASSUME NEW t \in Accessories
    PROVE  /\ {walletHref(t), walletClaimHref(t), tokenUnlockHref(t)} \subseteq Pages
           /\ NoPage \notin {walletHref(t), walletClaimHref(t), tokenUnlockHref(t)}
           /\ walletHref(t).token = t /\ walletClaimHref(t).token = t
           /\ walletHref(t).path = "wallet" /\ walletClaimHref(t).path = "claim"
           /\ tokenUnlockHref(t).token = t /\ tokenUnlockHref(t).path = "unlock"
BY RoutesAssumption DEF Pages, NoPage, walletHref, walletClaimHref, tokenUnlockHref, Page

LEMMA HomeIsOpen ==
    /\ HomePage \in Pages /\ HomePage # NoPage
    /\ NoPage \notin Pages
    /\ HomePage.token = NoAccessory /\ NoPage.token = NoAccessory
BY RoutesAssumption DEF HomePage, NoPage, Pages, Page, ColdPage

\* A page that sends on sends to its own accessory, to be claimed or used.
LEMMA SendsToOwn ==
    ASSUME NEW p \in Pages \cup {NoPage}, NEW chain, NEW login,
           sendOn(p, chain, login) # NoPage
    PROVE  /\ p.token \in Accessories /\ p.path # "unlock"
           /\ sendOn(p, chain, login) \in {walletHref(p.token), walletClaimHref(p.token)}
           /\ sendOn(sendOn(p, chain, login), chain, login) = NoPage
<1>1. p.token \in Accessories /\ p.path # "unlock"
  BY PagePaths DEF sendOn
<1>2. sendOn(p, chain, login) \in {walletHref(p.token), walletClaimHref(p.token)}
  BY <1>1 DEF sendOn
<1>3. sendOn(sendOn(p, chain, login), chain, login) = NoPage
  BY <1>1, Destinations DEF sendOn
<1>. QED  BY <1>1, <1>2, <1>3

LEMMA RedirectsTo ==
    ASSUME NEW p \in Pages, redirect(p) # NoPage
    PROVE  /\ p.token \in Accessories
           /\ redirect(p) \in {HomePage, walletHref(p.token), tokenUnlockHref(p.token)}
           /\ redirect(p) = tokenUnlockHref(p.token) => ~canAccess(cookies, p.token)
           /\ redirect(p) = walletHref(p.token) => p.path = "link" \/ canAccess(cookies, p.token)
<1>1. p.token \in Accessories
  BY PagePaths DEF redirect
<1>2. HomePage.token # p.token
  BY <1>1, HomeIsOpen, RoutesAssumption
<1>. QED  BY <1>1, <1>2, Destinations DEF redirect

\* Home, the unlock page and an accessible wallet or claim let through.
LEMMA LetsThrough ==
    ASSUME NEW t \in Accessories
    PROVE  /\ EndsAt(HomePage)
           /\ ~canAccess(cookies, t) => EndsAt(tokenUnlockHref(t))
           /\ canAccess(cookies, t) =>
                  redirect(walletHref(t)) = NoPage /\ redirect(walletClaimHref(t)) = NoPage
           /\ ~canAccess(cookies, t) =>
                  /\ redirect(walletHref(t)) \in {HomePage, tokenUnlockHref(t)}
                  /\ redirect(walletClaimHref(t)) \in {HomePage, tokenUnlockHref(t)}
<1>1. t # NoAccessory
  BY RoutesAssumption
<1>2. EndsAt(HomePage)
  BY HomeIsOpen DEF EndsAt, redirect, sendOn
<1>3. ~canAccess(cookies, t) => EndsAt(tokenUnlockHref(t))
  BY <1>1, Destinations DEF EndsAt, redirect, sendOn
<1>4. canAccess(cookies, t) =>
          redirect(walletHref(t)) = NoPage /\ redirect(walletClaimHref(t)) = NoPage
  BY <1>1, Destinations DEF redirect
<1>5. ~canAccess(cookies, t) =>
          /\ redirect(walletHref(t)) \in {HomePage, tokenUnlockHref(t)}
          /\ redirect(walletClaimHref(t)) \in {HomePage, tokenUnlockHref(t)}
  BY <1>1, Destinations DEF redirect
<1>. QED  BY <1>2, <1>3, <1>4, <1>5

LEMMA OwnPagesEnd ==
    ASSUME NEW t \in Accessories, NEW p \in {walletHref(t), walletClaimHref(t)}
    PROVE  EndsSoon(p)
<1>1. CASE canAccess(cookies, t)
  <2>1. p \in Pages /\ p.token = t /\ redirect(p) = NoPage
    BY <1>1, Destinations, LetsThrough
  <2>2. sendOn(p, tokenAuthority, ownerSession) = NoPage \/ EndsAt(sendOn(p, tokenAuthority, ownerSession))
    BY <1>1, <2>1, SendsToOwn, LetsThrough DEF EndsAt
  <2>. QED  BY <2>1, <2>2 DEF EndsSoon, EndsAt
<1>2. CASE ~canAccess(cookies, t)
  BY <1>2, LetsThrough, Destinations, HomeIsOpen DEF EndsSoon
<1>. QED  BY <1>1, <1>2

LEMMA NextEnds == RedirectsEnd /\ SendOnsEnd
<1>1. ASSUME NEW p \in Pages, redirect(p) # NoPage
      PROVE  EndsSoon(redirect(p))
  <2>1. /\ p.token \in Accessories
        /\ redirect(p) \in {HomePage, walletHref(p.token), tokenUnlockHref(p.token)}
        /\ redirect(p) = tokenUnlockHref(p.token) => ~canAccess(cookies, p.token)
    BY <1>1, RedirectsTo
  <2>2. CASE redirect(p) = walletHref(p.token)
    BY <2>1, <2>2, OwnPagesEnd
  <2>3. CASE redirect(p) # walletHref(p.token)
    BY <2>1, <2>3, LetsThrough DEF EndsSoon, EndsAt
  <2>. QED  BY <2>2, <2>3
<1>2. ASSUME NEW p \in Pages \cup {NoPage}, sendOn(p, tokenAuthority, ownerSession) # NoPage
      PROVE  EndsSoon(sendOn(p, tokenAuthority, ownerSession))
  BY <1>2, SendsToOwn, OwnPagesEnd
<1>. QED  BY <1>1, <1>2 DEF RedirectsEnd, SendOnsEnd

Jars == [browse : Accessories \cup {NoAccessory}, ownerBrowse : Accessories \cup {NoAccessory},
         session : BOOLEAN]

Chains == [Accessories -> {"loading", "failed", "nobody", "me", "other"}]

LEMMA ShowShape ==
    ASSUME NEW p \in Pages, NEW n \in Nat, Show(p, n)
    PROVE  /\ screen' \in Pages /\ going' \in Pages \cup {NoPage} /\ hops' \in Nat
           /\ mismatch' = NoAccessory
<1>1. sendOn(p, tokenAuthority, ownerSession) \in Pages \cup {NoPage}
  BY SendsToOwn, Destinations
<1>. QED  BY <1>1 DEF Show

LEMMA LearnShape ==
    ASSUME RoutesTypeOK, NEW chain \in Chains, NEW login \in {"loading", "in", "out"},
           Learn(chain, login)
    PROVE  /\ tokenAuthority' \in Chains /\ ownerSession' \in {"loading", "in", "out"}
           /\ going' \in Pages \cup {NoPage} /\ hops' \in Nat
           /\ asked' \in Accessories \cup {NoAccessory}
<1>1. sendOn(screen, chain, login) \in Pages \cup {NoPage}
  BY SendsToOwn, Destinations DEF RoutesTypeOK
<1>. QED  BY <1>1 DEF Learn, RoutesTypeOK, Chains

LEMMA GoToShape ==
    ASSUME NEW p \in Pages, NEW t \in Accessories \cup {NoAccessory}, GoTo(p, t)
    PROVE  /\ going' \in Pages /\ going' # NoPage /\ hops' = 0
           /\ asked' \in Accessories \cup {NoAccessory}
BY HomeIsOpen DEF GoTo

LEMMA CookiesShape ==
    ASSUME RoutesTypeOK, NEW fresh \in Jars, SetCookies(fresh)
    PROVE  /\ cookies' \in Jars /\ asked' \in Accessories \cup {NoAccessory} /\ hops' = 0
BY DEF SetCookies, RoutesTypeOK, Jars

LEMMA LoadShape ==
    ASSUME RoutesTypeOK, Load
    PROVE  /\ screen' = NoPage /\ behind' \in Pages \cup {NoPage}
           /\ hold' = NoHold /\ opening' = NoOpening /\ owning' = NoOwning
           /\ mismatch' = NoAccessory /\ tokenAuthority' \in Chains
           /\ ownerSession' = "loading" /\ owners' = owners
BY DEF Load, RoutesTypeOK, Chains

\* What the ceremonies under way name.
HoldOK(h) ==
    /\ h \in [phase : {"none", "asked", "answered"},
              expected : Accessories \cup {NoAccessory}, held : Accessories \cup {NoAccessory}]
    /\ h.phase = "answered" => h.held \in Accessories

OpeningOK(o) ==
    /\ o \in [phase : {"none", "mint", "login", "answered"},
              token : Accessories \cup {NoAccessory}, again : BOOLEAN]
    /\ o.phase # "none" => o.token \in Accessories

OwningOK(o) ==
    /\ o \in [phase : {"none", "asked", "sent"}, token : Accessories \cup {NoAccessory},
              to : {"nobody", "me"}, before : {"loading", "failed", "nobody", "me", "other"}]
    /\ o.phase # "none" => o.token \in Accessories

Ceremonies ==
    HoldOK(hold) /\ OpeningOK(opening) /\ OwningOK(owning) /\ mismatch \in Accessories \cup {NoAccessory}

Where ==
    /\ cookies \in Jars
    /\ {screen, going, behind} \subseteq Pages \cup {NoPage}
    /\ owners \in [Accessories -> {"nobody", "me", "other"}]
    /\ tokenAuthority \in Chains /\ ownerSession \in {"loading", "in", "out"}
    /\ asked \in Accessories \cup {NoAccessory}
    /\ hops \in Nat /\ acted \in Nat /\ elsewhere \in Nat

LEMMA ShapeParts == RoutesShape <=> Ceremonies /\ Where
BY DEF RoutesShape, RoutesTypeOK, Ceremonies, HoldOK, OpeningOK, OwningOK, Where, Jars, Chains

LEMMA NothingStarted == HoldOK(NoHold) /\ OpeningOK(NoOpening) /\ OwningOK(NoOwning)
BY DEF HoldOK, OpeningOK, OwningOK, NoHold, NoOpening, NoOwning

LEMMA CeremoniesKept ==
    ASSUME RoutesShape, RoutesNext
    PROVE  Ceremonies'
<1>. USE NothingStarted
<1>0. Ceremonies /\ RoutesTypeOK
  BY ShapeParts DEF RoutesShape
<1>1. CASE UNCHANGED <<hold, opening, owning, mismatch>>
  BY <1>0, <1>1 DEF Ceremonies
<1>2. ASSUME NEW p \in Pages, Visit(p)
      PROVE  Ceremonies'
  BY <1>0, <1>2, LoadShape DEF Visit, Ceremonies
<1>3. ASSUME NEW t \in Accessories, TapLink(t)
      PROVE  Ceremonies'
  BY <1>0, <1>3, LoadShape DEF TapLink, Ceremonies
<1>4. CASE Request
  <2>1. UNCHANGED <<hold, opening, owning>> /\ mismatch' \in {mismatch, NoAccessory}
    BY <1>4 DEF Request, Show
  <2>. QED  BY <1>0, <2>1 DEF Ceremonies
<1>5. CASE Back
  <2>1. UNCHANGED <<hold, opening, owning>> /\ mismatch' \in {mismatch, NoAccessory}
    BY <1>5 DEF Back, Show
  <2>. QED  BY <1>0, <2>1 DEF Ceremonies
<1>6. CASE StartHold
  <2>1. screen.token \in Accessories \cup {NoAccessory}
    BY <1>0, PagePaths DEF RoutesTypeOK
  <2>. QED  BY <1>0, <1>6, <2>1 DEF StartHold, Ceremonies, HoldOK
<1>7. ASSUME NEW t \in Accessories, Held(t)
      PROVE  Ceremonies'
  <2>1. /\ hold' = [hold EXCEPT !.phase = "answered", !.held = t]
        /\ opening' = opening /\ owning' = owning /\ mismatch' = mismatch
    BY <1>7 DEF Held
  <2>2. HoldOK(hold')
    BY <1>0, <2>1 DEF Ceremonies, HoldOK
  <2>. QED  BY <1>0, <2>1, <2>2 DEF Ceremonies
<1>8. CASE HoldFails
  BY <1>0, <1>8 DEF HoldFails, Ceremonies
<1>9. CASE HoldEnds
  <2>1. hold.held \in Accessories /\ hold' = NoHold /\ mismatch' \in {mismatch, hold.held}
    BY <1>0, <1>9 DEF HoldEnds, Ceremonies, HoldOK
  <2>. QED  BY <1>0, <1>9, <2>1 DEF HoldEnds, Ceremonies
<1>10. CASE openHeldInstead
  BY <1>0, <1>10 DEF openHeldInstead, Ceremonies
<1>11. ASSUME NEW t \in Accessories, StartOpen(t)
       PROVE  Ceremonies'
  BY <1>0, <1>11 DEF StartOpen, Ceremonies, OpeningOK
<1>12. CASE mintOwnerBrowse
  <2>1. opening.phase = "mint" /\ UNCHANGED <<hold, owning, mismatch>>
    BY <1>12 DEF mintOwnerBrowse
  <2>2. opening' \in {[opening EXCEPT !.phase = "answered"], [opening EXCEPT !.phase = "login"], NoOpening}
    BY <1>12 DEF mintOwnerBrowse
  <2>3. OpeningOK(opening')
    BY <1>0, <2>1, <2>2 DEF Ceremonies, OpeningOK
  <2>. QED  BY <1>0, <2>1, <2>3 DEF Ceremonies
<1>13. CASE LoginToOpen
  <2>1. /\ opening.phase = "login" /\ opening' = [opening EXCEPT !.phase = "mint", !.again = TRUE]
        /\ hold' = hold /\ owning' = owning /\ mismatch' = mismatch
    BY <1>13 DEF LoginToOpen
  <2>2. OpeningOK(opening')
    BY <1>0, <2>1 DEF Ceremonies, OpeningOK
  <2>. QED  BY <1>0, <2>1, <2>2 DEF Ceremonies
<1>14. CASE OpenEnds
  BY <1>0, <1>14 DEF OpenEnds, Ceremonies
<1>15. CASE StartClaim
  <2>1. screen.token \in Accessories
    BY <1>0, <1>15, PagePaths DEF RoutesTypeOK, StartClaim
  <2>. QED  BY <1>0, <1>15, <2>1 DEF StartClaim, Ceremonies, OwningOK
<1>16. CASE StartUnlink
  <2>1. screen.token \in Accessories
    BY <1>0, <1>16, PagePaths DEF RoutesTypeOK, StartUnlink
  <2>. QED  BY <1>0, <1>16, <2>1 DEF StartUnlink, Ceremonies, OwningOK
<1>17. CASE OwningSent
  <2>1. tokenAuthority[owning.token] \in {"loading", "failed", "nobody", "me", "other"}
    BY <1>0, <1>17 DEF OwningSent, Ceremonies, OwningOK, RoutesTypeOK
  <2>2. /\ owning.phase = "asked"
        /\ owning' = [owning EXCEPT !.phase = "sent", !.before = tokenAuthority[owning.token]]
        /\ hold' = hold /\ opening' = opening /\ mismatch' = mismatch
    BY <1>17 DEF OwningSent
  <2>3. OwningOK(owning')
    BY <1>0, <2>1, <2>2 DEF Ceremonies, OwningOK
  <2>. QED  BY <1>0, <2>2, <2>3 DEF Ceremonies
<1>18. CASE OwningFails
  BY <1>0, <1>18 DEF OwningFails, Ceremonies
<1>19. CASE OwningLands
  BY <1>0, <1>19 DEF OwningLands, Ceremonies
<1>20. ASSUME NEW p \in Pages, Go(p)
       PROVE  Ceremonies'
  BY <1>1, <1>20 DEF Go
<1>21. CASE leaveToken \/ SignIn \/ logOut \/ FetchAccount \/ FetchAuthority \/ Elsewhere
  BY <1>1, <1>21 DEF leaveToken, SignIn, logOut, FetchAccount, FetchAuthority, Elsewhere
<1>. QED
  BY <1>2, <1>3, <1>4, <1>5, <1>6, <1>7, <1>8, <1>9, <1>10, <1>11, <1>12, <1>13, <1>14, <1>15,
     <1>16, <1>17, <1>18, <1>19, <1>20, <1>21 DEF RoutesNext

LEMMA ReachesPages ==
    ASSUME NEW t \in Accessories
    PROVE  {walletHref(t), walletClaimHref(t), tokenUnlockHref(t), HomePage, ColdPage} \subseteq Pages
BY Destinations, HomeIsOpen DEF Pages

LEMMA JarsMade ==
    ASSUME cookies \in Jars
    PROVE  /\ \A t \in Accessories : Unlocked(t) \in Jars /\ OwnerOpened(t) \in Jars
           /\ ElsewhereCookies \subseteq Jars
           /\ [cookies EXCEPT !.session = TRUE] \in Jars
           /\ [cookies EXCEPT !.session = FALSE, !.ownerBrowse = NoAccessory] \in Jars
<1>1. \A t \in Accessories : Unlocked(t) \in Jars /\ OwnerOpened(t) \in Jars
  BY DEF Unlocked, OwnerOpened, Jars
<1>2. /\ [cookies EXCEPT !.session = TRUE] \in Jars
      /\ [cookies EXCEPT !.session = FALSE] \in Jars
      /\ [cookies EXCEPT !.browse = NoAccessory] \in Jars
      /\ [cookies EXCEPT !.ownerBrowse = NoAccessory] \in Jars
      /\ [cookies EXCEPT !.session = FALSE, !.ownerBrowse = NoAccessory] \in Jars
  BY DEF Jars
<1>. QED  BY <1>1, <1>2 DEF ElsewhereCookies

LEMMA WhereKept ==
    ASSUME RoutesShape, RoutesNext
    PROVE  Where'
<1>0. Ceremonies /\ Where /\ RoutesTypeOK
  BY ShapeParts DEF RoutesShape
<1>. USE HomeIsOpen
<1>1. ASSUME NEW p \in Pages, Visit(p)
      PROVE  Where'
  <2>1. /\ screen' = NoPage /\ behind' \in Pages \cup {NoPage}
        /\ tokenAuthority' \in Chains /\ ownerSession' = "loading" /\ owners' = owners
    BY <1>0, <1>1, LoadShape DEF Visit
  <2>2. going' \in Pages /\ asked' \in Accessories \cup {NoAccessory} /\ hops' = 0
    BY <1>1, GoToShape DEF Visit
  <2>. QED  BY <1>0, <1>1, <2>1, <2>2 DEF Visit, Act, Where
<1>2. ASSUME NEW t \in Accessories, TapLink(t)
      PROVE  Where'
  <2>1. /\ screen' = NoPage /\ behind' \in Pages \cup {NoPage}
        /\ tokenAuthority' \in Chains /\ ownerSession' = "loading" /\ owners' = owners
    BY <1>0, <1>2, LoadShape DEF TapLink
  <2>2. going' \in Pages /\ cookies' \in Jars
    BY <1>0, <1>2, ReachesPages, JarsMade DEF TapLink, Where
  <2>. QED  BY <1>0, <1>2, <2>1, <2>2 DEF TapLink, Act, Where
<1>3. CASE Request
  <2>1. going \in Pages
    BY <1>0, <1>3 DEF Request, Where
  <2>2. CASE redirect(going) = NoPage
    <3>1. screen' \in Pages /\ going' \in Pages \cup {NoPage} /\ hops' \in Nat
      BY <1>0, <1>3, <2>1, <2>2, ShowShape DEF Request, Where
    <3>. QED  BY <1>0, <1>3, <2>2, <3>1 DEF Request, Where
  <2>3. CASE redirect(going) # NoPage
    <3>1. redirect(going) \in Pages
      BY <2>1, <2>3, RedirectsTo, ReachesPages
    <3>. QED  BY <1>0, <1>3, <2>3, <3>1 DEF Request, Where
  <2>. QED  BY <2>2, <2>3
<1>4. CASE Back
  <2>1. behind \in Pages
    BY <1>0, <1>4 DEF Back, Where
  <2>2. CASE Show(behind, 0) /\ asked' = NoAccessory
    <3>1. screen' \in Pages /\ going' \in Pages \cup {NoPage} /\ hops' \in Nat
      BY <2>1, <2>2, ShowShape
    <3>. QED  BY <1>0, <1>4, <2>2, <3>1 DEF Back, Act, Where
  <2>3. CASE GoTo(behind, NoAccessory) /\ UNCHANGED <<screen, mismatch>>
    <3>1. going' \in Pages /\ asked' \in Accessories \cup {NoAccessory} /\ hops' = 0
      BY <2>1, <2>3, GoToShape
    <3>. QED  BY <1>0, <1>4, <2>3, <3>1 DEF Back, Act, Where
  <2>. QED  BY <1>4, <2>2, <2>3 DEF Back
<1>5. ASSUME NEW p \in Pages, Go(p)
      PROVE  Where'
  <2>1. going' \in Pages /\ asked' \in Accessories \cup {NoAccessory} /\ hops' = 0
    BY <1>5, GoToShape DEF Go
  <2>. QED  BY <1>0, <1>5, <2>1 DEF Go, Act, Where
<1>6. CASE leaveToken
  <2>1. going' \in Pages /\ asked' \in Accessories \cup {NoAccessory} /\ hops' = 0
    BY <1>6, GoToShape DEF leaveToken
  <2>. QED  BY <1>0, <1>6, <2>1 DEF leaveToken, Act, Where
<1>7. CASE HoldEnds
  <2>1. /\ going' \in Pages \cup {NoPage} /\ asked' \in Accessories \cup {NoAccessory}
        /\ hops' \in Nat
    <3>1. CASE hold.expected \in {NoAccessory, hold.held}
      BY <1>0, <1>7, <3>1, ReachesPages, GoToShape DEF HoldEnds, Ceremonies, HoldOK
    <3>2. CASE hold.expected \notin {NoAccessory, hold.held}
      BY <1>0, <1>7, <3>2 DEF HoldEnds, Where
    <3>. QED  BY <3>1, <3>2
  <2>. QED  BY <1>0, <1>7, <2>1 DEF HoldEnds, Where
<1>8. CASE openHeldInstead
  <2>1. mismatch \in Accessories
    BY <1>0, <1>8 DEF openHeldInstead, Ceremonies
  <2>2. going' \in Pages /\ asked' \in Accessories \cup {NoAccessory} /\ hops' = 0
    BY <1>8, <2>1, ReachesPages, GoToShape DEF openHeldInstead
  <2>. QED  BY <1>0, <1>8, <2>2 DEF openHeldInstead, Act, Where
<1>9. CASE OpenEnds
  <2>1. opening.token \in Accessories
    BY <1>0, <1>9 DEF OpenEnds, Ceremonies, OpeningOK
  <2>2. going' \in Pages /\ asked' \in Accessories \cup {NoAccessory} /\ hops' = 0
    BY <1>9, <2>1, ReachesPages, GoToShape DEF OpenEnds
  <2>. QED  BY <1>0, <1>9, <2>2 DEF OpenEnds, Where
<1>10. CASE SignIn
  <2>1. cookies' \in Jars
    BY <1>0, <1>10, JarsMade DEF SignIn, SignedIn, Where
  <2>2. /\ tokenAuthority' \in Chains /\ ownerSession' \in {"loading", "in", "out"}
        /\ going' \in Pages \cup {NoPage} /\ hops' \in Nat
        /\ asked' \in Accessories \cup {NoAccessory}
    BY <1>0, <1>10, LearnShape DEF SignIn, SignedIn, Where
  <2>. QED  BY <1>0, <1>10, <2>1, <2>2 DEF SignIn, Act, Where
<1>11. CASE LoginToOpen
  <2>1. CASE SignedIn
    <3>1. cookies' \in Jars
      BY <1>0, <2>1, JarsMade DEF SignedIn, Where
    <3>2. /\ tokenAuthority' \in Chains /\ ownerSession' \in {"loading", "in", "out"}
          /\ going' \in Pages \cup {NoPage} /\ hops' \in Nat
          /\ asked' \in Accessories \cup {NoAccessory}
      BY <1>0, <2>1, LearnShape DEF SignedIn, Where
    <3>. QED  BY <1>0, <1>11, <3>1, <3>2 DEF LoginToOpen, Where
  <2>2. CASE ~SignedIn
    BY <1>0, <1>11, <2>2 DEF LoginToOpen, Where
  <2>. QED  BY <2>1, <2>2
<1>12. CASE logOut
  <2>1. cookies' \in Jars /\ asked' \in Accessories \cup {NoAccessory} /\ hops' = 0
    BY <1>0, <1>12, JarsMade, CookiesShape DEF logOut, Where
  <2>. QED  BY <1>0, <1>12, <2>1 DEF logOut, Act, Where
<1>13. ASSUME NEW t \in Accessories, Held(t)
       PROVE  Where'
  <2>1. cookies' \in Jars /\ asked' \in Accessories \cup {NoAccessory} /\ hops' = 0
    BY <1>0, <1>13, JarsMade, CookiesShape DEF Held, Where
  <2>. QED  BY <1>0, <1>13, <2>1 DEF Held, Where
<1>14. CASE mintOwnerBrowse
  <2>1. cookies' \in Jars /\ asked' \in Accessories \cup {NoAccessory} /\ hops' \in Nat
    <3>1. CASE SetCookies(OwnerOpened(opening.token)) /\ opening.phase = "mint"
      BY <1>0, <3>1, JarsMade, CookiesShape DEF Where, Ceremonies, OpeningOK
    <3>2. CASE UNCHANGED <<cookies, asked, hops>>
      BY <1>0, <3>2 DEF Where
    <3>. QED  BY <1>14, <3>1, <3>2 DEF mintOwnerBrowse
  <2>. QED  BY <1>0, <1>14, <2>1 DEF mintOwnerBrowse, Where
<1>15. CASE OwningSent
  <2>1. owning.token \in Accessories /\ owning.to \in {"nobody", "me"}
    BY <1>0, <1>15 DEF OwningSent, Ceremonies, OwningOK
  <2>2. [tokenAuthority EXCEPT ![owning.token] = owning.to] \in Chains
    BY <1>0, <2>1 DEF Where, Chains
  <2>3. /\ tokenAuthority' \in Chains /\ ownerSession' \in {"loading", "in", "out"}
        /\ going' \in Pages \cup {NoPage} /\ hops' \in Nat
        /\ asked' \in Accessories \cup {NoAccessory}
    BY <1>0, <1>15, <2>2, LearnShape DEF OwningSent, Where
  <2>. QED  BY <1>0, <1>15, <2>3 DEF OwningSent, Where
<1>16. CASE OwningFails
  <2>1. CASE owning.phase = "asked"
    BY <1>0, <1>16, <2>1 DEF OwningFails, Where
  <2>2. CASE owning.phase # "asked"
    <3>. DEFINE chain == [tokenAuthority EXCEPT ![owning.token] =
                              IF owning.before = "failed" THEN "loading" ELSE owning.before]
    <3>1. owning.token \in Accessories /\ owning.before \in {"loading", "failed", "nobody", "me", "other"}
      BY <1>0, <1>16 DEF OwningFails, Ceremonies, OwningOK
    <3>2. chain \in Chains
      BY <1>0, <3>1 DEF Where, Chains
    <3>3. Learn(chain, ownerSession)
      BY <1>16, <2>2 DEF OwningFails
    <3>. HIDE DEF chain
    <3>4. /\ tokenAuthority' \in Chains /\ ownerSession' \in {"loading", "in", "out"}
          /\ going' \in Pages \cup {NoPage} /\ hops' \in Nat
          /\ asked' \in Accessories \cup {NoAccessory}
      BY <1>0, <3>2, <3>3, LearnShape DEF Where
    <3>. QED  BY <1>0, <1>16, <3>4 DEF OwningFails, Where
  <2>. QED  BY <2>1, <2>2
<1>17. CASE FetchAccount
  <2>1. /\ tokenAuthority' \in Chains /\ ownerSession' \in {"loading", "in", "out"}
        /\ going' \in Pages \cup {NoPage} /\ hops' \in Nat
        /\ asked' \in Accessories \cup {NoAccessory}
    BY <1>0, <1>17, LearnShape DEF FetchAccount, Where
  <2>. QED  BY <1>0, <1>17, <2>1 DEF FetchAccount, Where
<1>18. CASE FetchAuthority
  <2>1. screen.token \in Accessories
    BY <1>0, <1>18, PagePaths DEF FetchAuthority, Where
  <2>2. PICK answer \in {owners[screen.token]}
                            \cup (IF tokenAuthority[screen.token] = "loading" THEN {"failed"} ELSE {}) :
             Learn([tokenAuthority EXCEPT ![screen.token] = answer], ownerSession)
    BY <1>18 DEF FetchAuthority
  <2>3. answer \in {"failed", "nobody", "me", "other"}
    BY <1>0, <2>1, <2>2 DEF Where
  <2>4. [tokenAuthority EXCEPT ![screen.token] = answer] \in Chains
    BY <1>0, <2>1, <2>3 DEF Where, Chains
  <2>5. /\ tokenAuthority' \in Chains /\ ownerSession' \in {"loading", "in", "out"}
        /\ going' \in Pages \cup {NoPage} /\ hops' \in Nat
        /\ asked' \in Accessories \cup {NoAccessory}
    BY <1>0, <2>2, <2>4, LearnShape DEF Where
  <2>. QED  BY <1>0, <1>18, <2>5 DEF FetchAuthority, Where
<1>19. CASE OwningLands
  <2>1. owners' \in [Accessories -> {"nobody", "me", "other"}]
    BY <1>0, <1>19 DEF OwningLands, Where, Ceremonies, OwningOK
  <2>. QED  BY <1>0, <1>19, <2>1 DEF OwningLands, Where
<1>20. CASE Elsewhere
  <2>1. /\ cookies' \in Jars /\ asked' \in Accessories \cup {NoAccessory} /\ hops' \in Nat
        /\ owners' \in [Accessories -> {"nobody", "me", "other"}]
    <3>1. ASSUME NEW fresh \in ElsewhereCookies, SetCookies(fresh), UNCHANGED owners
          PROVE  <2>1
      BY <1>0, <3>1, JarsMade, CookiesShape DEF Where
    <3>2. ASSUME NEW t \in Accessories, NEW o \in {"nobody", "me", "other"},
                 owners' = [owners EXCEPT ![t] = o], UNCHANGED <<cookies, asked, hops>>
          PROVE  <2>1
      BY <1>0, <3>2 DEF Where
    <3>. QED  BY <1>20, <3>1, <3>2 DEF Elsewhere
  <2>. QED  BY <1>0, <1>20, <2>1 DEF Elsewhere, Where
<1>21. CASE StartHold \/ HoldFails \/ StartClaim \/ StartUnlink
  BY <1>0, <1>21 DEF StartHold, HoldFails, StartClaim, StartUnlink, Act, Where
<1>22. ASSUME NEW t \in Accessories, StartOpen(t)
       PROVE  Where'
  BY <1>0, <1>22 DEF StartOpen, Act, Where
<1>. QED
  BY <1>1, <1>2, <1>3, <1>4, <1>5, <1>6, <1>7, <1>8, <1>9, <1>10, <1>11, <1>12, <1>13, <1>14,
     <1>15, <1>16, <1>17, <1>18, <1>19, <1>20, <1>21, <1>22 DEF RoutesNext

\* What a step does to the navigation.
Stays == UNCHANGED <<cookies, screen, going, tokenAuthority, ownerSession, asked, hops>>

IsSent ==
    /\ \E p \in Pages, t \in Accessories \cup {NoAccessory} :
           GoTo(p, t) /\ (t # NoAccessory => p = walletHref(t))
    /\ UNCHANGED cookies

SetsCookies ==
    /\ \E fresh \in Jars : SetCookies(fresh)
    /\ UNCHANGED <<screen, going, tokenAuthority, ownerSession>>

Learns ==
    /\ \E chain \in Chains, login \in {"loading", "in", "out"} : Learn(chain, login)
    /\ \A t \in Accessories : canAccess(cookies, t) => canAccess(cookies', t)
    /\ UNCHANGED screen

ShowsAgain ==
    /\ behind \in Pages /\ Show(behind, 0) /\ asked' = NoAccessory
    /\ UNCHANGED <<cookies, tokenAuthority, ownerSession>>

LEMMA StepKinds ==
    ASSUME RoutesShape, RoutesNext
    PROVE  \/ Stays \/ IsSent \/ SetsCookies \/ Learns \/ ShowsAgain
           \/ Request \/ \E t \in Accessories : TapLink(t)
<1>0. Ceremonies /\ Where
  BY ShapeParts
<1>1. ASSUME NEW p \in Pages, Visit(p) \/ Go(p)
      PROVE  IsSent
  BY <1>1 DEF Visit, Go, IsSent
<1>2. CASE leaveToken
  BY <1>2, HomeIsOpen DEF leaveToken, IsSent
<1>3. CASE Back
  <2>1. behind \in Pages
    BY <1>0, <1>3 DEF Back, Where
  <2>2. CASE Show(behind, 0) /\ asked' = NoAccessory
    BY <1>3, <2>1, <2>2 DEF Back, ShowsAgain
  <2>3. CASE GoTo(behind, NoAccessory)
    BY <1>3, <2>1, <2>3 DEF Back, IsSent
  <2>. QED  BY <1>3, <2>2, <2>3 DEF Back
<1>4. CASE HoldEnds
  <2>1. CASE hold.expected \in {NoAccessory, hold.held}
    <3>1. hold.held \in Accessories /\ walletHref(hold.held) \in Pages
      BY <1>0, <1>4, Destinations DEF HoldEnds, Ceremonies, HoldOK
    <3>. QED  BY <1>4, <2>1, <3>1 DEF HoldEnds, IsSent
  <2>2. CASE hold.expected \notin {NoAccessory, hold.held}
    BY <1>4, <2>2 DEF HoldEnds, Stays
  <2>. QED  BY <2>1, <2>2
<1>5. CASE openHeldInstead
  <2>1. mismatch \in Accessories /\ walletHref(mismatch) \in Pages
    BY <1>0, <1>5, Destinations DEF openHeldInstead, Ceremonies
  <2>. QED  BY <1>5, <2>1 DEF openHeldInstead, IsSent
<1>6. CASE OpenEnds
  <2>1. opening.token \in Accessories /\ walletHref(opening.token) \in Pages
    BY <1>0, <1>6, Destinations DEF OpenEnds, Ceremonies, OpeningOK
  <2>. QED  BY <1>6, <2>1 DEF OpenEnds, IsSent
<1>7. CASE logOut
  BY <1>0, <1>7, JarsMade DEF logOut, SetsCookies, Where
<1>8. ASSUME NEW t \in Accessories, Held(t)
      PROVE  SetsCookies
  BY <1>0, <1>8, JarsMade DEF Held, SetsCookies, Where
<1>9. CASE mintOwnerBrowse
  <2>1. CASE SetCookies(OwnerOpened(opening.token)) /\ opening.phase = "mint"
    BY <1>0, <1>9, <2>1, JarsMade DEF mintOwnerBrowse, SetsCookies, Where, Ceremonies, OpeningOK
  <2>2. CASE UNCHANGED <<cookies, asked, hops>>
    BY <1>9, <2>2 DEF mintOwnerBrowse, Stays
  <2>. QED  BY <1>9, <2>1, <2>2 DEF mintOwnerBrowse
<1>10. CASE Elsewhere
  <2>1. ASSUME NEW fresh \in ElsewhereCookies, SetCookies(fresh)
        PROVE  SetsCookies
    BY <1>0, <1>10, <2>1, JarsMade DEF Elsewhere, SetsCookies, Where
  <2>2. CASE UNCHANGED <<cookies, asked, hops>>
    BY <1>10, <2>2 DEF Elsewhere, Stays
  <2>. QED  BY <1>10, <2>1, <2>2 DEF Elsewhere
<1>11. ASSUME SignedIn, UNCHANGED screen
       PROVE  Learns
  <2>1. \A t \in Accessories : canAccess(cookies, t) => canAccess(cookies', t)
    BY <1>0, <1>11 DEF SignedIn, canAccess, Where, Jars
  <2>. QED  BY <1>0, <1>11, <2>1 DEF SignedIn, Learns, Where
<1>12. CASE SignIn
  BY <1>11, <1>12 DEF SignIn
<1>13. CASE LoginToOpen
  BY <1>11, <1>13 DEF LoginToOpen, Stays
<1>14. ASSUME NEW chain \in Chains, NEW login \in {"loading", "in", "out"}, Learn(chain, login),
              UNCHANGED <<screen, cookies>>
       PROVE  Learns
  BY <1>14 DEF Learns
<1>15. CASE FetchAccount
  BY <1>0, <1>14, <1>15 DEF FetchAccount, Where
<1>16. CASE FetchAuthority
  <2>1. screen.token \in Accessories
    BY <1>0, <1>16, PagePaths DEF FetchAuthority, Where
  <2>2. PICK answer \in {owners[screen.token]}
                            \cup (IF tokenAuthority[screen.token] = "loading" THEN {"failed"} ELSE {}) :
             Learn([tokenAuthority EXCEPT ![screen.token] = answer], ownerSession)
    BY <1>16 DEF FetchAuthority
  <2>3. answer \in {"failed", "nobody", "me", "other"}
    BY <1>0, <2>1, <2>2 DEF Where
  <2>4. [tokenAuthority EXCEPT ![screen.token] = answer] \in Chains
    BY <1>0, <2>1, <2>3 DEF Where, Chains
  <2>. QED  BY <1>0, <1>14, <1>16, <2>2, <2>4 DEF FetchAuthority, Where
<1>17. CASE OwningSent
  <2>1. owning.token \in Accessories /\ owning.to \in {"nobody", "me"}
    BY <1>0, <1>17 DEF OwningSent, Ceremonies, OwningOK
  <2>2. [tokenAuthority EXCEPT ![owning.token] = owning.to] \in Chains
    BY <1>0, <2>1 DEF Where, Chains
  <2>. QED  BY <1>0, <1>14, <1>17, <2>2 DEF OwningSent, Where
<1>18. CASE OwningFails
  <2>1. CASE owning.phase = "asked"
    BY <1>18, <2>1 DEF OwningFails, Stays
  <2>2. CASE owning.phase # "asked"
    <3>. DEFINE chain == [tokenAuthority EXCEPT ![owning.token] =
                              IF owning.before = "failed" THEN "loading" ELSE owning.before]
    <3>1. owning.token \in Accessories /\ owning.before \in {"loading", "failed", "nobody", "me", "other"}
      BY <1>0, <1>18 DEF OwningFails, Ceremonies, OwningOK
    <3>2. chain \in Chains
      BY <1>0, <3>1 DEF Where, Chains
    <3>3. Learn(chain, ownerSession) /\ UNCHANGED <<screen, cookies>>
      BY <1>18, <2>2 DEF OwningFails
    <3>. HIDE DEF chain
    <3>. QED  BY <1>0, <1>14, <3>2, <3>3 DEF Where
  <2>. QED  BY <2>1, <2>2
<1>19. CASE StartHold \/ HoldFails \/ StartClaim \/ StartUnlink \/ OwningLands
  BY <1>19 DEF StartHold, HoldFails, StartClaim, StartUnlink, OwningLands, Stays
<1>20. ASSUME NEW t \in Accessories, StartOpen(t)
       PROVE  Stays
  BY <1>20 DEF StartOpen, Stays
<1>. QED
  BY <1>1, <1>2, <1>3, <1>4, <1>5, <1>6, <1>7, <1>8, <1>9, <1>10, <1>12, <1>13, <1>15, <1>16,
     <1>17, <1>18, <1>19, <1>20 DEF RoutesNext

LEMMA SettlesStep ==
    ASSUME RoutesShape, Settles, RoutesNext
    PROVE  Settles'
<1>0. Where /\ RedirectsEnd' /\ SendOnsEnd' /\ RedirectsEnd /\ SendOnsEnd
  <2>1. RedirectsEnd' /\ SendOnsEnd'
    BY NextEnds, PTL
  <2>. QED  BY <2>1, NextEnds, ShapeParts
<1>1. CASE Stays
  BY <1>1 DEF Stays, Settles, EndsAt, EndsSoon, redirect, canAccess
<1>2. CASE IsSent
  BY <1>2, HomeIsOpen DEF IsSent, GoTo, Settles
<1>3. CASE SetsCookies
  BY <1>3 DEF SetsCookies, SetCookies, Settles
<1>4. CASE Learns
  <2>1. PICK chain \in Chains, login \in {"loading", "in", "out"} : Learn(chain, login)
    BY <1>4 DEF Learns
  <2>2. screen' = screen /\ tokenAuthority' = chain /\ ownerSession' = login
    BY <1>4, <2>1 DEF Learns, Learn
  <2>3. CASE sendOn(screen, chain, login) \in
                 {NoPage, sendOn(screen, tokenAuthority, ownerSession)}
    BY <2>1, <2>2, <2>3 DEF Learn, Settles
  <2>4. CASE sendOn(screen, chain, login) \notin
                 {NoPage, sendOn(screen, tokenAuthority, ownerSession)}
    <3>1. going' = sendOn(screen', tokenAuthority', ownerSession') /\ going' # NoPage /\ hops' = 1
      BY <2>1, <2>2, <2>4 DEF Learn
    <3>2. EndsSoon(going)'
      BY <1>0, <2>2, <3>1 DEF SendOnsEnd, Where
    <3>. QED  BY <3>1, <3>2 DEF Settles
  <2>. QED  BY <2>3, <2>4
<1>5. CASE ShowsAgain
  <2>. DEFINE next == sendOn(behind, tokenAuthority, ownerSession)
  <2>1. /\ screen' = behind /\ going' = next
        /\ hops' = IF next = NoPage THEN 0 ELSE 1
        /\ behind \in Pages
        /\ tokenAuthority' = tokenAuthority /\ ownerSession' = ownerSession
    BY <1>5 DEF ShowsAgain, Show
  <2>2. next = NoPage \/ EndsSoon(going)'
    BY <1>0, <2>1 DEF SendOnsEnd
  <2>. QED  BY <2>1, <2>2 DEF Settles
<1>6. CASE Request
  <2>1. going \in Pages /\ UNCHANGED <<cookies, tokenAuthority, ownerSession>>
    BY <1>0, <1>6 DEF Request, Where
  <2>2. hops \in 0..2 /\ (hops = 1 => EndsSoon(going)) /\ (hops = 2 => EndsAt(going))
    BY <1>6, <2>1, HomeIsOpen DEF Settles
  <2>3. CASE redirect(going) = NoPage
    <3>. DEFINE next == sendOn(going, tokenAuthority, ownerSession)
    <3>1. screen' = going /\ going' = next /\ hops' = IF next = NoPage THEN hops ELSE hops + 1
      BY <1>6, <2>3 DEF Request, Show
    <3>2. next # NoPage => hops # 2
      BY <2>2 DEF EndsAt
    <3>3. next # NoPage /\ hops = 1 => EndsAt(next)
      BY <2>2, <2>3 DEF EndsAt, EndsSoon
    <3>4. next # NoPage => EndsSoon(next)
      BY <1>0, <2>1 DEF SendOnsEnd
    <3>. HIDE DEF next
    <3>5. (EndsAt(going)' <=> EndsAt(next)) /\ (EndsSoon(going)' <=> EndsSoon(next))
      BY <2>1, <3>1 DEF EndsAt, EndsSoon, redirect, canAccess
    <3>6. next # NoPage => (hops' = 1 /\ EndsSoon(going)') \/ (hops' = 2 /\ EndsAt(going)')
      BY <2>2, <3>1, <3>2, <3>3, <3>4, <3>5
    <3>7. next = NoPage => hops' \in 0..2 /\ going' = NoPage
      BY <2>2, <3>1
    <3>8. going' = NoPage => sendOn(screen', tokenAuthority', ownerSession') = NoPage
      BY <2>1, <3>1 DEF next
    <3>. QED  BY <3>1, <3>6, <3>7, <3>8 DEF Settles
  <2>4. CASE redirect(going) # NoPage
    <3>. DEFINE next == redirect(going)
    <3>1. going' = next /\ hops' = hops + 1
      BY <1>6, <2>4 DEF Request
    <3>2. hops # 2 /\ (hops = 1 => EndsAt(next))
      BY <2>2, <2>4 DEF EndsAt, EndsSoon
    <3>3. EndsSoon(next)
      BY <1>0, <2>1, <2>4 DEF RedirectsEnd
    <3>. HIDE DEF next
    <3>4. (EndsAt(going)' <=> EndsAt(next)) /\ (EndsSoon(going)' <=> EndsSoon(next))
      BY <2>1, <3>1 DEF EndsAt, EndsSoon, redirect, canAccess
    <3>5. (hops' = 1 /\ EndsSoon(going)') \/ (hops' = 2 /\ EndsAt(going)')
      BY <2>2, <3>1, <3>2, <3>3, <3>4
    <3>6. going' # NoPage
      BY <2>4, <3>1 DEF next
    <3>. QED  BY <3>5, <3>6 DEF Settles
  <2>. QED  BY <2>3, <2>4
<1>7. ASSUME NEW t \in Accessories, TapLink(t)
      PROVE  Settles'
  <2>1. hops' = 1 /\ tokenAuthority' = [a \in Accessories |-> "loading"]
    BY <1>7 DEF TapLink, Load
  <2>2. CASE cookies' = Unlocked(t) /\ going' = walletHref(t)
    <3>1. canAccess(cookies', t)
      BY <1>0, <2>2 DEF Unlocked, canAccess, Where, Jars
    <3>2. /\ walletHref(t).token = t /\ walletHref(t).path = "wallet"
          /\ walletHref(t) # NoPage /\ t # NoAccessory
      BY Destinations, RoutesAssumption
    <3>3. EndsAt(going)'
      BY <2>1, <2>2, <3>1, <3>2 DEF EndsAt, redirect, sendOn, token_owner
    <3>. QED  BY <2>1, <2>2, <3>2, <3>3 DEF Settles, EndsSoon, EndsAt
  <2>3. CASE going' = ColdPage
    <3>1. ColdPage.token = NoAccessory /\ ColdPage # NoPage
      BY DEF ColdPage, NoPage, Page
    <3>2. EndsAt(going)'
      BY <2>3, <3>1 DEF EndsAt, redirect, sendOn
    <3>. QED  BY <2>1, <2>3, <3>1, <3>2 DEF Settles, EndsSoon, EndsAt
  <2>. QED  BY <1>7, <2>2, <2>3 DEF TapLink
<1>. QED  BY <1>1, <1>2, <1>3, <1>4, <1>5, <1>6, <1>7, StepKinds

LEMMA OnTheWayStep ==
    ASSUME RoutesShape, Settles, OnTheWay, RoutesNext
    PROVE  OnTheWay'
<1>0. Where
  BY ShapeParts
<1>. USE RoutesAssumption
<1>1. CASE Stays
  BY <1>1 DEF Stays, OnTheWay
<1>2. CASE IsSent
  <2>1. PICK p \in Pages, t \in Accessories \cup {NoAccessory} :
             GoTo(p, t) /\ (t # NoAccessory => p = walletHref(t))
    BY <1>2 DEF IsSent
  <2>. QED  BY <1>2, <2>1, HomeIsOpen DEF IsSent, GoTo, OnTheWay
<1>3. CASE SetsCookies
  BY <1>3 DEF SetsCookies, SetCookies, OnTheWay
<1>4. CASE Learns
  <2>1. PICK chain \in Chains, login \in {"loading", "in", "out"} : Learn(chain, login)
    BY <1>4 DEF Learns
  <2>. DEFINE next == sendOn(screen, chain, login)
  <2>2. asked' \in {asked, NoAccessory} /\ asked \in Accessories \cup {NoAccessory}
    BY <1>0, <2>1 DEF Learn, Where
  <2>3. asked' # NoAccessory => canAccess(cookies', asked')
    BY <1>4, <2>2 DEF Learns, OnTheWay
  <2>4. CASE next \in {NoPage, sendOn(screen, tokenAuthority, ownerSession)}
    BY <1>4, <2>1, <2>3, <2>4 DEF Learns, Learn, OnTheWay
  <2>5. CASE next \notin {NoPage, sendOn(screen, tokenAuthority, ownerSession)}
    <3>1. /\ going' = next /\ going' # NoPage
          /\ asked' # NoAccessory => asked' = next.token
      BY <2>1, <2>5 DEF Learn
    <3>2. /\ screen.token \in Accessories
          /\ next \in {walletHref(screen.token), walletClaimHref(screen.token)}
      BY <1>0, <2>5, SendsToOwn DEF Where
    <3>3. next.token = screen.token
      BY <3>2, Destinations
    <3>. HIDE DEF next
    <3>. QED  BY <2>3, <3>1, <3>2, <3>3 DEF OnTheWay
  <2>. QED  BY <2>4, <2>5
<1>5. CASE ShowsAgain
  BY <1>5 DEF ShowsAgain, OnTheWay
<1>6. CASE Request
  <2>1. CASE asked = NoAccessory
    BY <1>6, <2>1 DEF Request, OnTheWay
  <2>2. CASE asked # NoAccessory
    <3>1. /\ going \in {walletHref(asked), walletClaimHref(asked)} /\ canAccess(cookies, asked)
          /\ asked \in Accessories /\ asked' = asked /\ cookies' = cookies
      BY <1>0, <1>6, <2>2 DEF Request, OnTheWay, Where
    <3>2. redirect(going) = NoPage
      BY <3>1, LetsThrough
    <3>. DEFINE next == sendOn(going, tokenAuthority, ownerSession)
    <3>3. screen' = going /\ going' = next
      BY <1>6, <3>2 DEF Request, Show
    <3>4. going \in Pages /\ going.token = asked
      BY <3>1, Destinations
    <3>5. next = NoPage \/ next \in {walletHref(asked), walletClaimHref(asked)}
      BY <3>4, SendsToOwn
    <3>. HIDE DEF next
    <3>. QED  BY <3>1, <3>3, <3>5 DEF OnTheWay
  <2>. QED  BY <2>1, <2>2
<1>7. ASSUME NEW t \in Accessories, TapLink(t)
      PROVE  OnTheWay'
  <2>1. CASE cookies' = Unlocked(t) /\ going' = walletHref(t) /\ asked' = t
    <3>1. canAccess(cookies', t)
      BY <1>0, <2>1 DEF Unlocked, canAccess, Where, Jars
    <3>. QED  BY <2>1, <3>1, Destinations DEF OnTheWay
  <2>2. CASE asked' = NoAccessory
    BY <2>2 DEF OnTheWay
  <2>. QED  BY <1>7, <2>1, <2>2 DEF TapLink
<1>. QED  BY <1>1, <1>2, <1>3, <1>4, <1>5, <1>6, <1>7, StepKinds

(* Pages, cookies, queries and ceremonies keep their shapes, redirects come *)
(* to an end and an accessory that was opened stays the destination        *)
(* (middleware.ts, require-claimed-accessory.tsx).                         *)
THEOREM RoutesCorrect == RoutesSpec => []RoutesInv
<1>1. RoutesInit => RoutesInv
  <2>. SUFFICES ASSUME RoutesInit PROVE RoutesInv
    OBVIOUS
  <2>1. RoutesShape
    BY NothingStarted, HomeIsOpen DEF RoutesInit, RoutesShape, RoutesTypeOK, Chains, HoldOK, OpeningOK,
                                      OwningOK
  <2>2. Settles /\ OnTheWay
    BY HomeIsOpen DEF RoutesInit, Settles, OnTheWay
  <2>. QED  BY <2>1, <2>2 DEF RoutesInv
<1>2. RoutesInv /\ [RoutesNext]_routes => RoutesInv'
  <2>. SUFFICES ASSUME RoutesInv, [RoutesNext]_routes PROVE RoutesInv'
    OBVIOUS
  <2>1. CASE RoutesNext
    <3>1. RoutesShape' <=> Ceremonies' /\ Where'
      BY ShapeParts, PTL
    <3>. QED  BY <2>1, <3>1, CeremoniesKept, WhereKept, SettlesStep, OnTheWayStep DEF RoutesInv
  <2>2. CASE UNCHANGED routes
    <3>1. RoutesShape'
      BY <2>2 DEF routes, RoutesInv, RoutesShape, RoutesTypeOK
    <3>2. Settles'
      BY <2>2 DEF routes, RoutesInv, Settles, EndsAt, EndsSoon, redirect, canAccess
    <3>3. OnTheWay'
      BY <2>2 DEF routes, RoutesInv, OnTheWay, EndsAt, EndsSoon, redirect, canAccess
    <3>. QED  BY <3>1, <3>2, <3>3 DEF RoutesInv
  <2>. QED  BY <2>1, <2>2
<1>. QED  BY <1>1, <1>2, PTL DEF RoutesSpec

(* At most two redirects in a row, and the user ends where he asked to, for *)
(* any number of accessories, tabs' doings and steps of the user.          *)
THEOREM AlwaysArrives == RoutesSpec => []Arrives
<1>1. RoutesInv => Arrives
  <2>. SUFFICES ASSUME RoutesInv PROVE Arrives
    OBVIOUS
  <2>1. hops <= 2
    BY DEF RoutesInv, Settles
  <2>2. ASSUME going = NoPage, asked # NoAccessory
        PROVE  /\ screen.token = asked
               /\ screen.path \in {"wallet", "claim"}
               /\ LET owner == token_owner(asked, tokenAuthority, ownerSession)
                  IN  IF screen.path = "wallet" THEN owner # "nobody"
                      ELSE owner \in {"nobody", "loading"}
    <3>1. asked \in Accessories
      BY <2>2 DEF RoutesInv, RoutesShape, RoutesTypeOK
    <3>2. screen \in {walletHref(asked), walletClaimHref(asked)}
      BY <2>2 DEF RoutesInv, OnTheWay
    <3>3. /\ screen.token = asked /\ screen.path \in {"wallet", "claim"}
          /\ NoPage # walletHref(asked) /\ NoPage # walletClaimHref(asked)
      BY <3>1, <3>2, Destinations
    <3>4. sendOn(screen, tokenAuthority, ownerSession) = NoPage
      BY <2>2 DEF RoutesInv, Settles
    <3>. QED  BY <2>2, <3>3, <3>4 DEF sendOn
  <2>. QED  BY <2>1, <2>2 DEF Arrives
<1>. QED  BY <1>1, RoutesCorrect, PTL

=============================================================================
