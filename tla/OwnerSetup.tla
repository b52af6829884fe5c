---------------------------- MODULE OwnerSetup ----------------------------
(***************************************************************************)
(* How an owner comes to a wallet and an accessory to an owner.  The app   *)
(* asks whether to unlock or to create, makes the passkey and hands it to  *)
(* the secure signer; the signer makes the key, seals it with what the     *)
(* passkey derives, backs the sealed blob up with the API and keeps a copy *)
(* in the storage of the phone.  Another phone with the same passkey, or   *)
(* the same one with its storage cleared, gets the blob back.  Only then   *)
(* is the wallet told to the app, which may claim accessories for it.      *)
(*                                                                         *)
(* Every await of the signer may fail, and a handler whose user has closed *)
(* it goes on behind the next one (SecureSigner has its states).  A wallet *)
(* is named by the request that made its seed; a key stands for its seed.  *)
(***************************************************************************)
EXTENDS Sequences

CONSTANTS
    Phones,        \* phones, or browsers of one
    Credentials,   \* passkeys that may be made
    Handlers,      \* requests to the signer
    Items,         \* accessories
    Earlier,       \* passkeys of wallets made before, which they name
    None

ASSUME SetupAssumption ==
    /\ None \notin Credentials \cup Handlers
    /\ Earlier \subseteq Credentials

VARIABLES
    storage,     \* localStorage of the signer on each phone: a blob or NoBlob
    made,        \* the passkeys made so far; any phone may have them synced
    rows,        \* owner_wallet_blob: the blob of each passkey, or NoBlob
    cookie,      \* the wallet of the owner session of each phone
    address,     \* the wallet the app shows
    setup,       \* the sheet of the app: a phase, and the one Back leads to
    handlers,    \* the handlers of the signer
    claims,      \* claims under way: <<accessory, wallet>>
    authority    \* on the chain

owning == <<storage, made, rows, cookie, address, setup, handlers, claims, authority>>

-----------------------------------------------------------------------------
(* Blobs.  What the passkey derives is the same on every phone; the salt   *)
(* is fresh, as the key is. *)

prf(credential) == <<"prf", credential>>

deriveWrappingKey(prfOutput, salt) == <<prfOutput, salt>>

buildAad(publicKey, credentialId, salt) == <<publicKey, credentialId, salt>>

(* GCM authenticates the key and the header. *)
aesGcmEncrypt(key, seed, aad) == [key |-> key, aad |-> aad, seed |-> seed]

aesGcmDecrypts(key, sealed, aad) == sealed.key = key /\ sealed.aad = aad

encodeWalletBlob(publicKey, credentialId, kdfSalt, ciphertext) ==
    [publicKey |-> publicKey, credentialId |-> credentialId, kdfSalt |-> kdfSalt, ciphertext |-> ciphertext]

wrapNewSeed(seed, credentialId) ==
    encodeWalletBlob(seed, credentialId, seed,
        aesGcmEncrypt(deriveWrappingKey(prf(credentialId), seed), seed, buildAad(seed, credentialId, seed)))

(* What does not parse counts as nothing. *)
NoBlob == [credentialId |-> None]

(* The seed inside must be the one of the key outside. *)
unwraps(prfOutput, blob) ==
    /\ aesGcmDecrypts(deriveWrappingKey(prfOutput, blob.kdfSalt), blob.ciphertext,
                      buildAad(blob.publicKey, blob.credentialId, blob.kdfSalt))
    /\ blob.ciphertext.seed = blob.publicKey

(* Handlers and passkeys are new each time; which one comes next is no choice. *)
next_of(left) == CHOOSE x \in left : TRUE

-----------------------------------------------------------------------------
(* The handlers.  What is still to do is a sequence of steps. *)

(* Mutant of CreateSteps: the phone keeps its copy before there is another. *)
kept_first == <<"enroll", "write", "push", "tell">>

CreateSteps == <<"enroll", "push", "write", "tell">>

(* With a blob in the storage nothing is fetched; what comes back from its *)
(* backup is stored before the backup is refreshed. *)
UnlockSteps(blob) == IF blob = NoBlob THEN <<"restore", "write", "push", "tell">>
                                      ELSE <<"open", "push", "write", "tell">>

SignSteps(blob) == IF blob = NoBlob THEN <<"restore", "write", "tell">> ELSE <<"open", "tell">>

Handler(p, op, steps, blob, passkey, wants) ==
    [on |-> p, op |-> op, steps |-> steps, blob |-> blob, passkey |-> passkey, wants |-> wants, heard |-> TRUE]

Unused == [on |-> None, steps |-> <<>>, heard |-> FALSE]
Done   == [on |-> "done", steps |-> <<>>, heard |-> FALSE]

At(r, step) == handlers[r].steps # <<>> /\ Head(handlers[r].steps) = step

Heard(p) == {r \in Handlers : handlers[r].on = p /\ handlers[r].heard}

(* One request at a time is listened to; its blob is read now. *)
Starts(p, op, steps, passkey, wants) ==
    LET unused == {r \in Handlers : handlers[r] = Unused}
        blob == IF op = "create" THEN NoBlob ELSE storage[p]
    IN  /\ Heard(p) = {}
        /\ unused # {}
        /\ handlers' = [handlers EXCEPT ![next_of(unused)] = Handler(p, op, steps, blob, passkey, wants)]

Proceeds(r, blob) == handlers' = [handlers EXCEPT ![r].steps = Tail(@), ![r].blob = blob]

Over(r) == handlers' = [handlers EXCEPT ![r] = Done]

Closed == [phase |-> "closed", back |-> "closed"]

promptLostPasskey == [phase |-> "lost", back |-> "closed"]

(* The app hears of a failure; an unlock that could not authenticate is    *)
(* offered a new passkey. *)
Fails(r, lost) ==
    /\ Over(r)
    /\ setup' = IF handlers[r].heard /\ lost /\ handlers[r].op = "unlock"
                THEN [setup EXCEPT ![handlers[r].on] = promptLostPasskey]
                ELSE setup

stores == <<storage, rows, cookie>>
chain  == <<claims, authority>>

-----------------------------------------------------------------------------
(* The sheet of the app *)

Shows(p, phase) == setup[p].phase = phase

To(p, phase, back) == setup' = [setup EXCEPT ![p] = [phase |-> phase, back |-> back]]

Outside == <<stores, made, address, chain>>

(* login, promptSetup *)
Login(p) ==
    /\ address[p] = None
    /\ Heard(p) = {}
    /\ Shows(p, "closed")
    /\ To(p, "chooser", "closed")
    /\ UNCHANGED <<Outside, handlers>>

ChooseUnlock(p) ==
    /\ Shows(p, "chooser")
    /\ To(p, "closed", "closed")
    /\ Starts(p, "unlock", UnlockSteps(storage[p]), None, None)
    /\ UNCHANGED Outside

ChooseCreate(p) ==
    /\ \E from \in {"chooser", "lost"} : Shows(p, from) /\ To(p, "username", from)
    /\ UNCHANGED <<Outside, handlers>>

GoBack(p) ==
    /\ Shows(p, "username")
    /\ To(p, setup[p].back, "closed")
    /\ UNCHANGED <<Outside, handlers>>

CancelSetup(p) ==
    /\ ~Shows(p, "closed")
    /\ To(p, "closed", "closed")
    /\ UNCHANGED <<Outside, handlers>>

registerOwnerPasskey == next_of(Credentials \ made)

(* createWithPasskey.  A passkey without attestation, or whose creation    *)
(* ends in another error, leaves the sheet open and may exist all the same. *)
Register(p) ==
    /\ Shows(p, "username")
    /\ Credentials \ made # {}
    /\ made' = made \cup {registerOwnerPasskey}
    /\ \/ To(p, "closed", "closed") /\ Starts(p, "create", CreateSteps, registerOwnerPasskey, None)
       \/ UNCHANGED <<setup, handlers>>
    /\ UNCHANGED <<stores, address, chain>>

-----------------------------------------------------------------------------
(* The steps of the signer *)

(* enrollExistingCredential *)
Enroll(r) ==
    /\ At(r, "enroll")
    /\ Proceeds(r, wrapNewSeed(r, handlers[r].passkey))
    /\ UNCHANGED <<Outside, setup>>

(* decryptWallet *)
OpenLocal(r) ==
    LET blob == handlers[r].blob
    IN  /\ At(r, "open")
        /\ unwraps(prf(blob.credentialId), blob)
        /\ Proceeds(r, blob)
        /\ UNCHANGED <<Outside, setup>>

(* Any passkey of the owner that the phone or its cloud knows. *)
getDiscoverable(c) == c \in made

(* restoreOwnerWalletBlob and unwrapWallet *)
FetchBack(r, c) ==
    /\ At(r, "restore")
    /\ getDiscoverable(c)
    /\ rows[c] # NoBlob
    /\ rows[c].credentialId = c
    /\ unwraps(prf(c), rows[c])
    /\ Proceeds(r, rows[c])
    /\ UNCHANGED <<Outside, setup>>

(* PUT /owner-wallet/blob: a row is made with an attestation only, and     *)
(* keeps its key. *)
takes(blob, attested) ==
    LET row == rows[blob.credentialId]
    IN  IF row = NoBlob THEN attested ELSE row.publicKey = blob.publicKey

(* The answer brings the owner session; it may be lost. *)
BackUp(r) ==
    LET blob == handlers[r].blob
    IN  /\ At(r, "push")
        /\ takes(blob, handlers[r].op = "create")
        /\ rows' = [rows EXCEPT ![blob.credentialId] = blob]
        /\ \/ /\ cookie' = [cookie EXCEPT ![handlers[r].on] = blob.publicKey]
              /\ Proceeds(r, blob)
              /\ UNCHANGED setup
           \/ Fails(r, FALSE) /\ UNCHANGED cookie
        /\ UNCHANGED <<storage, made, address, chain>>

(* writeLocalBlob *)
Keep(r) ==
    /\ At(r, "write")
    /\ storage' = [storage EXCEPT ![handlers[r].on] = handlers[r].blob]
    /\ Proceeds(r, handlers[r].blob)
    /\ UNCHANGED <<rows, cookie, made, address, chain, setup>>

(* The storage refuses, or drops what it had. *)
NotKept(r) ==
    /\ At(r, "write")
    /\ \E left \in {storage[handlers[r].on], NoBlob} : storage' = [storage EXCEPT ![handlers[r].on] = left]
    /\ Fails(r, FALSE)
    /\ UNCHANGED <<rows, cookie, made, address, chain>>

(* The wallet is told, or the owner's signature sent off to unlink; a      *)
(* transaction for another wallet is refused. *)
Tell(r) ==
    LET call == handlers[r]
        key == call.blob.publicKey
    IN  /\ At(r, "tell")
        /\ Over(r)
        /\ address' = IF call.heard /\ call.op # "unlink" THEN [address EXCEPT ![call.on] = key] ELSE address
        /\ authority' = [i \in Items |->
              IF call.heard /\ call.op = "unlink" /\ call.wants = key /\ authority[i] = key
              THEN None ELSE authority[i]]
        /\ UNCHANGED <<stores, made, setup, claims>>

(* A challenge, the backup or the blob is not to be had. *)
ApiFails(r) ==
    /\ \E step \in {"enroll", "open", "restore", "push"} : At(r, step)
    /\ Fails(r, FALSE)
    /\ UNCHANGED Outside

(* A ceremony dismissed, a passkey that is not on this phone or whose      *)
(* authenticator knows no PRF.  A retry is the same step again. *)
CeremonyFails(r) ==
    /\ \E step \in {"enroll", "open", "restore"} : At(r, step)
    /\ Fails(r, At(r, "open"))
    /\ UNCHANGED Outside

(* After the passkey nothing asks whether the user has gone, and a backup  *)
(* fetched to sign is not asked either. *)
behind(r) ==
    At(r, "push") \/ At(r, "write") \/ At(r, "tell") \/ (At(r, "restore") /\ handlers[r].op = "unlink")

Abandon(r) ==
    /\ handlers[r].heard
    /\ IF behind(r) THEN handlers' = [handlers EXCEPT ![r].heard = FALSE] ELSE Over(r)
    /\ UNCHANGED <<Outside, setup>>

-----------------------------------------------------------------------------
(* Accessories *)

(* ClaimAccessoryPanel *)
may_claim(p, i) == address[p] # None /\ authority[i] = None

(* prepareClaimAccessory: the owner is the wallet shown when the button    *)
(* was pressed.  Leaving the page stops nothing.  Bound: one at a time.    *)
Claim(p, i) ==
    /\ may_claim(p, i)
    /\ claims = {}
    /\ claims' = claims \cup {<<i, address[p]>>}
    /\ UNCHANGED <<stores, made, address, setup, handlers, authority>>

(* set_authority inits the account, so the first one wins. *)
ClaimEnds(claim) ==
    /\ claims' = claims \ {claim}
    /\ \/ authority[claim[1]] = None /\ authority' = [authority EXCEPT ![claim[1]] = claim[2]]
       \/ UNCHANGED authority
    /\ UNCHANGED <<stores, made, address, setup, handlers>>

(* OwnerOwnershipSection *)
may_unlink(p, i) == address[p] # None /\ authority[i] = address[p]

(* runUnlink *)
Unlink(p, i) ==
    /\ may_unlink(p, i)
    /\ Starts(p, "unlink", SignSteps(storage[p]), None, address[p])
    /\ UNCHANGED <<Outside, setup>>

(* logout; the session ends by itself as well *)
Logout(p) ==
    /\ cookie' = [cookie EXCEPT ![p] = None]
    /\ address' = [address EXCEPT ![p] = None]
    /\ UNCHANGED <<storage, rows, made, setup, handlers, chain>>

(* fetchOwnerSession *)
FetchSession(p) ==
    /\ address' = [address EXCEPT ![p] = cookie[p]]
    /\ UNCHANGED <<stores, made, setup, handlers, chain>>

-----------------------------------------------------------------------------
(* The storage of the signer is cleared, or no longer parses. *)

LoseStorage(p) ==
    /\ storage' = [storage EXCEPT ![p] = NoBlob]
    /\ UNCHANGED <<rows, cookie, made, address, setup, handlers, chain>>

-----------------------------------------------------------------------------
SetupInit ==
    /\ storage \in [Phones -> {NoBlob} \cup {wrapNewSeed(c, c) : c \in Earlier}]
    /\ made = Earlier
    /\ rows = [c \in Credentials |-> IF c \in Earlier THEN wrapNewSeed(c, c) ELSE NoBlob]
    /\ cookie = [p \in Phones |-> None]
    /\ address = [p \in Phones |-> None]
    /\ setup = [p \in Phones |-> Closed]
    /\ handlers = [r \in Handlers |-> Unused]
    /\ claims = {}
    /\ authority = [i \in Items |-> None]

Sheets(p) ==
    \/ Login(p) \/ ChooseUnlock(p) \/ ChooseCreate(p) \/ GoBack(p) \/ CancelSetup(p)
    \/ Register(p)

HandlerStep(r) ==
    \/ Enroll(r) \/ OpenLocal(r) \/ BackUp(r) \/ Keep(r) \/ NotKept(r) \/ Tell(r)
    \/ ApiFails(r) \/ CeremonyFails(r) \/ Abandon(r)
    \/ \E c \in Credentials : FetchBack(r, c)

PhoneChanges(p) ==
    Logout(p) \/ FetchSession(p) \/ LoseStorage(p)

SetupNext ==
    \/ \E p \in Phones : Sheets(p) \/ PhoneChanges(p)
    \/ \E p \in Phones, i \in Items : Claim(p, i) \/ Unlink(p, i)
    \/ \E r \in Handlers : HandlerStep(r)
    \/ \E claim \in claims : ClaimEnds(claim)

SetupSpec == SetupInit /\ [][SetupNext]_owning

-----------------------------------------------------------------------------
(* Properties *)

restorable(wallet) ==
    \E c \in Credentials :
        /\ rows[c] # NoBlob
        /\ rows[c].publicKey = wallet
        /\ rows[c].credentialId = c /\ unwraps(prf(c), rows[c])

(* Every wallet that owns an accessory, or that a claim or an app still    *)
(* speaks of, can be had back from the backup with its passkey alone. *)
OwnersRestorable ==
    LET spoken_of == {authority[i] : i \in Items} \cup {address[p] : p \in Phones}
                         \cup {claim[2] : claim \in claims}
    IN  \A wallet \in spoken_of \ {None} : restorable(wallet)

(* What a phone keeps keeps the phone from asking the backup, and unlocks  *)
(* only while the API takes it without an attestation: it opens, and its   *)
(* row has the same wallet. *)
KeptIsBackedUp ==
    \A p \in Phones : storage[p] # NoBlob =>
        /\ unwraps(prf(storage[p].credentialId), storage[p])
        /\ takes(storage[p], FALSE)

(* No wallet is lost: whatever fails, is dismissed or cleared, and in      *)
(* whichever order the blob is made, pushed, stored and told. *)
WalletsSurvive == OwnersRestorable /\ KeptIsBackedUp
===========================================================================
