----------------------------- MODULE Connector -----------------------------
(***************************************************************************)
(* PhygitalWallet, the wallet-standard object a page of an application     *)
(* holds (wallet.ts): the session it keeps in memory and in the local      *)
(* storage, and the signer that is loaded for it.                          *)
(*                                                                         *)
(* An action is what a call does between two awaits.  Loading a signer     *)
(* awaits the address of the wallet and the authority account; connecting  *)
(* awaits a load or a tap.  Other calls, other tabs and a reload of the    *)
(* page come in between.                                                   *)
(***************************************************************************)
EXTENDS Integers, FiniteSets

CONSTANTS
    Tokens,      \* accessories; a wallet address is named after its accessory
    NoToken,
    Taps,        \* the accessories the user has at hand
    Stores,      \* sessions the storage may hold from elsewhere: of what was tapped
                 \* there, or made up, and then of a wallet that is not its token's
    Calls,       \* calls the application makes, each once
    Op,          \* what each call is, in Ops
    LoadIds      \* names of loadSigner calls: one for the page, one per connect

Ops == {"connect", "connect silently", "disconnect", "sign"}

Session == [token : Tokens, wallet : Tokens]
NoSession == [token |-> NoToken, wallet |-> NoToken]
session_of(t) == [token |-> t, wallet |-> t]

NoLoad == 0

ASSUME ConnectorAssumption ==
    /\ NoToken \notin Tokens
    /\ Taps \subseteq Tokens
    /\ Stores \subseteq Session
    /\ \A s \in Stores : s.wallet = s.token => s.token \in Taps
    /\ Op \in [Calls -> Ops]
    /\ IsFiniteSet(Calls)
    /\ LoadIds \in Nat
    /\ Cardinality({c \in Calls : Op[c] \in {"connect", "connect silently"}}) < LoadIds

VARIABLES
    session,     \* #session
    account,     \* #account: the wallet shown to the application
    signer,      \* #signer: the accessory it signs with
    promise,     \* #signerPromise: a load, or NoLoad
    load,        \* the calls of loadSigner
    stored,      \* the session in the local storage
    call,        \* the calls of the application
    signatures,  \* history: what was signed since the page was loaded
    overlapped   \* history: two changes of the connection overlapped

memory == <<session, account, signer, promise>>
history == <<signatures, overlapped>>
vars == <<memory, load, stored, call, history>>

NoCall == [phase |-> "new", load |-> NoLoad, asked |-> NoToken]
Over == [phase |-> "over", load |-> NoLoad, asked |-> NoToken]
Load(phase, s) == [phase |-> phase, session |-> s]
Unused == Load("unused", NoSession)

interactive(c) == Op[c] = "connect"

-----------------------------------------------------------------------------
(* The private methods. *)

Ends(c) == call' = [call EXCEPT ![c] = Over]

Waits(c, phase, l, asked) ==
    call' = [call EXCEPT ![c] = [phase |-> phase, load |-> l, asked |-> asked]]

adoptSession(s) == session' = s /\ account' = s.wallet

(* Mutant of clearMemorySession: the signer outlives its account. *)
clearAccount ==
    /\ session' = NoSession
    /\ account' = NoToken
    /\ promise' = NoLoad
    /\ UNCHANGED signer

clearMemorySession ==
    /\ session' = NoSession
    /\ account' = NoToken
    /\ signer' = NoToken
    /\ promise' = NoLoad

(* Loads are named in the order they start. *)
next_load == CHOOSE l \in 1..LoadIds :
    load[l] = Unused /\ \A k \in 1..(l - 1) : load[k] # Unused

restoreSession(c) ==
    /\ adoptSession(stored)
    /\ signer' = NoToken
    /\ promise' = next_load
    /\ load' = [load EXCEPT ![next_load] = Load("check", stored)]
    /\ Waits(c, "restore", next_load, NoToken)

(* assertSessionPda: the stored wallet is the one derived from the token. *)
matches_pda(s) == s.wallet = s.token

LoadFails(l) ==
    /\ load' = [load EXCEPT ![l] = Load("failed", @.session)]
    /\ clearMemorySession
    /\ stored' = NoSession

(* The wallet address is derived: ask for the authority, or give up. *)
Checked(l) ==
    /\ load[l].phase = "check"
    /\ \/ /\ matches_pda(load[l].session)
          /\ load' = [load EXCEPT ![l] = Load("build", @.session)]
          /\ UNCHANGED <<memory, stored>>
       \/ /\ ~matches_pda(load[l].session)
          /\ LoadFails(l)
    /\ UNCHANGED <<call, signatures>>

(* The signer is built, or the network failed. *)
Loaded(l) ==
    /\ load[l].phase = "build"
    /\ \/ /\ load' = [load EXCEPT ![l] = Load("done", @.session)]
          /\ session' = load[l].session
          /\ signer' = load[l].session.token
          /\ UNCHANGED <<account, promise, stored>>
       \/ LoadFails(l)
    /\ UNCHANGED <<call, signatures>>

settled(l) == load[l].phase \in {"done", "failed"}

-----------------------------------------------------------------------------
(* connect *)

(* From the look at the local storage on. *)
Lookup(c) ==
    \/ /\ stored # NoSession
       /\ restoreSession(c)
       /\ UNCHANGED stored
    \/ /\ stored = NoSession
       /\ IF interactive(c) THEN Waits(c, "tap", NoLoad, NoToken) ELSE Ends(c)
       /\ UNCHANGED <<memory, load, stored>>

(* ensureSigner has thrown inside connect. *)
Unsigned(c) ==
    \/ /\ interactive(c)
       /\ Lookup(c)
    \/ /\ ~interactive(c)
       /\ Ends(c)
       /\ UNCHANGED <<memory, load, stored>>

Connect(c) ==
    /\ call[c] = NoCall
    /\ Op[c] \in {"connect", "connect silently"}
    /\ \/ /\ session = NoSession
          /\ Lookup(c)
       \/ /\ session # NoSession /\ signer # NoToken
          /\ Ends(c)
          /\ UNCHANGED <<memory, load, stored>>
       \/ /\ session # NoSession /\ signer = NoToken /\ promise # NoLoad
          /\ Waits(c, "ensure", promise, NoToken)
          /\ UNCHANGED <<memory, load, stored>>
       \/ /\ session # NoSession /\ signer = NoToken /\ promise = NoLoad
          /\ Unsigned(c)
    /\ UNCHANGED signatures

Ensured(c) ==
    /\ call[c].phase = "ensure"
    /\ settled(call[c].load)
    /\ \/ /\ load[call[c].load].phase = "done"
          /\ Ends(c)
          /\ UNCHANGED <<memory, load, stored>>
       \/ /\ load[call[c].load].phase = "failed"
          /\ Unsigned(c)
    /\ UNCHANGED signatures

Restored(c) ==
    /\ call[c].phase = "restore"
    /\ settled(call[c].load)
    /\ IF load[call[c].load].phase = "failed" /\ interactive(c)
       THEN Waits(c, "tap", NoLoad, NoToken)
       ELSE Ends(c)
    /\ UNCHANGED <<memory, load, stored, signatures>>

(* The accessory was tapped and verified, or the prompt failed. *)
Tapped(c) ==
    /\ call[c].phase = "tap"
    /\ \/ \E t \in Taps :
              /\ adoptSession(session_of(t))
              /\ Waits(c, "build", NoLoad, t)
              /\ UNCHANGED <<signer, promise>>
       \/ /\ Ends(c)
          /\ UNCHANGED memory
    /\ UNCHANGED <<load, stored, signatures>>

(* The signer of the tapped accessory is there (and its promise, which is  *)
(* resolved and never looked at while there is a signer), or the network   *)
(* failed.  The storage may refuse the session.                            *)
Built(c) ==
    /\ call[c].phase = "build"
    /\ Ends(c)
    /\ \/ /\ signer' = call[c].asked
          /\ promise' = NoLoad
          /\ stored' \in {session_of(call[c].asked), stored}
          /\ UNCHANGED <<session, account>>
       \/ UNCHANGED <<memory, stored>>
    /\ UNCHANGED <<load, signatures>>

-----------------------------------------------------------------------------
(* disconnect and signTransaction *)

Disconnect(c) ==
    /\ call[c] = NoCall
    /\ Op[c] = "disconnect"
    /\ stored' = NoSession
    /\ clearMemorySession
    /\ Ends(c)
    /\ UNCHANGED <<load, signatures>>

signature(w, t) == [account |-> w, token |-> t]

(* The application names the account it was shown. *)
requireAccount == account # NoToken

(* requireAccount, then the signer or the load it comes from. *)
Sign(c) ==
    /\ call[c] = NoCall
    /\ Op[c] = "sign"
    /\ \/ /\ requireAccount /\ signer # NoToken
          /\ signatures' = signatures \cup {signature(account, signer)}
          /\ Ends(c)
       \/ /\ requireAccount /\ signer = NoToken /\ promise # NoLoad
          /\ Waits(c, "sign", promise, account)
          /\ UNCHANGED signatures
       \/ /\ ~requireAccount \/ (signer = NoToken /\ promise = NoLoad)
          /\ Ends(c)
          /\ UNCHANGED signatures
    /\ UNCHANGED <<memory, load, stored>>

(* The load this signature waits for has ended. *)
Signed(c) ==
    LET l == call[c].load
    IN  /\ call[c].phase = "sign"
        /\ settled(l)
        /\ signatures' = IF load[l].phase = "done"
                         THEN signatures \cup {signature(call[c].asked, load[l].session.token)}
                         ELSE signatures
        /\ Ends(c)
        /\ UNCHANGED <<memory, load, stored>>

-----------------------------------------------------------------------------
(* Other tabs, and the page itself. *)

StorageChanges ==
    /\ stored' \in Stores \cup {NoSession}
    /\ UNCHANGED <<memory, load, call, signatures>>

(* The constructor: a stored session is adopted and its signer loaded. *)
Constructed(s) ==
    /\ session = s
    /\ account = s.wallet
    /\ signer = NoToken
    /\ promise = IF s = NoSession THEN NoLoad ELSE 1
    /\ load = [l \in 1..LoadIds |->
                  IF l = 1 /\ s # NoSession THEN Load("check", s) ELSE Unused]
    /\ signatures = {}
    /\ overlapped = FALSE

Init ==
    /\ stored \in Stores \cup {NoSession}
    /\ call = [c \in Calls |-> NoCall]
    /\ Constructed(stored)

(* Calls in flight are gone with the page. *)
Reload ==
    /\ \E l \in 1..LoadIds : load[l] # Unused
    /\ session' = stored
    /\ account' = stored.wallet
    /\ signer' = NoToken
    /\ promise' = IF stored = NoSession THEN NoLoad ELSE 1
    /\ load' = [l \in 1..LoadIds |->
                   IF l = 1 /\ stored # NoSession THEN Load("check", stored) ELSE Unused]
    /\ call' = [c \in Calls |-> IF call[c] = NoCall THEN NoCall ELSE Over]
    /\ signatures' = {}
    /\ overlapped' = FALSE
    /\ UNCHANGED stored

(* Connects that may still change the connection: one that only waits for  *)
(* the signer, and is silent, will not.                                    *)
connecting == {c \in Calls :
    /\ call[c].phase \in {"ensure", "restore", "tap", "build"}
    /\ interactive(c) \/ call[c].phase # "ensure"}

(* They, and the loads none of them waits for. *)
in_flight ==
    Cardinality(connecting)
    + Cardinality({l \in 1..LoadIds :
          /\ load[l].phase \in {"check", "build"}
          /\ \A c \in connecting : call[c].load # l})

disconnecting == \E c \in Calls :
    Op[c] = "disconnect" /\ call[c] = NoCall /\ call'[c] = Over

Resume(c) == Ensured(c) \/ Restored(c) \/ Tapped(c) \/ Built(c) \/ Signed(c)
LoadStep(l) == Checked(l) \/ Loaded(l)

Recorded(A) ==
    /\ A
    /\ overlapped' = (overlapped \/ in_flight' > 1 \/ (in_flight > 0 /\ disconnecting))

Step ==
    \/ \E c \in Calls : Connect(c) \/ Disconnect(c) \/ Sign(c) \/ Resume(c)
    \/ \E l \in 1..LoadIds : LoadStep(l)
    \/ StorageChanges

Next == Recorded(Step) \/ Reload

Spec == Init /\ [][Next]_vars

(***************************************************************************)
(* Loads and builds end: requests to the network do.  So does the prompt   *)
(* of a tap, which has a timeout of its own, and a call resumes once what  *)
(* it awaits is there.                                                     *)
(***************************************************************************)
Fairness ==
    /\ \A c \in Calls : WF_vars(Recorded(Resume(c)))
    /\ \A l \in 1..LoadIds : WF_vars(Recorded(LoadStep(l)))

FairSpec == Spec /\ Fairness

-----------------------------------------------------------------------------
(* Properties *)

(* A transaction is signed with the accessory of the account it was asked  *)
(* for, whatever loads, restores and taps come between the check of the    *)
(* account and the signer (requireAccount, ensureSigner), as long as no    *)
(* two of them overlap and no disconnect overtakes one; and a session that *)
(* does not fit its own token never signs even then (assertSessionPda).    *)
SignsForAccount ==
    /\ overlapped \/ \A s \in signatures : s.account = s.token
    /\ \A s \in signatures : s.token \in Taps

(* Every call ends: no call waits on a promise that nobody settles.        *)
CallsSettle ==
    \A c \in Calls : call[c] # NoCall ~> call[c] = Over
=============================================================================
