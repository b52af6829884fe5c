---------------------------- MODULE SignerClient ----------------------------
(***************************************************************************)
(* The web app's client of the secure signer: SecureSignerClient and the   *)
(* sheet (SecureSignerHost) in which it shows the signer's frame.          *)
(*                                                                         *)
(* A call is one request().  Promises settle in the task that settles them,*)
(* so an action is what runs between two events from outside: a message, a *)
(* timer, a render, the user.  What the state of the sheet was last set to *)
(* (open), what is rendered (shown) and whether the frame is still in the  *)
(* page (link) differ: a render follows later, and a closing sheet keeps   *)
(* its frame until the animation has ended.                                *)
(*                                                                         *)
(* The signer in the frame takes one request at a time and answers any     *)
(* other with an error, as SecureSigner shows.                             *)
(***************************************************************************)
CONSTANTS Requests, None

VARIABLES
    mounted,   \* the host has mounted: this.shell is set
    open,      \* what setOpen was last called with
    shown,     \* what is rendered
    link,      \* this.iframeEl and its ready promise
    inbox,     \* requests posted to the frame and not taken yet
    inside,    \* the call the signer is working on
    outbox,    \* answers of the frame not delivered yet
    request    \* phase of each call

client == <<mounted, open, shown, link, inbox, inside, outbox, request>>

Waiting == {"shell", "attach", "ready", "retry"}
Settled    == {"ok", "failed"}
Active  == Waiting \cup {"posted"}

In(phases) == {c \in Requests : request[c] \in phases}

ClientInit ==
    /\ mounted = FALSE /\ open = FALSE /\ shown = FALSE
    /\ link = "none"
    /\ inbox = {} /\ inside = None /\ outbox = {}
    /\ request = [c \in Requests |-> "idle"]

moved(S, phase) == [c \in Requests |-> IF c \in S THEN phase ELSE request[c]]

\* request ends with hide() however it fails.
failing(S) == request' = moved(S, "failed") /\ open' = (open /\ S = {})

-----------------------------------------------------------------------------
(* Requests.                                                               *)

\* ensureReady, up to the first promise that is still open.
Ask(c) ==
    /\ request[c] = "idle"
    /\ open' = (open \/ mounted)
    /\ request' = [request EXCEPT ![c] =
                  CASE ~mounted         -> "shell"
                    [] link = "none"    -> "attach"
                    [] link = "loading" -> "ready"
                    [] link = "failed"  -> "retry"
                    [] link = "ready"   -> "posted"]
    /\ inbox' = IF mounted /\ link = "ready" THEN inbox \cup {c} ELSE inbox
    /\ link' = IF mounted /\ link = "failed" THEN "loading" ELSE link
    /\ UNCHANGED <<mounted, shown, inside, outbox>>

\* attachShell: the host mounts, on a preload or on the first request.
ShellMounts ==
    /\ ~mounted
    /\ mounted' = TRUE
    /\ open' = (open \/ In({"shell"}) # {})
    /\ request' = moved(In({"shell"}), "attach")
    /\ UNCHANGED <<shown, link, inbox, inside, outbox>>

\* Without a shell hide() does nothing.
ShellTimeout(c) ==
    /\ request[c] = "shell"
    /\ request' = [request EXCEPT ![c] = "failed"]
    /\ UNCHANGED <<mounted, open, shown, link, inbox, inside, outbox>>

\* The waiter for the frame has a timer of its own.
WaiterTimeout(c) ==
    /\ request[c] = "attach"
    /\ failing({c})
    /\ UNCHANGED <<mounted, shown, link, inbox, inside, outbox>>

\* SIGNER_READY: whoever waits posts its request.
FrameReady ==
    /\ link = "loading"
    /\ link' = "ready"
    /\ request' = moved(In({"attach", "ready", "retry"}), "posted")
    /\ inbox' = In({"attach", "ready", "retry"})
    /\ UNCHANGED <<mounted, open, shown, inside, outbox>>

\* The ready promise is rejected.  Only a call that found the frame attached
\* retries; of several, each loads the frame again and aborts the one before.
ReadyTimeout ==
    /\ link = "loading"
    /\ IF In({"ready"}) = {}
       THEN /\ link' = "failed"
            /\ failing(In({"attach", "retry"}))
       ELSE \E c \in In({"ready"}) :
              LET lost == In({"attach", "ready", "retry"}) \ {c}
              IN  /\ request' = [moved(lost, "failed") EXCEPT ![c] = "retry"]
                  /\ open' = (open /\ lost = {})
                  /\ UNCHANGED link
    /\ UNCHANGED <<mounted, shown, inbox, inside, outbox>>

\* onMessage, for the answer to a pending request, with the hide() after it.
Deliver(c, answer) ==
    /\ <<c, answer>> \in outbox
    /\ outbox' = outbox \ {<<c, answer>>}
    /\ IF request[c] = "posted"
       THEN request' = [request EXCEPT ![c] = answer] /\ open' = FALSE
       ELSE UNCHANGED <<request, open>>
    /\ UNCHANGED <<mounted, shown, link, inbox, inside>>

RequestTimeout(c) ==
    /\ request[c] = "posted"
    /\ failing({c})
    /\ UNCHANGED <<mounted, shown, link, inbox, inside, outbox>>

-----------------------------------------------------------------------------
(* The sheet.                                                              *)

\* cancelFromHost: every pending request is rejected.
cancelled == moved(In({"posted"}), "failed")

\* onOpenChange(false): the user closes the sheet.
Dismiss ==
    /\ open /\ shown
    /\ open' = FALSE
    /\ request' = cancelled
    /\ UNCHANGED <<mounted, shown, link, inbox, inside, outbox>>

\* The frame comes into the page: attachIframe loads the signer in it.
RenderOpen ==
    /\ open /\ ~shown
    /\ shown' = TRUE
    /\ link' = IF link = "none" THEN "loading" ELSE link
    /\ UNCHANGED <<mounted, open, inbox, inside, outbox, request>>

RenderClosed ==
    /\ ~open /\ shown
    /\ shown' = FALSE
    /\ UNCHANGED <<mounted, open, link, inbox, inside, outbox, request>>

\* Mutant: those who wait for the frame are not told.
left_waiting == {}

\* detachIframe aborts the ready promise and rejects the waiters.  A request
\* already posted stays pending.
told_of_detach == In({"attach", "ready", "retry"})

\* The frame leaves the page, and whatever was in it.
Detach ==
    /\ ~shown /\ link # "none"
    /\ link' = "none"
    /\ inbox' = {} /\ inside' = None /\ outbox' = {}
    /\ failing(told_of_detach)
    /\ UNCHANGED <<mounted, shown>>

-----------------------------------------------------------------------------
(* The frame.                                                              *)

SignerTakes(c) ==
    /\ c \in inbox
    /\ inbox' = inbox \ {c}
    /\ IF inside = None
       THEN inside' = c /\ UNCHANGED outbox
       ELSE outbox' = outbox \cup {<<c, "failed">>} /\ UNCHANGED inside
    /\ UNCHANGED <<mounted, open, shown, link, request>>

SignerAnswers(c) ==
    /\ inside = c
    /\ inside' = None
    /\ \E answer \in Settled : outbox' = outbox \cup {<<c, answer>>}
    /\ UNCHANGED <<mounted, open, shown, link, inbox, request>>

ClientStep ==
    \/ ShellMounts \/ FrameReady \/ ReadyTimeout
    \/ Dismiss \/ RenderOpen \/ RenderClosed \/ Detach
    \/ \E c \in Requests :
          \/ Ask(c)
          \/ ShellTimeout(c) \/ WaiterTimeout(c) \/ RequestTimeout(c)
          \/ SignerTakes(c) \/ SignerAnswers(c)
          \/ \E answer \in Settled : Deliver(c, answer)

-----------------------------------------------------------------------------
\* Every request settles, and the sheet does not outlive the requests,
\* whatever timer, dismissal or render comes in between.
RequestsSettle ==
    /\ \A c \in Requests : (request[c] \in Active) ~> (request[c] \in Settled)
    /\ (In(Active) = {}) ~> (link = "none" \/ In(Active) # {})
=============================================================================
