---------------------------- MODULE MCConnector ----------------------------
(***************************************************************************)
(* Two clients of the signers: the connector of the SDK, with two          *)
(* accessories at hand and a third that is only ever named by a stored     *)
(* session that claims the wallet of the first; and the web app's client   *)
(* of the secure signer.  They share no variable, so a behaviour moves one *)
(* of them, chosen at the start, and leaves the other where it begins.     *)
(***************************************************************************)
EXTENDS Connector, SignerClient

CONSTANTS a, b, f, connect, auto, bye, sign

VARIABLE scene

all == <<scene, vars, client>>

MCOp == [c \in Calls |->
    CASE c = connect -> "connect"
      [] c = auto -> "connect silently"
      [] c = bye -> "disconnect"
      [] c = sign -> "sign"]

MCStores == {session_of(a), [token |-> f, wallet |-> a]}

InConnector(A) == scene = "connector" /\ A /\ UNCHANGED <<scene, client>>
InClient(A)    == scene = "client" /\ A /\ UNCHANGED <<scene, vars>>

ClientsInit ==
    /\ scene \in {"connector", "client"}
    /\ Init /\ ClientInit
    /\ scene = "client" => stored = NoSession

ClientsNext ==
    \/ scene = "connector" /\ Next /\ UNCHANGED <<scene, client>>
    \/ scene = "client" /\ ClientStep /\ UNCHANGED <<scene, vars>>

\* In the connector, loads and calls resume, as in Connector.  In the client,
\* timers fire, a request having one at a time, the host mounts once it is
\* asked to, React renders what was set, and the closing animation ends.
\* Neither the user nor the signer need do anything.
ClientsFairness ==
    /\ \A c \in Calls : WF_all(InConnector(Recorded(Resume(c))))
    /\ \A l \in 1..LoadIds : WF_all(InConnector(Recorded(LoadStep(l))))
    /\ WF_all(InClient(ShellMounts)) /\ WF_all(InClient(ReadyTimeout))
    /\ WF_all(InClient(RenderOpen)) /\ WF_all(InClient(RenderClosed))
    /\ WF_all(InClient(Detach))
    /\ \A c \in Requests :
          WF_all(InClient(ShellTimeout(c) \/ WaiterTimeout(c) \/ RequestTimeout(c)))

ClientsSpec == ClientsInit /\ [][ClientsNext]_all /\ ClientsFairness

\* Nobody waits for what will not come: neither a call of the connector on a
\* promise that a disconnect or a restore forgot, nor a request of the client
\* on a frame, a signer or an answer that is gone.
NobodyStaysWaiting == CallsSettle /\ RequestsSettle
=============================================================================
