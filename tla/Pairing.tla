-------------------------------- MODULE Pairing --------------------------------
(***************************************************************************)
(* Pairing a phone (devices.rs, protocol.rs authenticate, client-core      *)
(* transport.rs HandshakeState and run_session, client.rs, Connection.kt,  *)
(* MainActivity.kt). The phone redeems a one-time code for a device token  *)
(* over a connection that may drop at any frame; its core keeps the token  *)
(* until it has told the app; the app keeps the last phase it was told and *)
(* stores a token when it next composes the screen. Abstracted: secrets,   *)
(* identities and the throttle of failed attempts.                         *)
(***************************************************************************)
EXTENDS Naturals, Sequences

CONSTANTS
    Code,        \* pairing codes the owner mints, one after another
    DropLimit,   \* bound on dropped connections
    FaultLimit,  \* bound on expiries, host restarts and failed writes
    StartLimit   \* bound on restarts of the app

VARIABLES
    codes,   \* PairingCodes.codes, in memory
    tokens,  \* device_tokens, each named by the code it was issued for
    shown,   \* codes the owner has minted and shown as a QR
    core,    \* ClientInner.auth, pending_pairing_token and HandshakeState
    link,    \* frames to the phone, in order
    app,     \* lifecycle events posted to the main thread, and the phase
    saved,   \* TokenStore
    told,    \* tokens the core delivered to the app (history variable)
    drops, faults, starts

vars == <<codes, tokens, shown, core, link, app, saved, told, drops, faults, starts>>
host == <<codes, tokens, shown>>
bounds == <<drops, faults, starts>>

None == {}
Auth == [kind : {"code", "token", "none"}, of : SUBSET Code]
Frame == [kind : {"paired", "hello", "error"}, of : SUBSET Code]
Phase == [at : {"connecting", "online", "offline"}, token : SUBSET Code]

TypeOK ==
    /\ codes \subseteq shown /\ tokens \subseteq shown /\ shown \subseteq Code
    /\ core.auth \in Auth /\ core.pending \subseteq Code /\ core.carried \subseteq Code
    /\ core.at \in {"off", "sent", "paired", "hello", "online"}
    /\ \A i \in DOMAIN link : link[i] \in Frame
    /\ app.phase \in Phase /\ \A i \in DOMAIN app.posts : app.posts[i] \in Phase
    /\ saved \subseteq tokens /\ told \subseteq tokens

Fresh(auth) == [auth |-> auth, pending |-> None, carried |-> None, at |-> "off"]
Connecting == [at |-> "connecting", token |-> None]

Init ==
    /\ codes = {} /\ tokens = {} /\ shown = {}
    /\ core = Fresh([kind |-> "none", of |-> None]) /\ link = <<>>
    /\ app = [posts |-> <<>>, phase |-> Connecting]
    /\ saved = {} /\ told = {} /\ drops = 0 /\ faults = 0 /\ starts = 0

-----------------------------------------------------------------------------
(* The host                                                                *)

\* The owner asks for a code and the phone scans it.
Scan ==
    /\ core.auth.kind = "none"
    /\ \E c \in Code \ shown :
         /\ codes' = codes \cup {c} /\ shown' = shown \cup {c}
         /\ core' = Fresh([kind |-> "code", of |-> {c}])
    /\ UNCHANGED <<tokens, link, app, saved, told, bounds>>

\* Codes expire, and a restart of the host forgets them.
Expire ==
    /\ codes # {} /\ faults < FaultLimit /\ faults' = faults + 1
    /\ codes' = {}
    /\ UNCHANGED <<tokens, shown, core, link, app, saved, told, drops, starts>>

\* mutation: a redeemed code stays usable
Burnt(c) == {c}
BurntNever(c) == {}

\* authenticate a pairing code: the code is gone whether or not the token
\* can be issued.
Redeem ==
    /\ core.at = "sent" /\ link = <<>> /\ core.auth.kind = "code"
    /\ \E c \in core.auth.of :
         /\ codes' = codes \ Burnt(c)
         /\ \/ /\ c \in codes /\ tokens' = tokens \cup {c} /\ UNCHANGED faults
               /\ link' = <<[kind |-> "paired", of |-> {c}], [kind |-> "hello", of |-> None]>>
            \/ /\ c \notin codes \/ faults < FaultLimit
               /\ faults' = IF c \in codes THEN faults + 1 ELSE faults
               /\ link' = <<[kind |-> "error", of |-> None]>> /\ UNCHANGED tokens
    /\ core' = [core EXCEPT !.at = "paired"]
    /\ UNCHANGED <<shown, app, saved, told, drops, starts>>

\* A device token is in the table: nothing is changed that the phone sees.
Recognise ==
    /\ core.at = "sent" /\ link = <<>> /\ core.auth.kind = "token"
    /\ link' = <<[kind |-> IF core.auth.of \subseteq tokens THEN "hello" ELSE "error",
                  of |-> None]>>
    /\ core' = [core EXCEPT !.at = "hello"]
    /\ UNCHANGED <<host, app, saved, told, bounds>>

-----------------------------------------------------------------------------
(* The phone's core                                                        *)

Post(phase) == app' = [app EXCEPT !.posts = Append(@, phase)]
Connected == core.at # "off"

\* mutation: a new connection does not carry the token to deliver
HandshakeEmpty == None
Handshake == core.pending

\* run_session sends hello; HandshakeState::new.
Connect ==
    /\ core.at = "off" /\ core.auth.kind # "none" /\ Len(app.posts) < 3
    /\ core' = [core EXCEPT !.at = "sent", !.carried = Handshake]
    /\ Post(Connecting) /\ link' = <<>>
    /\ UNCHANGED <<host, saved, told, bounds>>

\* accept_paired and capture_paired_device_token.
Paired ==
    /\ Connected /\ link # <<>> /\ Head(link).kind = "paired" /\ link' = Tail(link)
    /\ LET t == Head(link).of IN
         core' = [core EXCEPT !.auth = [kind |-> "token", of |-> t], !.pending = t,
                              !.carried = t, !.at = "hello"]
    /\ UNCHANGED <<host, app, saved, told, bounds>>

\* accept_hello_ok: the token, if there is one to deliver, goes to the app.
HelloOk ==
    /\ Connected /\ link # <<>> /\ Head(link).kind = "hello" /\ link' = Tail(link)
    /\ core.at = "hello" /\ Len(app.posts) < 3
    /\ core' = [core EXCEPT !.at = "online", !.carried = None,
                            !.pending = IF core.carried = None THEN @ ELSE None]
    /\ Post([at |-> "online", token |-> core.carried])
    /\ told' = told \cup core.carried
    /\ UNCHANGED <<host, saved, bounds>>

\* The host refused and closed, or the connection dropped.
Disconnected ==
    /\ Connected /\ Len(app.posts) < 3
    /\ \/ link # <<>> /\ Head(link).kind = "error" /\ UNCHANGED drops
       \/ drops < DropLimit /\ drops' = drops + 1
    /\ core' = [core EXCEPT !.at = "off", !.carried = None] /\ link' = <<>>
    /\ Post([at |-> "offline", token |-> None])
    /\ UNCHANGED <<host, saved, told, faults, starts>>

Core == Connect \/ Paired \/ HelloOk \/ (Disconnected /\ link # <<>>
                                         /\ Head(link).kind = "error")

-----------------------------------------------------------------------------
(* The app                                                                 *)

\* mainHandler runs the posts in order; the phase keeps only the last one.
MainThread ==
    /\ app.posts # <<>>
    /\ app' = [posts |-> Tail(app.posts), phase |-> Head(app.posts)]
    /\ UNCHANGED <<host, core, link, saved, told, bounds>>

\* LaunchedEffect(connection.phase) at the next composition.
Compose ==
    /\ app.phase.token # None /\ saved' = app.phase.token
    /\ UNCHANGED <<host, core, link, app, told, bounds>>

\* The app is started again with what it stored; a burnt code is given up.
Restart ==
    /\ starts < StartLimit /\ starts' = starts + 1
    /\ core' = Fresh([kind |-> IF saved = {} THEN "none" ELSE "token", of |-> saved])
    /\ link' = <<>> /\ app' = [posts |-> <<>>, phase |-> Connecting]
    /\ UNCHANGED <<host, saved, told, drops, faults>>

App == MainThread \/ Compose

Next == Scan \/ Expire \/ Redeem \/ Recognise \/ Core \/ Disconnected \/ App \/ Restart

Fairness == WF_vars(Redeem) /\ WF_vars(Recognise) /\ WF_vars(Core)
            /\ WF_vars(MainThread) /\ WF_vars(Compose)

Spec == Init /\ [][Next]_vars /\ Fairness

-----------------------------------------------------------------------------
(* Properties                                                              *)

\* A code issues one token (ADR 0011: one-time), whatever is resent: a token
\* the phone never received stays without a holder.
OneTokenPerCode == codes \cap tokens = {}

\* A token the phone received reaches its app on some connection, whatever
\* connections drop before (pending_pairing_token, HandshakeState::new).
Received(c) == c \in core.pending
Delivered(c) == c \in told \/ starts > 0
TokenIsDelivered == \A c \in Code : Received(c) ~> Delivered(c)

\* "The phone persists the token" (docs/adr/0011-device-pairing-over-iroh.md:24):
\* a delivered token is stored, unless the app stops first. Refuted: a later
\* phase of the connection can replace the one that carries the token.
TokenIsSaved == \A c \in Code : (c \in told) ~> (c \in saved \/ starts > 0)

-----------------------------------------------------------------------------
(* The inductive invariant                                                 *)

\* What the phone and its app hold of tokens was issued.
TokensAreIssued ==
    /\ core \in [auth : Auth, pending : SUBSET tokens, carried : SUBSET tokens,
                 at : {"off", "sent", "paired", "hello", "online"}]
    /\ core.auth.kind = "token" => core.auth.of \subseteq tokens
    /\ core.auth.kind = "code" => core.auth.of \subseteq shown
    /\ link \in Seq(Frame)
    /\ \A i \in DOMAIN link : link[i].of \subseteq tokens
    /\ app \in [posts : Seq(Phase), phase : Phase]
    /\ app.phase.token \subseteq tokens
    /\ \A i \in DOMAIN app.posts : app.posts[i].token \subseteq tokens

PairInv == TypeOK /\ TokensAreIssued /\ OneTokenPerCode

=============================================================================
