------------------------------ MODULE PushGateway ------------------------------
(***************************************************************************)
(* Push notifications of one Thread (push.rs, push_tokens.rs, tools/       *)
(* threads.rs publish_thread). Every change of the Thread is published by  *)
(* the task that made it: the row is read under the storage guard, and     *)
(* handed to the gateway after it, so two publications may change places.  *)
(* The gateway claims an episode of attention and sends it to the devices  *)
(* registered then. An attempt that misses one of them is repeated for all *)
(* of them, so a device may get an episode several times.                  *)
(***************************************************************************)
EXTENDS Naturals, Sequences, FiniteSets

CONSTANTS
    Device,       \* devices with a push token
    ChangeLimit,  \* bound on changes of the Thread's attention
    Attempts      \* MAX_DELIVERY_ATTEMPTS

VARIABLES
    needs,       \* the row: the Thread waits for the owner now
    changes,     \* number of published changes
    publishing,  \* publications read and not yet handed over
    revoked,     \* devices revoked or unregistered
    gate,        \* ThreadDelivery: eligible, episode, status
    senders,     \* send_with_retry tasks: episode, devices, attempts made
    attempts     \* the attempts at each episode: the devices an attempt was for
                 \* and those whose push the service took (history variable)

vars == <<needs, changes, publishing, revoked, gate, senders, attempts>>

Episode == 0 .. 2 * ChangeLimit

TypeOK ==
    /\ needs \in BOOLEAN /\ changes \in 0 .. ChangeLimit
    /\ publishing \subseteq ((1 .. ChangeLimit) \X BOOLEAN) /\ revoked \subseteq Device
    /\ gate \in [eligible : BOOLEAN, episode : Episode,
                 status : {"idle", "inFlight", "delivered"}]
    /\ senders \subseteq [episode : Episode, to : SUBSET Device, tries : 0 .. Attempts,
                          id : 1 .. ChangeLimit]
    /\ attempts \in [Episode -> Seq([to : SUBSET Device, reached : SUBSET Device])]

Init ==
    /\ needs = FALSE /\ changes = 0 /\ publishing = {} /\ revoked = {}
    /\ gate = [eligible |-> FALSE, episode |-> 0, status |-> "idle"]
    /\ senders = {} /\ attempts = [e \in Episode |-> <<>>]

-----------------------------------------------------------------------------
(* The Thread                                                              *)

\* Attention, settling, archiving or snoozing change what the Thread needs;
\* other changes publish it as it is.
Publish ==
    /\ changes < ChangeLimit /\ changes' = changes + 1
    /\ \E now \in BOOLEAN :
         /\ needs' = now
         /\ publishing' = publishing \cup {<<changes + 1, now>>}
    /\ UNCHANGED <<revoked, gate, senders, attempts>>

Revoke ==
    /\ \E d \in Device \ revoked : revoked' = revoked \cup {d}
    /\ UNCHANGED <<needs, changes, publishing, gate, senders, attempts>>

-----------------------------------------------------------------------------
(* The gateway                                                             *)

\* mutation: the episode goes on when attention was away in between
SameEpisode(g, eligible) == [g EXCEPT !.eligible = eligible]
Noted(g, eligible) ==
    IF g.eligible = eligible THEN g
    ELSE [eligible |-> eligible, episode |-> g.episode + 1, status |-> "idle"]

Claims(g) == g.eligible /\ g.status = "idle"

\* enqueue_thread: claim_delivery, then the registered devices; with none the
\* claim is released.
Enqueue ==
    \E p \in publishing : LET g == Noted(gate, p[2]) IN
      /\ publishing' = publishing \ {p}
      /\ IF Claims(g) /\ Device \ revoked # {}
         THEN /\ gate' = [g EXCEPT !.status = "inFlight"]
              /\ senders' = senders \cup {[episode |-> g.episode, to |-> Device \ revoked,
                                           tries |-> 0, id |-> p[1]]}
         ELSE gate' = g /\ UNCHANGED senders
      /\ UNCHANGED <<needs, changes, revoked, attempts>>

\* mutation: a finished send is credited to the current episode
AnyEpisode(s) == gate.status = "inFlight"
OwnEpisode(s) == gate.episode = s.episode /\ gate.status = "inFlight"

Settled(s, status) ==
    gate' = IF OwnEpisode(s) THEN [gate EXCEPT !.status = status] ELSE gate

\* FcmPushSender::send: one push to each device of the claim, whatever an earlier
\* attempt reached; reached is empty if the access token was refused.
Pushes(s, reached) ==
    attempts' = [attempts EXCEPT ![s.episode] = Append(@, [to |-> s.to, reached |-> reached])]

\* send_with_retry: an attempt in which one send failed is repeated as a whole.
Attempt ==
    \E s \in senders : \E reached \in SUBSET s.to :
      /\ Pushes(s, reached)
      /\ \/ /\ reached = s.to
            /\ Settled(s, "delivered") /\ senders' = senders \ {s}
         \/ /\ reached # s.to /\ s.tries + 1 < Attempts
            /\ senders' = (senders \ {s}) \cup {[s EXCEPT !.tries = @ + 1]}
            /\ UNCHANGED gate
         \/ /\ reached # s.to /\ s.tries + 1 = Attempts
            /\ Settled(s, "idle") /\ senders' = senders \ {s}
      /\ UNCHANGED <<needs, changes, publishing, revoked>>

Next == Publish \/ Revoke \/ Enqueue \/ Attempt

Spec == Init /\ [][Next]_vars /\ WF_vars(Enqueue) /\ WF_vars(Attempt)

-----------------------------------------------------------------------------
(* Properties                                                              *)

\* Whether an attempt at the episode reached every device it was for.
Whole(a) == a.reached = a.to
Delivered(e) == \E i \in DOMAIN attempts[e] : Whole(attempts[e][i])

\* A device is pushed an episode again only while no attempt has reached every
\* device of its claim: nothing follows the attempt that did. An episode is taken
\* for delivered only if there was one, also when a send outlives its episode and
\* the next is under way (push.rs claim_delivery and the spawned send).
EpisodeDeliveredOnce ==
    /\ \A e \in Episode : \A i, j \in DOMAIN attempts[e] : i < j => ~Whole(attempts[e][i])
    /\ gate.status = "delivered" => Delivered(gate.episode)

\* A claimed delivery is settled or overtaken: no episode stays in flight.
InFlight == gate.status = "inFlight"
InFlightEnds == InFlight ~> ~InFlight

-----------------------------------------------------------------------------
(* The inductive invariant                                                 *)

\* The claim of an episode belongs to one send at most, and the gateway is at
\* least as far as every send under way.
OneSender ==
    \A s \in senders :
        /\ s.episode <= gate.episode
        /\ s.episode = gate.episode => gate.status = "inFlight"
        /\ \A t \in senders : s.episode = t.episode => s = t

\* An episode that is sent, idle or to come is not delivered yet.
NotDeliveredYet ==
    /\ \A s \in senders : ~Delivered(s.episode)
    /\ gate.status = "idle" => ~Delivered(gate.episode)
    /\ \A e \in Episode : e > gate.episode => ~Delivered(e)

\* An episode begins with a publication, and each was handed over once.
EpisodesAreCounted ==
    /\ \A p \in publishing : p[1] <= changes
    /\ \A p, q \in publishing : p[1] = q[1] => p = q
    /\ IsFiniteSet(publishing)
    /\ gate.episode + Cardinality(publishing) <= changes

GateInv == TypeOK /\ OneSender /\ NotDeliveredYet /\ EpisodesAreCounted /\ EpisodeDeliveredOnce

=============================================================================
