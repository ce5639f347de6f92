-------------------------------- MODULE Views --------------------------------
(***************************************************************************)
(* The views an agent shows on its Thread (crates/hirsel-host/src/         *)
(* templates/views.rs, tools/views.rs, the views tools of lash_runtime/    *)
(* scoped_tools.rs, handle_view_event of lib.rs).  A tool call looks a     *)
(* view up, authorises its Thread and only then takes the execution guard  *)
(* (the storage lock, held to the end of the write); the Owner's view      *)
(* event is bound to the view it was read from and accepted later; and a   *)
(* reset of the history wipes storage and views in two steps.  The spec a  *)
(* view shows is abstracted away: an operation that does not resolve,      *)
(* bind, patch or validate it simply fails.                                *)
(***************************************************************************)
EXTENDS Integers, Functions

CONSTANTS Call,        \* tool calls
          Thread,      \* Threads; one of them reaches every other
          Top,         \* that Thread
          View,        \* view instance ids
          HistoryLimit \* bound: histories

VARIABLES hist,     \* the history of storage
          shown,    \* [hist: the manager's history, views: its active views]
          guard,    \* the call that holds the execution guard, or "free"
          call,     \* each tool call
          event,    \* the Owner's view event
          landed    \* history: what took effect last, and on whose authority

vars == <<hist, shown, guard, call, event, landed>>

NoCall == [pc |-> "idle", op |-> "none", view |-> "none", by |-> Top,
           hist |-> 0, thread |-> Top]
NoEvent == [pc |-> "none", view |-> "none", hist |-> 0, thread |-> Top]

Reaches(by, thread) == by = Top \/ by = thread

\* validate_caller, under the storage lock: the caller's history is current.
Valid(c) == call[c].hist = hist

\* The view manager's own check against the history it was last cleared for.
CurrentHistory(c) == call[c].hist = shown.hist

\* The write finds the view in the Thread the call was authorised for.
\* mutation: whatever Thread the view belongs to by now.
AnyOwner(c, v) == TRUE
SameThread(c, v) == shown.views[v].thread = call[c].thread

Land(what, thread, by, at) ==
    landed' = [what |-> what, thread |-> thread, by |-> by, at |-> at, hist |-> hist]

-----------------------------------------------------------------------------
(* Tool calls                                                              *)

\* A turn calls views_show on its own Thread, or views_update or views_clear
\* on a view it names.  A reset admits no turn before the views are cleared.
Begin(c, op, v, by) ==
    /\ call[c].pc = "idle"
    /\ shown.hist = hist
    /\ call' = [call EXCEPT ![c] =
                  [pc |-> IF op = "show" THEN "guard" ELSE "look", op |-> op,
                   view |-> v, by |-> by, hist |-> hist, thread |-> by]]
    /\ UNCHANGED <<hist, shown, guard, event, landed>>

Fail(c) ==
    /\ call[c].pc # "idle"
    /\ call' = [call EXCEPT ![c] = NoCall]
    /\ guard' = IF guard = c THEN "free" ELSE guard
    /\ UNCHANGED <<hist, shown, event, landed>>

\* ToolSuite::view: the view and the Thread it belongs to now.
Look(c) ==
    /\ call[c].pc = "look"
    /\ call[c].view \in DOMAIN shown.views
    /\ call' = [call EXCEPT ![c].pc = "resolve",
                            ![c].thread = shown.views[call[c].view].thread]
    /\ UNCHANGED <<hist, shown, guard, event, landed>>

\* resolve_thread: the storage lock is taken and released again.
Resolve(c) ==
    /\ call[c].pc = "resolve"
    /\ guard = "free"
    /\ Valid(c)
    /\ Reaches(call[c].by, call[c].thread)
    /\ call' = [call EXCEPT ![c].pc = "guard"]
    /\ UNCHANGED <<hist, shown, guard, event, landed>>

\* mutation: the guard is a check that is not held.
GuardIgnored == TRUE
GuardFree == guard = "free"
Guard(c) ==
    /\ call[c].pc = "guard"
    /\ GuardFree
    /\ Valid(c)
    /\ guard' = c
    /\ call' = [call EXCEPT ![c].pc = "write"]
    /\ UNCHANGED <<hist, shown, event, landed>>

Ends(c) ==
    /\ guard = c
    /\ guard' = "free"
    /\ call' = [call EXCEPT ![c] = NoCall]

\* ViewManager::show, once the template is resolved.
Show(c) ==
    LET v == call[c].view
        t == call[c].thread
    IN /\ call[c].pc = "write"
       /\ call[c].op = "show"
       /\ CurrentHistory(c)
       /\ v \in DOMAIN shown.views => SameThread(c, v)
       /\ shown' = [shown EXCEPT !.views =
                      [x \in DOMAIN @ \cup {v} |->
                         IF x = v THEN [thread |-> t, hist |-> call[c].hist] ELSE @[x]]]
       /\ Land("write", t, call[c].by, call[c].hist)
       /\ Ends(c)
       /\ UNCHANGED <<hist, event>>

\* ViewManager::update and ViewManager::clear
Update(c) ==
    LET v == call[c].view
    IN /\ call[c].pc = "write"
       /\ call[c].op = "update"
       /\ v \in DOMAIN shown.views
       /\ shown.views[v].hist = call[c].hist
       /\ SameThread(c, v)
       /\ CurrentHistory(c)
       /\ Land("write", shown.views[v].thread, call[c].by, call[c].hist)
       /\ Ends(c)
       /\ UNCHANGED <<hist, shown, event>>

Clear(c) ==
    LET v == call[c].view
    IN /\ call[c].pc = "write"
       /\ call[c].op = "clear"
       /\ CurrentHistory(c)
       /\ v \in DOMAIN shown.views
       /\ SameThread(c, v)
       /\ shown' = [shown EXCEPT !.views = Restrict(@, DOMAIN @ \ {v})]
       /\ Land("write", shown.views[v].thread, call[c].by, call[c].hist)
       /\ Ends(c)
       /\ UNCHANGED <<hist, event>>

-----------------------------------------------------------------------------
(* The Owner's view event                                                  *)

\* handle_view_event reads the view with the history it was shown in ...
BindEvent(v) ==
    /\ event = NoEvent
    /\ v \in DOMAIN shown.views
    /\ event' = [pc |-> "bound", view |-> v, hist |-> shown.views[v].hist,
                 thread |-> shown.views[v].thread]
    /\ UNCHANGED <<hist, shown, guard, call, landed>>

\* ... and submits the turn to that Thread of that history.
\* mutation: the turn goes to whatever history is current.
AnyBinding == TRUE
BoundHistory == event.hist = hist
SubmitEvent ==
    /\ event.pc = "bound"
    /\ guard = "free"
    /\ BoundHistory
    /\ Land("event", event.thread, event.thread, event.hist)
    /\ event' = NoEvent
    /\ UNCHANGED <<hist, shown, guard, call>>

EventFails ==
    /\ event.pc = "bound"
    /\ event' = NoEvent
    /\ UNCHANGED <<hist, shown, guard, call, landed>>

-----------------------------------------------------------------------------
(* Reset                                                                   *)

\* Storage::reset, under the storage lock.
ResetStorage ==
    /\ guard = "free"
    /\ hist < HistoryLimit
    /\ shown.hist = hist
    /\ hist' = hist + 1
    /\ UNCHANGED <<shown, guard, call, event, landed>>

\* reset_runtime_projections: the storage lock is taken once more to read the
\* new history, then ViewManager::clear_all replaces it and empties the views.
\* mutation: the views outlive the history.
ViewsKept(views) == views
Cleared(views) == [v \in {} |-> Top]
ClearAll ==
    /\ shown.hist < hist
    /\ guard = "free"
    /\ shown' = [hist |-> hist, views |-> Cleared(shown.views)]
    /\ UNCHANGED <<hist, guard, call, event, landed>>

-----------------------------------------------------------------------------
Init ==
    /\ hist = 1
    /\ shown = [hist |-> 1, views |-> [v \in {} |-> Top]]
    /\ guard = "free"
    /\ call = [c \in Call |-> NoCall]
    /\ event = NoEvent
    /\ landed = [what |-> "nothing", thread |-> Top, by |-> Top, at |-> 1, hist |-> 1]

Next ==
    \/ \E c \in Call :
         \/ \E op \in {"show", "update", "clear"}, v \in View, by \in Thread : Begin(c, op, v, by)
         \/ Fail(c)
         \/ Look(c)
         \/ Resolve(c)
         \/ Guard(c)
         \/ Show(c)
         \/ Update(c)
         \/ Clear(c)
    \/ \E v \in View : BindEvent(v)
    \/ SubmitEvent
    \/ EventFails
    \/ ResetStorage
    \/ ClearAll

Spec == Init /\ [][Next]_vars

-----------------------------------------------------------------------------
(* Properties                                                              *)

\* Type invariant.
TypeOK ==
    /\ hist \in 1..HistoryLimit
    /\ shown.hist \in 1..hist
    /\ DOMAIN shown.views \subseteq View
    /\ guard \in Call \cup {"free"}
    /\ \A c \in Call :
         /\ call[c].pc \in {"idle", "look", "resolve", "guard", "write"}
         /\ (call[c].pc = "write") = (guard = c)
    /\ event.pc \in {"none", "bound"}

\* A view on display belongs to the history the view manager is at, and every
\* write of a view and every view event took effect in the history it was made
\* for and on a Thread its caller reaches -- although the view may be cleared,
\* shown again by another Thread under the same id, or wiped by a reset between
\* the look-up, the authorisation and the write (views_update, views_clear,
\* handle_view_event).
ViewsStayAuthorised ==
    /\ \A v \in DOMAIN shown.views : shown.views[v].hist = shown.hist
    /\ landed.at = landed.hist
    /\ Reaches(landed.by, landed.thread)
=============================================================================
