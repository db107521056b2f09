----------------------------- MODULE ChatServer -----------------------------
(***************************************************************************)
(* The HTTP server of src/src/server.rs over one SessionManager: chat      *)
(* turns that take the active session's log out of the manager, hold it    *)
(* over the awaits of the router and of the dispatcher and give it back;   *)
(* the single slot for the cancellation sender; and the requests that read *)
(* and change the manager meanwhile.  A step is what a request does from   *)
(* one await or lock to the next.                                          *)
(*                                                                         *)
(* A client that waits for the answer of a turn before it does anything    *)
(* else is modelled by Overlaps = {}.  The web client does not wait.       *)
(***************************************************************************)
EXTENDS SessionManager

CONSTANTS
    NoTurn,     \* active_cancel = None
    Overlaps    \* what clients do besides: see the four kinds below

OverlapKind == {
    "switch",   \* create, open, delete or rewrite sessions during a turn
    "chat",     \* start a turn while another one runs
    "stop",     \* close the connection while the router is awaited
    "boot"}     \* chat after a start before the session's history was opened

ASSUME OverlapsAssumption == Overlaps \subseteq OverlapKind
ASSUME TurnAssumption == NoTurn \notin Turn

VARIABLES
    phase,      \* where the request or task of every turn is
    held,       \* the log a turn has taken out of the manager
    asked,      \* the session that was active when the turn took its log
    cancelTx,   \* ServerState.active_cancel: the turn whose sender is stored
    cancelled,  \* turns whose cancellation channel holds true
    opened      \* a client has opened the active session since the start

turnVars == <<phase, held, asked, cancelTx, cancelled>>
vars == <<mgrVars, turnVars, opened>>

InFlight == {t \in Turn : phase[t] \in {"routing", "running", "returning"}}
Quiet == InFlight = {}

TypeOK ==
    /\ MgrTypeOK
    /\ phase \in [Turn -> {"new", "routing", "running", "returning", "over"}]
    /\ held \in [Turn -> Seq(Turn)]
    /\ asked \in [Turn -> Session \cup {NoSession}]
    /\ cancelTx \in Turn \cup {NoTurn}
    /\ cancelled \subseteq Turn
    /\ opened \in BOOLEAN

Init ==
    /\ MgrInit
    /\ phase = [t \in Turn |-> "new"]
    /\ held = [t \in Turn |-> FreshLog]
    /\ asked = [t \in Turn |-> NoSession]
    /\ cancelTx = NoTurn /\ cancelled = {}
    /\ opened = FALSE

-----------------------------------------------------------------------------
(* A chat turn (handle_chat)                                               *)

\* The request takes the log and goes to the router.
Chat(t) ==
    /\ phase[t] = "new"
    /\ Quiet \/ "chat" \in Overlaps
    /\ opened \/ active \notin DOMAIN files \/ "boot" \in Overlaps
    /\ phase' = [phase EXCEPT ![t] = "routing"]
    /\ held' = [held EXCEPT ![t] = Taken]
    /\ asked' = [asked EXCEPT ![t] = active]
    /\ TakeActive
    /\ UNCHANGED <<cancelTx, cancelled, opened>>

\* The client closes the connection: the future of the request, and the log
\* it holds, are dropped.
Disconnect(t) ==
    /\ phase[t] = "routing" /\ "stop" \in Overlaps
    /\ phase' = [phase EXCEPT ![t] = "over"]
    /\ held' = [held EXCEPT ![t] = FreshLog]
    /\ UNCHANGED <<mgrVars, asked, cancelTx, cancelled, opened>>

\* Mutant of Dispatch: the sender is not stored.
BugDispatch(t) ==
    /\ phase[t] = "routing"
    /\ phase' = [phase EXCEPT ![t] = "running"]
    /\ UNCHANGED <<mgrVars, held, asked, cancelTx, cancelled, opened>>

\* The route is known: the sender is stored, over any other, and the task
\* that dispatches the turn is spawned. It outlives the connection.
Dispatch(t) ==
    /\ phase[t] = "routing"
    /\ phase' = [phase EXCEPT ![t] = "running"]
    /\ cancelTx' = t
    /\ UNCHANGED <<mgrVars, held, asked, cancelled, opened>>

\* Mutant of Finish: the sender of a turn that is over stays.
BugFinish(t) ==
    /\ phase[t] = "running"
    /\ phase' = [phase EXCEPT ![t] = "returning"]
    /\ held' = [held EXCEPT ![t] = Append(@, t)]
    /\ UNCHANGED <<mgrVars, asked, cancelTx, cancelled, opened>>

\* The turn has run, and the slot of the senders is emptied.
Finish(t) ==
    /\ phase[t] = "running"
    /\ phase' = [phase EXCEPT ![t] = "returning"]
    /\ held' = [held EXCEPT ![t] = Append(@, t)]
    /\ cancelTx' = NoTurn
    /\ UNCHANGED <<mgrVars, asked, cancelled, opened>>

Return(t) ==
    /\ phase[t] = "returning"
    /\ ReturnSession(held[t])
    /\ phase' = [phase EXCEPT ![t] = "over"]
    /\ held' = [held EXCEPT ![t] = FreshLog]
    /\ UNCHANGED <<asked, cancelTx, cancelled, opened>>

\* handle_cancel_turn
Cancel ==
    /\ cancelTx # NoTurn
    /\ cancelled' = cancelled \cup {cancelTx}
    /\ cancelTx' = NoTurn
    /\ UNCHANGED <<mgrVars, phase, held, asked, opened>>

-----------------------------------------------------------------------------
(* The other requests                                                      *)

MayManage == Quiet \/ "switch" \in Overlaps

\* POST /api/sessions/create and /new
CreateSession(s) ==
    /\ MayManage /\ Create(s)
    /\ opened' = TRUE
    /\ UNCHANGED turnVars

\* POST /api/sessions/switch and GET /api/sessions/history
OpenSession(s) ==
    /\ MayManage /\ Switch(s)
    /\ opened' = TRUE
    /\ UNCHANGED turnVars

\* POST /api/sessions/rename; the title is generated while the turn runs.
RenameSession(s) == Rename(s) /\ UNCHANGED <<turnVars, opened>>

\* POST /api/sessions/delete
DeleteSession(s) == MayManage /\ Delete(s) /\ UNCHANGED <<turnVars, opened>>

\* /clear, and /compact, which keeps the end of the log
ClearCommand ==
    /\ MayManage /\ RewriteActive(FreshLog)
    /\ UNCHANGED <<turnVars, opened>>

CompactCommand ==
    /\ MayManage /\ active \in DOMAIN cache
    /\ \E n \in 1 .. Len(cache[active]) :
          RewriteActive(SubSeq(cache[active], n, Len(cache[active])))
    /\ UNCHANGED <<turnVars, opened>>

\* The process dies, between two steps or in the middle of a deletion.
Crash ==
    /\ \/ Restart(files)
       \/ /\ DiskFaults
          /\ \E s \in DOMAIN sessions : Restart(Without(files, {s}))
    /\ phase' = [t \in Turn |-> IF t \in InFlight THEN "over" ELSE phase[t]]
    /\ held' = [t \in Turn |-> FreshLog]
    /\ cancelTx' = NoTurn
    /\ opened' = FALSE
    /\ UNCHANGED <<asked, cancelled>>

-----------------------------------------------------------------------------
TurnStep == \E t \in Turn : Dispatch(t) \/ Finish(t) \/ Return(t)

Next ==
    \/ TurnStep
    \/ \E t \in Turn : Chat(t) \/ Disconnect(t)
    \/ Cancel
    \/ \E s \in Session :
          CreateSession(s) \/ OpenSession(s) \/ RenameSession(s) \/ DeleteSession(s)
    \/ ClearCommand \/ CompactCommand
    \/ Crash

Spec == Init /\ [][Next]_vars

\* The runtime polls every task. That a dispatched turn ends is AgentLoop's.
Fairness == \A t \in Turn : WF_vars(Dispatch(t) \/ Finish(t) \/ Return(t))

FairSpec == Spec /\ Fairness
=============================================================================
