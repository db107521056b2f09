------------------------------ MODULE SshPool ------------------------------
(***************************************************************************)
(* The persistent connections of the tool ssh_exec, src/src/tools/ssh.rs.  *)
(* Every chat turn registers its tools anew (server.rs:762), so that a     *)
(* pool belongs to one turn; it lives as long as the turn, a thread of a   *)
(* call or an agent the turn delegated to holds the tools.  Agents have    *)
(* ssh_exec among their tools, and a policy that denies it.                *)
(*                                                                         *)
(* A call runs on a thread, which goes on when the call times out after    *)
(* 60 s.  A connection is driven by a task of the library; what becomes of *)
(* it when the runtime it was made on is dropped is the constant Survives. *)
(***************************************************************************)
EXTENDS Naturals

CONSTANTS
    Turn,       \* chat turns, each with a pool of its own
    Call,       \* threads of calls of ssh_exec
    Device,     \* the keys host:port:user
    Conn,       \* connections at one time
    NoConn,
    Survives    \* may a connection outlive the runtime it was made on:
                \* {FALSE}, {TRUE}, or either

ASSUME SshAssumption == NoConn \notin Conn /\ Survives \subseteq BOOLEAN

VARIABLES
    turn,     \* who holds the tools of a turn, besides the threads of calls:
              \* the turn itself, an agent that goes on after it, or nobody
    pool,     \* SshSessionManager.connections of every turn
    conn,     \* "none" is not there, "lost" is_closed()
    call      \* what every thread is doing

vars == <<turn, pool, conn, call>>

Idle == [state |-> "idle"]
States == {"take", "connect", "open", "read", "back"}
Running == [state : States, turn : Turn, device : Device,
            conn : Conn \cup {NoConn}, awaited : BOOLEAN]

TypeOK ==
    /\ turn \in [Turn -> {"none", "runs", "agent", "over"}]
    /\ pool \in [Turn -> [Device -> Conn \cup {NoConn}]]
    /\ conn \in [Conn -> {"none", "open", "lost"}]
    /\ call \in [Call -> Running \cup {Idle}]

NoPool == [d \in Device |-> NoConn]

Init ==
    /\ turn = [t \in Turn |-> "none"]
    /\ pool = [t \in Turn |-> NoPool]
    /\ conn = [x \in Conn |-> "none"]
    /\ call = [c \in Call |-> Idle]

CallsOf(t) == {c \in Call : call[c] # Idle /\ call[c].turn = t}
At(c, state) == call[c] # Idle /\ call[c].state = state
HeldBy(c) == IF call[c] = Idle THEN NoConn ELSE call[c].conn
SlotOf(c) == pool[call[c].turn][call[c].device]

\* The handles in X are dropped, which closes their connections.
Dropped(X) == [x \in Conn |-> IF x \in X THEN "none" ELSE conn[x]]

-----------------------------------------------------------------------------
(* Turns and calls                                                         *)

\* register_builtins, when nothing of an earlier turn t is left
BeginTurn(t) ==
    /\ turn[t] = "none"
    /\ turn' = [turn EXCEPT ![t] = "runs"]
    /\ UNCHANGED <<pool, conn, call>>

\* execute on a thread of its own. The agent loop awaits a call before it
\* makes another. The target is named by the configuration or spelt out in
\* the call; a call without a command or a target is answered at once.
BeginCall(c, t, d) ==
    /\ turn[t] = "runs" /\ call[c] = Idle
    /\ \A b \in CallsOf(t) : ~call[b].awaited
    /\ call' = [call EXCEPT ![c] = [state |-> "take", turn |-> t, device |-> d,
                                    conn |-> NoConn, awaited |-> TRUE]]
    /\ UNCHANGED <<turn, pool, conn>>

\* execute_checked gives up on the thread.
TimesOut(c) ==
    /\ call[c] # Idle /\ call[c].awaited
    /\ call' = [call EXCEPT ![c].awaited = FALSE]
    /\ UNCHANGED <<turn, pool, conn>>

\* The last holder of the tools of t is gone, or the next one holds them.
Holder(t, threads, agent) ==
    IF agent THEN "agent" ELSE IF threads # {} THEN "over" ELSE "none"

\* The tools of t are held by `to` from now on, p are the pools and the
\* handles X are dropped. A pool that nobody holds is dropped as a whole.
Release(t, to, p, X) ==
    /\ turn' = [turn EXCEPT ![t] = to]
    /\ pool' = [p EXCEPT ![t] = IF to = "none" THEN NoPool ELSE p[t]]
    /\ conn' = Dropped(X \cup IF to = "none" THEN {p[t][d] : d \in Device} ELSE {})

\* The turn ends with no call awaited. An agent may outlive it.
EndTurn(t) ==
    /\ turn[t] = "runs"
    /\ \A c \in CallsOf(t) : ~call[c].awaited
    /\ \E agent \in BOOLEAN : Release(t, Holder(t, CallsOf(t), agent), pool, {})
    /\ UNCHANGED call

EndAgent(t) ==
    /\ turn[t] = "agent"
    /\ Release(t, Holder(t, CallsOf(t), FALSE), pool, {})
    /\ UNCHANGED call

\* Thread c ends, and its hold of the tools with it.
End(c, p, X) ==
    LET t == call[c].turn
    IN  /\ call' = [call EXCEPT ![c] = Idle]
        /\ Release(t, IF turn[t] = "over" THEN Holder(t, CallsOf(t) \ {c}, FALSE)
                      ELSE turn[t], p, X)

-----------------------------------------------------------------------------
(* execute_command                                                         *)

\* Mutant of Take: the handle stays in the pool while it is used.
BugTake(c) ==
    LET x == SlotOf(c)
        usable == x # NoConn /\ conn[x] = "open"
    IN  /\ At(c, "take")
        /\ call' = [call EXCEPT ![c].state = IF usable THEN "open" ELSE "connect",
                                ![c].conn = IF usable THEN x ELSE NoConn]
        /\ UNCHANGED <<turn, pool, conn>>

\* The handle is taken out of the pool. One that is closed is dropped.
\* Nobody else can tell the removal from the check.
Take(c) ==
    LET x == SlotOf(c)
        usable == x # NoConn /\ conn[x] = "open"
    IN  /\ At(c, "take")
        /\ call' = [call EXCEPT ![c].state = IF usable THEN "open" ELSE "connect",
                                ![c].conn = IF usable THEN x ELSE NoConn]
        /\ pool' = [pool EXCEPT ![call[c].turn][call[c].device] = NoConn]
        /\ conn' = Dropped(IF usable THEN {} ELSE {x})
        /\ UNCHANGED turn

\* The device is connected and the password accepted. The runtime that did
\* this is dropped before the command runs. There is no timeout.
Connected(c) ==
    /\ At(c, "connect")
    /\ \E x \in Conn, s \in Survives :
          /\ conn[x] = "none"
          /\ conn' = [conn EXCEPT ![x] = IF s THEN "open" ELSE "lost"]
          /\ call' = [call EXCEPT ![c].state = "open", ![c].conn = x]
    /\ UNCHANGED <<turn, pool>>

ConnectFails(c) ==
    /\ At(c, "connect")
    /\ End(c, pool, {})

\* A channel is opened and the command sent, on a second runtime. This has
\* no timeout either.
Opened(c) ==
    /\ At(c, "open") /\ conn[HeldBy(c)] = "open"
    /\ call' = [call EXCEPT ![c].state = "read"]
    /\ UNCHANGED <<turn, pool, conn>>

OpenFails(c) ==
    /\ At(c, "open")
    /\ call' = [call EXCEPT ![c].state = "back"]
    /\ UNCHANGED <<turn, pool, conn>>

\* Mutant of ReadEnds: there is no timeout, and a device that stays silent.
BugReadEnds(c) ==
    /\ At(c, "read") /\ conn[HeldBy(c)] = "lost"
    /\ call' = [call EXCEPT ![c].state = "back"]
    /\ UNCHANGED <<turn, pool, conn>>

\* The output ends, or 55 s are over, or the connection is lost, which the
\* code takes for the end of the output.
ReadEnds(c) ==
    /\ At(c, "read")
    /\ call' = [call EXCEPT ![c].state = "back"]
    /\ UNCHANGED <<turn, pool, conn>>

\* Mutant of PutBack: a thread that finds a handle in its place drops both.
BugPutBack(c) ==
    LET x == HeldBy(c)
    IN  /\ At(c, "back")
        /\ IF conn[x] = "open"
           THEN End(c, [pool EXCEPT ![call[c].turn][call[c].device] =
                                        IF SlotOf(c) = NoConn THEN x ELSE NoConn],
                    IF SlotOf(c) = NoConn THEN {} ELSE {x, SlotOf(c)})
           ELSE End(c, pool, {x})

\* A handle that is not closed goes back to the pool; the one that another
\* thread has put there meanwhile is dropped.
PutBack(c) ==
    LET x == HeldBy(c)
    IN  /\ At(c, "back")
        /\ IF conn[x] = "open"
           THEN End(c, [pool EXCEPT ![call[c].turn][call[c].device] = x], {SlotOf(c)})
           ELSE End(c, pool, {x})

\* The device hangs up, or the network fails.
Lost(x) ==
    /\ conn[x] = "open"
    /\ conn' = [conn EXCEPT ![x] = "lost"]
    /\ UNCHANGED <<turn, pool, call>>

-----------------------------------------------------------------------------
\* The steps of a thread that no device holds up
Proceeds(c) == TimesOut(c) \/ Take(c) \/ ReadEnds(c) \/ PutBack(c)
Answered(c) == Connected(c) \/ ConnectFails(c) \/ Opened(c) \/ OpenFails(c)

Next ==
    \/ \E t \in Turn : BeginTurn(t) \/ EndTurn(t) \/ EndAgent(t)
    \/ \E c \in Call, t \in Turn, d \in Device : BeginCall(c, t, d)
    \/ \E c \in Call : Proceeds(c) \/ Answered(c)
    \/ \E x \in Conn : Lost(x)

Spec == Init /\ [][Next]_vars

\* The runtime polls a thread that can go on, the timers of 55 and 60 s
\* fire, a turn whose calls are answered ends, and so does an agent. No
\* device need ever answer.
Fairness ==
    /\ \A c \in Call : WF_vars(Proceeds(c))
    /\ \A t \in Turn : WF_vars(EndAgent(t))

FairSpec == Spec /\ Fairness
=============================================================================
