---------------------------- MODULE SshPoolProps ----------------------------
(* What the pool promises the calls of ssh_exec and the devices.           *)
EXTENDS SshPool

HeldOnce ==
    \A c, b \in Call : HeldBy(c) # NoConn /\ HeldBy(c) = HeldBy(b) => c = b
PooledOnce ==
    \A t, u \in Turn, d, e \in Device :
       pool[t][d] # NoConn /\ pool[t][d] = pool[u][e] => t = u /\ d = e
Apart ==
    \A c \in Call, t \in Turn, d \in Device :
       pool[t][d] # NoConn => HeldBy(c) # pool[t][d]
HasPlace(x) ==
    \/ \E c \in Call : HeldBy(c) = x
    \/ \E t \in Turn, d \in Device : pool[t][d] = x

\* A handle has one place: no two commands use one connection, a connection
\* in use is not in the pool, and one is open or lost only as long as it has
\* a place.
OneOwner ==
    /\ HeldOnce /\ PooledOnce /\ Apart
    /\ \A x \in Conn : conn[x] # "none" <=> HasPlace(x)

Keeps ==
    \A t \in Turn, d \in Device :
       LET x == pool[t][d]
       IN  x # NoConn /\ conn[x] = "open" /\ pool'[t][d] # x =>
              \/ conn'[x] = "open" /\ \E c \in CallsOf(t) :
                    call[c].device = d /\ call'[c] # Idle /\ call'[c].conn = x
              \/ pool'[t][d] # NoConn /\ conn'[pool'[t][d]] = "open"
              \/ turn'[t] = "none"

\* README: "connections stay open between calls". One that a command has
\* left in the pool is there until the device hangs up, unless a command to
\* the same device takes it, a thread that is late puts another one in its
\* place, or the last holder of the tools is gone: no other call, timed out
\* or not, costs the next command its connection.
StaysOpen == [][Keeps]_vars

\* What a turn leaves open is closed: the pool of a turn that is over is
\* dropped in the end, whatever timed out, unless a thread of it waits for a
\* device for ever, which nothing in ssh.rs puts an end to.
Waits(t) == \E c \in CallsOf(t) : call[c].state \in {"connect", "open"}
Released ==
    \A t \in Turn : []<>(turn[t] \notin {"agent", "over"}) \/ <>[]Waits(t)
=============================================================================
