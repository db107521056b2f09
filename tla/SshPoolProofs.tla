---------------------------- MODULE SshPoolProofs ----------------------------
(***************************************************************************)
(* For any number of turns, calls, devices and connections: a handle has   *)
(* one place, and a connection in the pool stays open for the next call.   *)
(***************************************************************************)
EXTENDS SshPoolProps, TLAPS

\* A thread has a connection from the time it is made until it is put back.
Stage ==
    \A c \in Call :
       call[c] # Idle => (call[c].conn = NoConn <=> call[c].state \in {"take", "connect"})

IInv == TypeOK /\ OneOwner /\ Stage

Pools == [Turn -> [Device -> Conn \cup {NoConn}]]

\* OneOwner for pools p, threads cs and the handles X that exist
PlacedOnce(p, cs, X) ==
    LET Has(c) == IF cs[c] = Idle THEN NoConn ELSE cs[c].conn
    IN  /\ \A c, b \in Call : Has(c) # NoConn /\ Has(c) = Has(b) => c = b
        /\ \A t, u \in Turn, d, e \in Device :
              p[t][d] # NoConn /\ p[t][d] = p[u][e] => t = u /\ d = e
        /\ \A c \in Call, t \in Turn, d \in Device :
              p[t][d] # NoConn => Has(c) # p[t][d]
        /\ \A x \in Conn : x \in X <=> \/ \E c \in Call : Has(c) = x
                                       \/ \E t \in Turn, d \in Device : p[t][d] = x

There == {x \in Conn : conn[x] # "none"}

LEMMA Placed == OneOwner <=> PlacedOnce(pool, call, There)
BY DEF OneOwner, PlacedOnce, HeldOnce, PooledOnce, Apart, HasPlace, HeldBy, There

LEMMA PlacedNext == OneOwner' <=> PlacedOnce(pool', call', There')
BY DEF OneOwner, PlacedOnce, HeldOnce, PooledOnce, Apart, HasPlace, HeldBy, There

-----------------------------------------------------------------------------
\* Giving up the tools of a turn drops its pool with what is in it.
LEMMA ReleaseKeeps ==
    ASSUME TypeOK, NEW t \in Turn, NEW to \in {"runs", "agent", "over", "none"},
           NEW p \in Pools, NEW X, Release(t, to, p, X),
           PlacedOnce(p, call', There \ X)
    PROVE  /\ turn' \in [Turn -> {"none", "runs", "agent", "over"}]
           /\ pool' \in Pools
           /\ conn' \in [Conn -> {"none", "open", "lost"}]
           /\ OneOwner'
<1>1. /\ turn' \in [Turn -> {"none", "runs", "agent", "over"}]
      /\ pool' \in Pools
      /\ conn' \in [Conn -> {"none", "open", "lost"}]
  BY DEF Release, TypeOK, Pools, NoPool, Dropped
<1>2. CASE to = "none"
  <2> DEFINE Gone == X \cup {p[t][d] : d \in Device}
  <2>1. /\ pool' = [p EXCEPT ![t] = NoPool]
        /\ There' = There \ Gone
    BY <1>2 DEF Release, Dropped, There, TypeOK
  <2>2. \A u \in Turn, d \in Device :
           pool'[u][d] = IF u = t THEN NoConn ELSE p[u][d]
    BY <2>1 DEF Pools, NoPool
  <2>3. \A x \in Conn : x \in There' <=> x \in There \ X /\ ~\E d \in Device : p[t][d] = x
    BY <2>1
  <2>4. NoConn \notin Conn
    BY SshAssumption
  <2>5. PlacedOnce(pool', call', There')
    BY <2>2, <2>3, <2>4 DEF PlacedOnce
  <2> QED BY <1>1, <2>5, PlacedNext
<1>3. CASE to # "none"
  <2>1. pool' = p
    BY <1>3 DEF Release, Pools
  <2>2. There' = There \ X
    BY <1>3 DEF Release, Dropped, There, TypeOK
  <2> QED BY <1>1, <2>1, <2>2, PlacedNext
<1> QED BY <1>2, <1>3

LEMMA HolderType ==
    ASSUME NEW t, NEW threads, NEW agent
    PROVE  Holder(t, threads, agent) \in {"runs", "agent", "over", "none"}
BY DEF Holder

\* The end of thread c
LEMMA EndKeeps ==
    ASSUME IInv, NEW c \in Call, call[c] # Idle, NEW p \in Pools, NEW X,
           End(c, p, X), PlacedOnce(p, call', There \ X)
    PROVE  IInv'
<1> DEFINE t == call[c].turn
           to == IF turn[t] = "over" THEN Holder(t, CallsOf(t) \ {c}, FALSE) ELSE turn[t]
<1>1. t \in Turn
  BY DEF IInv, TypeOK, Running
<1>2. to \in {"runs", "agent", "over", "none"}
  BY <1>1, HolderType DEF IInv, TypeOK
<1>3. Release(t, to, p, X)
  BY DEF End
<1>4. /\ call' = [call EXCEPT ![c] = Idle]
      /\ call' \in [Call -> Running \cup {Idle}]
  BY DEF End, IInv, TypeOK
<1>5. Stage'
  BY <1>4 DEF IInv, Stage, TypeOK
<1> HIDE DEF t, to
<1> QED BY <1>1, <1>2, <1>3, <1>4, <1>5, ReleaseKeeps DEF IInv, TypeOK, Pools

-----------------------------------------------------------------------------
LEMMA InitOK == Init => IInv
<1> SUFFICES ASSUME Init PROVE IInv
  OBVIOUS
<1>1. TypeOK /\ Stage
  BY DEF Init, TypeOK, Stage, NoPool
<1>2. OneOwner
  BY SshAssumption DEF Init, NoPool, OneOwner, HeldOnce, PooledOnce, Apart, HasPlace, HeldBy
<1> QED BY <1>1, <1>2 DEF IInv

LEMMA BeginCallOK ==
    ASSUME IInv, NEW c \in Call, NEW t \in Turn, NEW d \in Device, BeginCall(c, t, d)
    PROVE  IInv'
<1> DEFINE new == [state |-> "take", turn |-> t, device |-> d,
                   conn |-> NoConn, awaited |-> TRUE]
<1>1. new \in Running /\ new # Idle /\ new.conn = NoConn /\ new.state = "take"
  BY DEF Running, States, Idle
<1>2. call[c] = Idle /\ call' = [call EXCEPT ![c] = new] /\ UNCHANGED <<turn, pool, conn>>
  BY DEF BeginCall
<1> HIDE DEF new
<1>3. TypeOK' /\ Stage'
  BY <1>1, <1>2 DEF IInv, TypeOK, Stage
<1>4. \A b \in Call : HeldBy(b)' = HeldBy(b)
  BY <1>1, <1>2 DEF IInv, TypeOK, HeldBy
<1>5. OneOwner'
  BY <1>2, <1>4 DEF IInv, OneOwner, HeldOnce, PooledOnce, Apart, HasPlace
<1> QED BY <1>3, <1>5 DEF IInv

\* A thread that goes on with the handle it has
LEMMA SameHandle ==
    ASSUME IInv, NEW c \in Call, call[c] # Idle, NEW s \in States, NEW a \in BOOLEAN,
           call' = [call EXCEPT ![c] = [call[c] EXCEPT !.state = s, !.awaited = a]],
           s \in {"take", "connect"} <=> call[c].state \in {"take", "connect"},
           UNCHANGED <<turn, pool, conn>>
    PROVE  IInv'
<1> DEFINE new == [call[c] EXCEPT !.state = s, !.awaited = a]
<1>1. new \in Running /\ new # Idle /\ new.conn = call[c].conn /\ new.state = s
  BY DEF IInv, TypeOK, Running, Idle
<1> HIDE DEF new
<1>2. TypeOK' /\ Stage'
  BY <1>1 DEF IInv, TypeOK, Stage, new
<1>3. \A b \in Call : HeldBy(b)' = HeldBy(b)
  BY <1>1 DEF IInv, TypeOK, HeldBy, new
<1>4. OneOwner'
  BY <1>3 DEF IInv, OneOwner, HeldOnce, PooledOnce, Apart, HasPlace
<1> QED BY <1>2, <1>4 DEF IInv

LEMMA StateOnly ==
    ASSUME IInv, NEW c \in Call, NEW s \in States, call[c] # Idle,
           call' = [call EXCEPT ![c].state = s],
           s \in {"take", "connect"} <=> call[c].state \in {"take", "connect"},
           UNCHANGED <<turn, pool, conn>>
    PROVE  IInv'
<1> DEFINE a == call[c].awaited
<1>1. call[c] \in Running
  BY DEF IInv, TypeOK
<1>2. a \in BOOLEAN
  BY <1>1 DEF Running
<1>3. [call[c] EXCEPT !.state = s] = [call[c] EXCEPT !.state = s, !.awaited = a]
  BY <1>1 DEF Running
<1> HIDE DEF a
<1>4. call' = [call EXCEPT ![c] = [call[c] EXCEPT !.state = s, !.awaited = a]]
  BY <1>3
<1> QED BY <1>2, <1>4, SameHandle

LEMMA TimesOutOK ==
    ASSUME IInv, NEW c \in Call, TimesOut(c)
    PROVE  IInv'
<1> DEFINE s == call[c].state
<1>1. call[c] \in Running /\ call[c] # Idle
  BY DEF IInv, TypeOK, TimesOut
<1>2. s \in States
  BY <1>1 DEF Running
<1>3. [call[c] EXCEPT !.awaited = FALSE] = [call[c] EXCEPT !.state = s, !.awaited = FALSE]
  BY <1>1 DEF Running
<1>4. call' = [call EXCEPT ![c] = [call[c] EXCEPT !.state = s, !.awaited = FALSE]]
  BY <1>3 DEF TimesOut
<1>5. s \in {"take", "connect"} <=> call[c].state \in {"take", "connect"}
  OBVIOUS
<1>6. UNCHANGED <<turn, pool, conn>>
  BY DEF TimesOut
<1> HIDE DEF s
<1> QED BY <1>1, <1>2, <1>4, <1>5, <1>6, SameHandle

\* Opened, OpenFails and ReadEnds
LEMMA CommandOK ==
    ASSUME IInv, NEW c \in Call, Opened(c) \/ OpenFails(c) \/ ReadEnds(c)
    PROVE  IInv'
<1>1. call[c] # Idle /\ call[c].state \in {"open", "read"} /\ UNCHANGED <<turn, pool, conn>>
  BY DEF Opened, OpenFails, ReadEnds, At
<1>2. PICK s \in {"read", "back"} : call' = [call EXCEPT ![c].state = s]
  BY DEF Opened, OpenFails, ReadEnds
<1> QED BY <1>1, <1>2, StateOnly DEF States

LEMMA TakeOK ==
    ASSUME IInv, NEW c \in Call, Take(c)
    PROVE  IInv'
<1> DEFINE x == SlotOf(c)
           usable == x # NoConn /\ conn[x] = "open"
           new == [call[c] EXCEPT !.state = IF usable THEN "open" ELSE "connect",
                                  !.conn = IF usable THEN x ELSE NoConn]
           u == call[c].turn
           e == call[c].device
<1>1. call[c] \in Running /\ call[c] # Idle /\ call[c].state = "take"
  BY DEF IInv, TypeOK, Take, At
<1>2. u \in Turn /\ e \in Device /\ x = pool[u][e] /\ x \in Conn \cup {NoConn}
  BY <1>1 DEF IInv, TypeOK, Running, SlotOf
<1>3. /\ call' = [call EXCEPT ![c] = new]
      /\ pool' = [pool EXCEPT ![u][e] = NoConn]
      /\ conn' = Dropped(IF usable THEN {} ELSE {x})
      /\ turn' = turn
  BY DEF Take
<1>4. /\ new \in Running /\ new # Idle
      /\ new.conn = IF usable THEN x ELSE NoConn
      /\ new.state = IF usable THEN "open" ELSE "connect"
  BY <1>1, <1>2 DEF Running, States, Idle
<1>5. HeldBy(c) = NoConn
  BY <1>1 DEF IInv, Stage, HeldBy
<1> HIDE DEF new, u, e, x
<1>6. TypeOK' /\ Stage'
  BY <1>2, <1>3, <1>4 DEF IInv, TypeOK, Stage, Dropped
<1>7. \A b \in Call : HeldBy(b)' = IF b = c THEN (IF usable THEN x ELSE NoConn) ELSE HeldBy(b)
  BY <1>3, <1>4 DEF IInv, TypeOK, HeldBy
<1>8. \A t \in Turn, d \in Device :
         pool'[t][d] = IF t = u /\ d = e THEN NoConn ELSE pool[t][d]
  BY <1>2, <1>3 DEF IInv, TypeOK
<1>9. \A y \in Conn : conn'[y] = IF ~usable /\ y = x THEN "none" ELSE conn[y]
  BY <1>3 DEF Dropped
<1>10. HeldOnce' /\ PooledOnce' /\ Apart'
  BY <1>2, <1>5, <1>7, <1>8 DEF IInv, OneOwner, HeldOnce, PooledOnce, Apart
<1>11. ASSUME NEW y \in Conn
       PROVE  conn'[y] # "none" <=> HasPlace(y)'
  <2>1. conn[y] # "none" <=> HasPlace(y)
    BY DEF IInv, OneOwner
  <2>2. CASE y = x
    <3>1. HasPlace(y) /\ ~\E b \in Call : HeldBy(b) = y
      BY <1>2, <2>2, SshAssumption DEF IInv, OneOwner, Apart, HasPlace
    <3>2. ~\E t \in Turn, d \in Device : pool'[t][d] = y
      BY <1>2, <1>8, <2>2, SshAssumption DEF IInv, OneOwner, PooledOnce
    <3>3. HasPlace(y)' <=> usable
      BY <1>7, <2>2, <3>1, <3>2, SshAssumption DEF HasPlace
    <3>4. conn'[y] # "none" <=> usable
      BY <1>9, <2>2, SshAssumption
    <3> QED BY <3>3, <3>4
  <2>3. CASE y # x
    <3>1. HasPlace(y)' <=> HasPlace(y)
      BY <1>2, <1>5, <1>7, <1>8, <2>3, SshAssumption DEF HasPlace
    <3> QED BY <1>9, <2>1, <2>3, <3>1
  <2> QED BY <2>2, <2>3
<1> QED BY <1>6, <1>10, <1>11 DEF IInv, OneOwner

LEMMA ConnectedOK ==
    ASSUME IInv, NEW c \in Call, Connected(c)
    PROVE  IInv'
<1>0. PICK x \in Conn, s \in Survives :
         /\ conn[x] = "none"
         /\ conn' = [conn EXCEPT ![x] = IF s THEN "open" ELSE "lost"]
         /\ call' = [call EXCEPT ![c].state = "open", ![c].conn = x]
         /\ UNCHANGED <<turn, pool>>
  BY DEF Connected
<1>1. PICK v \in {"open", "lost"} :
         /\ conn[x] = "none"
         /\ conn' = [conn EXCEPT ![x] = v]
         /\ call' = [call EXCEPT ![c].state = "open", ![c].conn = x]
         /\ UNCHANGED <<turn, pool>>
  BY <1>0
<1> DEFINE new == [call[c] EXCEPT !.state = "open", !.conn = x]
<1>2. call[c] \in Running /\ call[c] # Idle /\ call[c].state = "connect"
  BY DEF IInv, TypeOK, Connected, At
<1>3. new \in Running /\ new # Idle /\ new.conn = x /\ new.state = "open"
  BY <1>2 DEF Running, States, Idle
<1>4. call' = [call EXCEPT ![c] = new]
  BY <1>1
<1>5. HeldBy(c) = NoConn
  BY <1>2 DEF IInv, Stage, HeldBy
<1>6. ~HasPlace(x)
  BY <1>1 DEF IInv, OneOwner
<1> HIDE DEF new
<1>7. TypeOK' /\ Stage'
  <2>1. TypeOK'
    BY <1>1, <1>3, <1>4 DEF IInv, TypeOK
  <2>2. x # NoConn
    BY SshAssumption
  <2>3. Stage'
    BY <1>3, <1>4, <2>2 DEF IInv, TypeOK, Stage
  <2> QED BY <2>1, <2>3
<1>8. \A b \in Call : HeldBy(b)' = IF b = c THEN x ELSE HeldBy(b)
  BY <1>3, <1>4 DEF IInv, TypeOK, HeldBy
<1>9. HeldOnce' /\ PooledOnce' /\ Apart'
  BY <1>1, <1>6, <1>8 DEF IInv, OneOwner, HeldOnce, PooledOnce, Apart, HasPlace
<1>10. ASSUME NEW y \in Conn
       PROVE  conn'[y] # "none" <=> HasPlace(y)'
  <2>1. conn[y] # "none" <=> HasPlace(y)
    BY DEF IInv, OneOwner
  <2>2. (\E b \in Call : HeldBy(b)' = y) <=> y = x \/ \E b \in Call : HeldBy(b) = y
    <3>1. CASE y = x
      BY <1>8, <3>1
    <3>2. CASE y # x
      <4>1. \A b \in Call : HeldBy(b)' = y <=> HeldBy(b) = y
        BY <1>5, <1>8, <3>2, SshAssumption
      <4> QED BY <3>2, <4>1
    <3> QED BY <3>1, <3>2
  <2>3. HasPlace(y)' <=> y = x \/ HasPlace(y)
    BY <1>1, <2>2 DEF HasPlace
  <2>4. conn'[y] # "none" <=> y = x \/ conn[y] # "none"
    BY <1>1 DEF IInv, TypeOK
  <2> QED BY <2>1, <2>3, <2>4
<1> QED BY <1>7, <1>9, <1>10 DEF IInv, OneOwner

LEMMA ConnectFailsOK ==
    ASSUME IInv, NEW c \in Call, ConnectFails(c)
    PROVE  IInv'
<1>1. call[c] # Idle /\ End(c, pool, {}) /\ pool \in Pools
  BY DEF ConnectFails, At, IInv, TypeOK, Pools
<1>2. HeldBy(c) = NoConn
  BY DEF ConnectFails, At, IInv, Stage, HeldBy
<1>3. call' = [call EXCEPT ![c] = Idle]
  BY <1>1 DEF End
<1>4. PlacedOnce(pool, call, There)
  BY Placed DEF IInv
<1> DEFINE H(b) == IF call[b] = Idle THEN NoConn ELSE call[b].conn
           G(b) == IF call'[b] = Idle THEN NoConn ELSE call'[b].conn
<1>5. \A b \in Call : G(b) = H(b)
  BY <1>2, <1>3 DEF HeldBy, IInv, TypeOK
<1>6. PlacedOnce(pool, call', There \ {})
  BY <1>4, <1>5 DEF PlacedOnce
<1> QED BY <1>1, <1>6, EndKeeps

LEMMA PutBackOK ==
    ASSUME IInv, NEW c \in Call, PutBack(c)
    PROVE  IInv'
<1> DEFINE x == HeldBy(c)
           u == call[c].turn
           e == call[c].device
           old == SlotOf(c)
           p == [pool EXCEPT ![u][e] = x]
           H(b) == IF call[b] = Idle THEN NoConn ELSE call[b].conn
           G(b) == IF call'[b] = Idle THEN NoConn ELSE call'[b].conn
<1>1. call[c] \in Running /\ call[c] # Idle /\ x = call[c].conn /\ x \in Conn
  BY DEF IInv, TypeOK, PutBack, At, Stage, HeldBy, Running
<1>2. u \in Turn /\ e \in Device /\ old = pool[u][e] /\ pool \in Pools
  BY <1>1 DEF IInv, TypeOK, Running, SlotOf, Pools
<1>3. call' = [call EXCEPT ![c] = Idle]
  BY DEF PutBack, End
<1>4. \A b \in Call : G(b) = IF b = c THEN NoConn ELSE H(b)
  BY <1>3 DEF IInv, TypeOK
<1>5. H(c) = x
  BY <1>1
<1>6. PlacedOnce(pool, call, There)
  BY Placed DEF IInv
<1>7. /\ \A b \in Call : b # c => H(b) # x
      /\ \A t \in Turn, d \in Device : pool[t][d] # x
  BY <1>1, <1>5, <1>6, SshAssumption DEF PlacedOnce
<1>8. CASE conn[x] = "open"
  <2>1. End(c, p, {old})
    BY <1>8 DEF PutBack
  <2>2. p \in Pools
    BY <1>1, <1>2 DEF Pools
  <2>3. \A t \in Turn, d \in Device :
           p[t][d] = IF t = u /\ d = e THEN x ELSE pool[t][d]
    BY <1>1, <1>2 DEF Pools
  <2> HIDE DEF p, x, u, e, old
  <2>4. /\ \A a, b \in Call : G(a) # NoConn /\ G(a) = G(b) => a = b
        /\ \A t, s \in Turn, d, f \in Device :
              p[t][d] # NoConn /\ p[t][d] = p[s][f] => t = s /\ d = f
        /\ \A b \in Call, t \in Turn, d \in Device :
              p[t][d] # NoConn => G(b) # p[t][d]
    BY <1>4, <1>6, <1>7, <2>3 DEF PlacedOnce
  <2>5. ASSUME NEW y \in Conn
        PROVE  y \in There \ {old} <=>
                  \/ \E b \in Call : G(b) = y
                  \/ \E t \in Turn, d \in Device : p[t][d] = y
    <3>1. y \in There <=> \/ \E b \in Call : H(b) = y
                          \/ \E t \in Turn, d \in Device : pool[t][d] = y
      BY <1>6 DEF PlacedOnce
    <3>2. CASE y = x
      BY <1>2, <1>5, <1>7, <2>3, <3>1, <3>2
    <3>3. CASE y # x
      <4>1. (\E b \in Call : G(b) = y) <=> (\E b \in Call : H(b) = y)
        BY <1>4, <1>5, <3>3, SshAssumption
      <4>2. (\E t \in Turn, d \in Device : p[t][d] = y)
             <=> y # old /\ (\E t \in Turn, d \in Device : pool[t][d] = y)
        BY <1>2, <1>6, <2>3, <3>3, SshAssumption DEF PlacedOnce
      <4>3. y = old => ~\E b \in Call : H(b) = y
        BY <1>2, <1>6, SshAssumption DEF PlacedOnce
      <4> QED BY <3>1, <4>1, <4>2, <4>3
    <3> QED BY <3>2, <3>3
  <2>6. PlacedOnce(p, call', There \ {old})
    BY <2>4, <2>5 DEF PlacedOnce
  <2> QED BY <1>1, <2>1, <2>2, <2>6, EndKeeps
<1>9. CASE conn[x] # "open"
  <2>1. End(c, pool, {x})
    BY <1>9 DEF PutBack
  <2> HIDE DEF x
  <2>2. PlacedOnce(pool, call', There \ {x})
    BY <1>1, <1>4, <1>5, <1>6, <1>7, SshAssumption DEF PlacedOnce
  <2> QED BY <1>1, <1>2, <2>1, <2>2, EndKeeps
<1> QED BY <1>8, <1>9

LEMMA LostOK ==
    ASSUME IInv, NEW x \in Conn, Lost(x)
    PROVE  IInv'
<1>1. TypeOK' /\ Stage'
  BY DEF IInv, TypeOK, Stage, Lost
<1>2. \A y \in Conn : conn'[y] # "none" <=> conn[y] # "none"
  BY DEF Lost, IInv, TypeOK
<1>3. OneOwner'
  BY <1>2 DEF Lost, IInv, OneOwner, HeldOnce, PooledOnce, Apart, HasPlace, HeldBy
<1> QED BY <1>1, <1>3 DEF IInv

LEMMA TurnOK ==
    ASSUME IInv, NEW t \in Turn, BeginTurn(t) \/ EndTurn(t) \/ EndAgent(t)
    PROVE  IInv'
<1>1. CASE BeginTurn(t)
  <2>1. TypeOK' /\ Stage'
    BY <1>1 DEF IInv, TypeOK, Stage, BeginTurn
  <2>2. OneOwner'
    BY <1>1 DEF BeginTurn, IInv, OneOwner, HeldOnce, PooledOnce, Apart, HasPlace, HeldBy
  <2> QED BY <2>1, <2>2 DEF IInv
<1>2. CASE EndTurn(t) \/ EndAgent(t)
  <2>1. PICK agent \in BOOLEAN : Release(t, Holder(t, CallsOf(t), agent), pool, {})
    BY <1>2 DEF EndTurn, EndAgent
  <2>2. call' = call
    BY <1>2 DEF EndTurn, EndAgent
  <2>3. PlacedOnce(pool, call', There \ {})
    BY <2>2, Placed DEF IInv, PlacedOnce
  <2>4. pool \in Pools
    BY DEF IInv, TypeOK, Pools
  <2>5. /\ turn' \in [Turn -> {"none", "runs", "agent", "over"}]
        /\ pool' \in Pools
        /\ conn' \in [Conn -> {"none", "open", "lost"}]
        /\ OneOwner'
    BY <2>1, <2>3, <2>4, HolderType, ReleaseKeeps DEF IInv
  <2> QED BY <2>2, <2>5 DEF IInv, TypeOK, Stage, Pools
<1> QED BY <1>1, <1>2

LEMMA NextOK == IInv /\ [Next]_vars => IInv'
<1> SUFFICES ASSUME IInv, [Next]_vars PROVE IInv'
  OBVIOUS
<1>1. ASSUME NEW t \in Turn, BeginTurn(t) \/ EndTurn(t) \/ EndAgent(t) PROVE IInv'
  BY <1>1, TurnOK
<1>2. ASSUME NEW c \in Call, NEW t \in Turn, NEW d \in Device, BeginCall(c, t, d)
      PROVE  IInv'
  BY <1>2, BeginCallOK
<1>3. ASSUME NEW c \in Call, Proceeds(c) PROVE IInv'
  BY <1>3, TimesOutOK, TakeOK, CommandOK, PutBackOK DEF Proceeds
<1>4. ASSUME NEW c \in Call, Answered(c) PROVE IInv'
  BY <1>4, ConnectedOK, ConnectFailsOK, CommandOK DEF Answered
<1>5. ASSUME NEW x \in Conn, Lost(x) PROVE IInv'
  BY <1>5, LostOK
<1>6. CASE UNCHANGED vars
  BY <1>6 DEF vars, IInv, TypeOK, Stage, OneOwner, HeldOnce, PooledOnce, Apart,
              HasPlace, HeldBy
<1> QED BY <1>1, <1>2, <1>3, <1>4, <1>5, <1>6 DEF Next

LEMMA Inductive == Spec => []IInv
<1>1. Init => IInv
  BY InitOK
<1>2. IInv /\ [Next]_vars => IInv'
  BY NextOK
<1> QED BY <1>1, <1>2, PTL DEF Spec

\* Typing: what every variable may hold.
THEOREM TypeCorrect == Spec => []TypeOK
<1>1. IInv => TypeOK
  BY DEF IInv
<1> QED BY <1>1, Inductive, PTL

\* A connection has one place, for any number of threads: never two commands
\* on one connection, never one in the pool that is in use or dropped.
THEOREM AlwaysOwned == Spec => []OneOwner
<1>1. IInv => OneOwner
  BY DEF IInv
<1> QED BY <1>1, Inductive, PTL

-----------------------------------------------------------------------------
(* A connection in the pool stays open                                     *)

\* Nothing leaves a pool when its tools are given up, but all of it at once.
LEMMA ReleaseStep ==
    ASSUME TypeOK, NEW t \in Turn, NEW to, NEW p \in Pools, NEW X, Release(t, to, p, X),
           NEW u \in Turn, NEW d \in Device
    PROVE  pool'[u][d] = p[u][d] \/ turn'[u] = "none"
BY DEF Release, Pools, TypeOK

LEMMA PutBackStays ==
    ASSUME IInv, NEW c \in Call, PutBack(c)
    PROVE  Keeps
<1> DEFINE x == HeldBy(c)
           u == call[c].turn
           e == call[c].device
           old == SlotOf(c)
           p == [pool EXCEPT ![u][e] = x]
           to == IF turn[u] = "over" THEN Holder(u, CallsOf(u) \ {c}, FALSE) ELSE turn[u]
<1>1. call[c] \in Running /\ call[c] # Idle /\ x = call[c].conn /\ x \in Conn
  BY DEF IInv, TypeOK, PutBack, At, Stage, HeldBy, Running
<1>2. u \in Turn /\ e \in Device /\ old = pool[u][e] /\ pool \in Pools
  BY <1>1 DEF IInv, TypeOK, Running, SlotOf, Pools
<1>3. CASE conn[x] = "open"
  <2>1. Release(u, to, p, {old})
    BY <1>3 DEF PutBack, End
  <2>2. p \in Pools
    BY <1>1, <1>2 DEF Pools
  <2>3. \A t \in Turn, d \in Device :
           p[t][d] = IF t = u /\ d = e THEN x ELSE pool[t][d]
    BY <1>1, <1>2 DEF Pools
  <2>4. old # x
    BY <1>1, <1>2, SshAssumption DEF IInv, OneOwner, Apart
  <2>5. turn'[u] = "none" \/ conn'[x] = "open"
    <3>1. turn' = [turn EXCEPT ![u] = to]
      BY <2>1 DEF Release
    <3>2. CASE to = "none"
      BY <1>2, <3>1, <3>2 DEF IInv, TypeOK
    <3>3. CASE to # "none"
      <4>1. conn' = Dropped({old} \cup {})
        BY <2>1, <3>3 DEF Release
      <4> QED BY <1>1, <1>3, <2>4, <4>1 DEF Dropped
    <3> QED BY <3>2, <3>3
  <2>6. \A t \in Turn, d \in Device : pool'[t][d] = p[t][d] \/ turn'[t] = "none"
    BY <1>2, <2>1, <2>2, ReleaseStep DEF IInv
  <2> HIDE DEF x, u, e, old, p, to
  <2> QED BY <1>1, <1>2, <2>3, <2>5, <2>6, SshAssumption DEF Keeps
<1>4. CASE conn[x] # "open"
  <2>1. Release(u, to, pool, {x})
    BY <1>4 DEF PutBack, End
  <2>2. \A t \in Turn, d \in Device : pool'[t][d] = pool[t][d] \/ turn'[t] = "none"
    BY <1>2, <2>1, ReleaseStep DEF IInv
  <2> QED BY <2>2 DEF Keeps
<1> QED BY <1>3, <1>4

LEMMA TakeStays ==
    ASSUME IInv, NEW c \in Call, Take(c)
    PROVE  Keeps
<1> DEFINE x == SlotOf(c)
           u == call[c].turn
           e == call[c].device
<1>1. call[c] \in Running /\ call[c] # Idle
  BY DEF IInv, TypeOK, Take, At
<1>2. u \in Turn /\ e \in Device /\ x = pool[u][e] /\ x \in Conn \cup {NoConn}
  BY <1>1 DEF IInv, TypeOK, Running, SlotOf
<1>3. \A t \in Turn, d \in Device :
         pool'[t][d] = IF t = u /\ d = e THEN NoConn ELSE pool[t][d]
  BY <1>2 DEF Take, IInv, TypeOK
<1>4. c \in CallsOf(u) /\ call[c].device = e
  BY <1>1 DEF CallsOf
<1>5. ASSUME x # NoConn, conn[x] = "open"
      PROVE  conn'[x] = "open" /\ call'[c] # Idle /\ call'[c].conn = x
  <2>1. conn' = Dropped({})
    BY <1>5 DEF Take
  <2>2. call' = [call EXCEPT ![c].state = "open", ![c].conn = x]
    BY <1>5 DEF Take
  <2>3. [call[c] EXCEPT !.state = "open", !.conn = x] \in Running
    BY <1>1, <1>2 DEF Running, States
  <2>4. call'[c] \in Running /\ call'[c].conn = x
    BY <1>1, <2>2, <2>3 DEF IInv, TypeOK, Running
  <2>5. call'[c] # Idle
    BY <1>1, <2>2 DEF IInv, TypeOK, Running, Idle
  <2> QED BY <1>2, <1>5, <2>1, <2>4, <2>5 DEF Dropped
<1> HIDE DEF x, u, e
<1> QED BY <1>2, <1>3, <1>4, <1>5 DEF Keeps

LEMMA StepStays == IInv /\ [Next]_vars => Keeps
<1> SUFFICES ASSUME IInv, [Next]_vars PROVE Keeps
  OBVIOUS
<1>1. ASSUME UNCHANGED pool PROVE Keeps
  BY <1>1 DEF Keeps
<1>2. ASSUME NEW t \in Turn, EndTurn(t) \/ EndAgent(t) PROVE Keeps
  <2>1. PICK agent \in BOOLEAN : Release(t, Holder(t, CallsOf(t), agent), pool, {})
    BY <1>2 DEF EndTurn, EndAgent
  <2>2. \A u \in Turn, d \in Device : pool'[u][d] = pool[u][d] \/ turn'[u] = "none"
    BY <2>1, ReleaseStep DEF IInv, TypeOK, Pools
  <2> QED BY <2>2 DEF Keeps
<1>3. ASSUME NEW c \in Call, ConnectFails(c) PROVE Keeps
  <2>1. call[c].turn \in Turn /\ pool \in Pools
    BY <1>3 DEF ConnectFails, At, IInv, TypeOK, Running, Pools
  <2>2. PICK to : Release(call[c].turn, to, pool, {})
    BY <1>3 DEF ConnectFails, End
  <2>3. \A u \in Turn, d \in Device : pool'[u][d] = pool[u][d] \/ turn'[u] = "none"
    BY <2>1, <2>2, ReleaseStep DEF IInv
  <2> QED BY <2>3 DEF Keeps
<1>4. ASSUME NEW c \in Call, Proceeds(c) \/ Answered(c) PROVE Keeps
  BY <1>1, <1>3, <1>4, TakeStays, PutBackStays
  DEF Proceeds, Answered, TimesOut, ReadEnds, Connected, Opened, OpenFails
<1>5. ASSUME NEW t \in Turn, BeginTurn(t) PROVE Keeps
  BY <1>1, <1>5 DEF BeginTurn
<1>6. ASSUME NEW c \in Call, NEW t \in Turn, NEW d \in Device, BeginCall(c, t, d)
      PROVE  Keeps
  BY <1>1, <1>6 DEF BeginCall
<1>7. ASSUME NEW x \in Conn, Lost(x) PROVE Keeps
  BY <1>1, <1>7 DEF Lost
<1>8. CASE UNCHANGED vars
  BY <1>1, <1>8 DEF vars
<1> QED BY <1>2, <1>4, <1>5, <1>6, <1>7, <1>8 DEF Next

\* For any number of turns, threads and devices, a connection that a command
\* left in the pool is there for the next one.
THEOREM AlwaysOpen == Spec => StaysOpen
<1>1. IInv /\ [Next]_vars => [Keeps]_vars
  BY StepStays
<1> QED BY <1>1, Inductive, PTL DEF Spec, StaysOpen
=============================================================================
