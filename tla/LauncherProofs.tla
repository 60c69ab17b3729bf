---------------------------- MODULE LauncherProofs ----------------------------
(***************************************************************************)
(* Theorems about Launcher, for any number of shells and commands and any  *)
(* mount plans: where sockets, connections and processes are at any time.  *)
(***************************************************************************)
EXTENDS Launcher, ListProofs

(***************************************************************************)
(* The invariant                                                           *)
(***************************************************************************)
\* Only a command forks, and its parent is leaving then; and a child talks to a server at a
\* step of the plan that is a 9P mount.
Labels ==
  \A i \in Instance :
    /\ child[i] # "none" => i \in Command /\ parent[i] \in {"leaving", "gone"}
    /\ child[i] \in {"probing", "mount", "mounting"} => step[i] \in Steps(i) /\ Plan[i][step[i]].kind = "p9"

\* The parent has its listeners open exactly while it runs, the child only until it executes.
Owners ==
  \A p \in Port : listener[p] # Nobody =>
    /\ "parent" \in listener[p].held <=> parent[listener[p].owner] \notin {"off", "gone"}
    /\ "child" \in listener[p].held => Forked(listener[p].owner)

\* So it is with the connections that the child got a copy of, and no others are stuck.
Heirs ==
  /\ \A i \in Instance : inherited[i] # {} => Forked(i)
  /\ \A c \in Conn : conn[c] = "stuck" => \E i \in Instance : c \in inherited[i]

\* The connections that a child has opened so far: no connection is opened twice.
Dialled(c) ==
  LET i == c[1]
  IN  \/ child[i] \in {"mute", "running", "ended"}
      \/ child[i] \in {"next", "probing", "mount", "mounting"} /\ c[2] < step[i]
      \/ child[i] \in {"probing", "mount"} /\ c[2] = step[i] /\ c[3] = "probe"
      \/ child[i] = "mounting" /\ c[2] = step[i]

\* A child waits for one connection at a time, and does nothing else meanwhile.
Dials ==
  \A c \in Conn :
    /\ conn[c] # "none" => Dialled(c)
    /\ conn[c] = "queued" =>
         /\ c[2] = step[c[1]]
         /\ \/ child[c[1]] = "probing" /\ c[3] = "probe"
            \/ child[c[1]] = "mounting" /\ c[3] = "mount"

\* Connections wait where somebody listens, each in one place.
Lines ==
  /\ \A p \in Port : queue[p] # << >> => listener[p] # Nobody
  /\ \A p \in Port : \A n \in 1..Len(queue[p]) : conn[queue[p][n]] = "queued"
  /\ \A p, q \in Port : \A m \in 1..Len(queue[p]), n \in 1..Len(queue[q]) :
       queue[p][m] = queue[q][n] => p = q /\ m = n
  /\ \A c \in Conn : conn[c] = "queued" => \E p \in Port : \E n \in 1..Len(queue[p]) : queue[p][n] = c

\* They are served where the parent listens, each by one server.
Served ==
  /\ \A p \in Port : serving[p] # Nobody =>
       /\ listener[p] # Nobody /\ "parent" \in listener[p].held
       /\ conn[serving[p]] \in {"served", "closed"}
  /\ \A p, q \in Port : serving[p] = serving[q] /\ serving[p] # Nobody => p = q
  /\ \A c \in Conn : conn[c] = "served" => \E p \in Port : serving[p] = c

LaunchInv == TypeOK /\ Labels /\ Owners /\ Heirs /\ Dials /\ Lines /\ Served

(***************************************************************************)
(* What the definitions say of connections and listeners                   *)
(***************************************************************************)
LEMMA ConnParts ==
  ASSUME NEW c \in Conn
  PROVE  /\ c = <<c[1], c[2], c[3]>> /\ c[1] \in Command /\ c[1] \in Instance
         /\ c[2] \in Steps(c[1]) /\ c[2] \in Nat /\ c[3] \in {"probe", "mount"}
<1>1. PICK i \in Command : c \in {i} \X Steps(i) \X {"probe", "mount"}
  BY DEF Conn
<1> QED
  BY <1>1 DEF Steps, Instance

LEMMA ConnMade ==
  ASSUME NEW i \in Command, NEW n \in Steps(i), NEW use \in {"probe", "mount"}
  PROVE  <<i, n, use>> \in Conn
<1>1. <<i, n, use>> \in {i} \X Steps(i) \X {"probe", "mount"}
  OBVIOUS
<1> QED
  BY <1>1 DEF Conn

LEMMA ListenerMade ==
  /\ \A i \in Instance : \A held \in (SUBSET {"parent", "child"}) \ {{}} :
       [owner |-> i, held |-> held] \in Listener /\ [owner |-> i, held |-> held] # Nobody
  /\ \A l \in Listener : \A held \in (SUBSET {"parent", "child"}) \ {{}} :
       LET new == [l EXCEPT !.held = held]
       IN  new \in Listener /\ new # Nobody /\ new.owner = l.owner /\ new.held = held
  /\ \A l \in Listener : l # Nobody /\ l.owner \in Instance /\ l.held \in (SUBSET {"parent", "child"}) \ {{}}
BY LauncherAssumption DEF Listener

LEMMA ConnIsSomebody == Nobody \notin Conn
BY LauncherAssumption

\* Plans are lists.
LEMMA PlanSteps ==
  ASSUME NEW i \in Instance
  PROVE  Len(Plan[i]) \in Nat /\ \A n \in Steps(i) : n \in Nat \ {0} /\ n <= Len(Plan[i]) /\ Plan[i][n] \in PlanStep
<1>1. Plan[i] \in Seq(PlanStep)
  BY LauncherAssumption
<1> QED
  BY <1>1, LenProperties, ElementOfSeq DEF Steps

(***************************************************************************)
(* The servers                                                             *)
(***************************************************************************)
LEMMA StartKeeps ==
  ASSUME LaunchInv, NEW i \in Instance, NEW p \in Port, parent[i] \in {"off", "procfs"}, Bind(i, p),
         NEW new \in {"procfs", "up"}, parent' = [parent EXCEPT ![i] = new],
         UNCHANGED <<child, step, shown, removed, queue, serving, conn, inherited, locked>>
  PROVE  LaunchInv'
<1> USE DEF LaunchInv
<1> DEFINE mine == [owner |-> i, held |-> {"parent"}]
<1>1. mine \in Listener /\ mine # Nobody
  <2>1. {"parent"} \in (SUBSET {"parent", "child"}) \ {{}}
    OBVIOUS
  <2> QED
    BY <2>1, ListenerMade
<1>2. /\ listener' \in [Port -> Listener \cup {Nobody}]
      /\ \A q \in Port : listener'[q] = listener[q] \/ (listener[q] = Nobody /\ listener'[q] = mine)
  BY <1>1 DEF Bind, TypeOK
<1>3. TypeOK'
  BY <1>2 DEF TypeOK, ParentLabel
<1>4. Labels'
  BY DEF Labels, TypeOK, Forked
<1>5. Owners'
  <2> SUFFICES ASSUME NEW q \in Port, listener'[q] # Nobody
               PROVE  /\ "parent" \in listener'[q].held <=> parent'[listener'[q].owner] \notin {"off", "gone"}
                      /\ "child" \in listener'[q].held => Forked(listener[q].owner)'
    BY DEF Owners
  <2>1. CASE listener'[q] = listener[q]
    <3>1. listener[q] \in Listener /\ listener[q].owner \in Instance /\ listener[q].held \in (SUBSET {"parent", "child"}) \ {{}}
      BY <2>1, ListenerMade DEF TypeOK
    <3>2. ~Forked(i)
      BY DEF Labels, Forked
    <3>3. parent[i] = "off" => listener[q].owner # i
      <4>1. "child" \in listener[q].held \/ "parent" \in listener[q].held
        BY <3>1
      <4>2. listener[q] # Nobody
        BY <2>1
      <4>3. parent[listener[q].owner] = "off" => "parent" \notin listener[q].held
        BY <4>2 DEF Owners
      <4>4. listener[q].owner = i => "child" \notin listener[q].held
        BY <3>2, <4>2 DEF Owners
      <4> QED
        BY <4>1, <4>3, <4>4
    <3> QED
      BY <2>1, <3>1, <3>3 DEF Owners, TypeOK, Forked
  <2>2. CASE listener'[q] = mine
    BY <2>2 DEF TypeOK
  <2> QED
    BY <1>2, <2>1, <2>2
<1>6. Heirs' /\ Dials'
  BY DEF Heirs, Dials, Dialled, Forked
<1>7. Lines' /\ Served'
  BY <1>1, <1>2 DEF Lines, Served
<1> QED
  BY <1>3, <1>4, <1>5, <1>6, <1>7

LEMMA AcceptKeeps ==
  ASSUME LaunchInv, NEW p \in Port, Accept(p)
  PROVE  LaunchInv'
<1> USE DEF LaunchInv
<1> DEFINE c == Head(queue[p])
<1>1. /\ queue[p] \in Seq(Conn) /\ queue[p] # << >> /\ serving[p] = Nobody /\ listener[p] # Nobody
      /\ "parent" \in listener[p].held
      /\ UNCHANGED <<parent, child, step, shown, removed, listener, inherited, locked>>
  BY DEF Accept, TypeOK
<1>2. /\ c \in Conn /\ c = queue[p][1] /\ 1 \in 1..Len(queue[p]) /\ Len(queue[p]) \in Nat
      /\ Tail(queue[p]) \in Seq(Conn) /\ Len(Tail(queue[p])) = Len(queue[p]) - 1
      /\ \A n \in 1..(Len(queue[p]) - 1) : Tail(queue[p])[n] = queue[p][n + 1] /\ n + 1 \in 1..Len(queue[p])
  BY <1>1, HeadTailProperties, EmptySeq, LenProperties
<1>3. conn[c] = "queued"
  BY <1>2 DEF Lines, Served
<1> HIDE DEF c
<1>4. /\ conn' = [conn EXCEPT ![c] = "served"] /\ conn'[c] = "served"
      /\ \A d \in Conn \ {c} : conn'[d] = conn[d]
  BY <1>2 DEF Accept, TypeOK, c
<1>5. /\ serving' = [serving EXCEPT ![p] = c] /\ serving'[p] = c
      /\ \A q \in Port \ {p} : serving'[q] = serving[q]
  BY DEF Accept, TypeOK, c
<1>6. /\ queue' = [queue EXCEPT ![p] = Tail(queue[p])] /\ queue'[p] = Tail(queue[p])
      /\ \A q \in Port \ {p} : queue'[q] = queue[q]
  BY DEF Accept, TypeOK
<1>7. TypeOK'
  BY <1>1, <1>2, <1>4, <1>5, <1>6 DEF TypeOK
<1>8. Labels' /\ Owners'
  BY <1>1 DEF Labels, Owners, Forked
<1>9. Heirs'
  BY <1>1, <1>4 DEF Heirs, Forked
<1>10. Dials'
  BY <1>1, <1>3, <1>4 DEF Dials, Dialled
<1>11. Lines' /\ Served'
  <2>1. \A q \in Port : queue'[q] # << >> => listener'[q] # Nobody
    BY <1>1, <1>6 DEF Lines
  <2>2. \A q \in Port : serving[q] # c
    BY <1>2, <1>3, ConnIsSomebody DEF Lines, Served
  <2>3. \A q \in Port : serving'[q] # Nobody =>
          /\ listener'[q] # Nobody /\ "parent" \in listener'[q].held
          /\ conn'[serving'[q]] \in {"served", "closed"}
    BY <1>1, <1>4, <1>5, <2>2 DEF Lines, Served, TypeOK
  <2> DEFINE was(q, n) == IF q = p THEN n + 1 ELSE n
  <2>4. \A q \in Port : \A n \in 1..Len(queue'[q]) : queue'[q][n] = queue[q][was(q, n)] /\ was(q, n) \in 1..Len(queue[q])
    BY <1>2, <1>6
  <2>5. \A q \in Port : \A n \in 1..Len(queue'[q]) : queue'[q][n] \in Conn /\ queue'[q][n] # c
    <3> SUFFICES ASSUME NEW q \in Port, NEW n \in 1..Len(queue'[q]) PROVE queue'[q][n] \in Conn /\ queue'[q][n] # c
      OBVIOUS
    <3>1. queue'[q] \in Seq(Conn) /\ queue'[q][n] \in Conn
      BY <1>7, ElementOfSeq DEF TypeOK
    <3>2. n \in Nat /\ n > 0
      BY <3>1, LenProperties
    <3>3. CASE q = p
      <4>1. n + 1 # 1
        BY <3>2
      <4>2. queue'[q][n] = queue[p][n + 1] /\ n + 1 \in 1..Len(queue[p])
        BY <2>4, <3>3
      <4> QED
        BY <1>2, <3>1, <4>1, <4>2 DEF Lines
    <3>4. CASE q # p
      BY <1>2, <2>4, <3>1, <3>4 DEF Lines
    <3> QED
      BY <3>3, <3>4
  <2>6. \A q \in Port : \A n \in 1..Len(queue'[q]) : conn'[queue'[q][n]] = "queued"
    <3> SUFFICES ASSUME NEW q \in Port, NEW n \in 1..Len(queue'[q]) PROVE conn'[queue'[q][n]] = "queued"
      OBVIOUS
    <3> HIDE DEF was
    <3>1. PICK k \in 1..Len(queue[q]) : queue'[q][n] = queue[q][k]
      BY <2>4
    <3>2. conn[queue[q][k]] = "queued"
      BY DEF Lines
    <3> QED
      BY <1>4, <2>5, <3>1, <3>2
  <2>7. \A q, r \in Port : \A m \in 1..Len(queue'[q]), n \in 1..Len(queue'[r]) :
          queue'[q][m] = queue'[r][n] => q = r /\ m = n
    <3> SUFFICES ASSUME NEW q \in Port, NEW r \in Port, NEW m \in 1..Len(queue'[q]), NEW n \in 1..Len(queue'[r]),
                        queue'[q][m] = queue'[r][n]
                 PROVE  q = r /\ m = n
      OBVIOUS
    <3>0. queue[q][was(q, m)] = queue[r][was(r, n)] /\ was(q, m) \in 1..Len(queue[q]) /\ was(r, n) \in 1..Len(queue[r])
      BY <2>4
    <3>1. q = r /\ was(q, m) = was(r, n)
      <4> HIDE DEF was
      <4> QED
        BY <3>0 DEF Lines
    <3>2. m \in Int /\ n \in Int
      BY <1>7, LenProperties DEF TypeOK
    <3> QED
      BY <3>1, <3>2
  <2>8. \A q, r \in Port : serving'[q] = serving'[r] /\ serving'[q] # Nobody => q = r
    BY <1>5, <2>2 DEF Lines, Served
  <2>9. ASSUME NEW d \in Conn, conn'[d] = "queued"
        PROVE  \E q \in Port : \E n \in 1..Len(queue'[q]) : queue'[q][n] = d
    <3>1. d # c /\ conn[d] = "queued"
      BY <1>4, <2>9
    <3>2. PICK q \in Port : \E n \in 1..Len(queue[q]) : queue[q][n] = d
      BY <3>1 DEF Lines, Served
    <3>3. PICK n \in 1..Len(queue[q]) : queue[q][n] = d
      BY <3>2
    <3>4. CASE q = p
      <4>1. n # 1 /\ n \in 1..Len(queue[p])
        BY <1>2, <3>1, <3>3, <3>4
      <4>2. n - 1 \in 1..(Len(queue[p]) - 1) /\ (n - 1) + 1 = n
        BY <1>2, <4>1
      <4>3. Tail(queue[p])[n - 1] = d
        BY <1>2, <3>3, <3>4, <4>2
      <4> QED
        BY <1>2, <1>6, <4>2, <4>3
    <3>5. CASE q # p
      BY <1>6, <3>3, <3>5
    <3> QED
      BY <3>4, <3>5
  <2>10. \A d \in Conn : conn'[d] = "served" => \E q \in Port : serving'[q] = d
    BY <1>1, <1>4, <1>5, ConnIsSomebody DEF Lines, Served
  <2> QED
    BY <2>1, <2>3, <2>6, <2>7, <2>8, <2>9, <2>10 DEF Lines, Served
<1> QED
  BY <1>7, <1>8, <1>9, <1>10, <1>11

LEMMA FinishKeeps ==
  ASSUME LaunchInv, NEW p \in Port, Finish(p)
  PROVE  LaunchInv'
<1> USE DEF LaunchInv
<1> DEFINE c == serving[p]
<1>1. /\ c \in Conn /\ conn[c] = "closed" /\ serving'[p] = Nobody
      /\ \A q \in Port \ {p} : serving'[q] = serving[q]
      /\ conn'[c] = "none" /\ \A d \in Conn \ {c} : conn'[d] = conn[d]
      /\ UNCHANGED <<parent, child, step, shown, removed, listener, queue, inherited, locked>>
  BY DEF Finish, TypeOK
<1>2. TypeOK'
  BY DEF Finish, TypeOK
<1>3. Labels' /\ Owners' /\ Heirs' /\ Dials'
  <2> HIDE DEF c
  <2> QED
    BY <1>1 DEF Labels, Owners, Heirs, Dials, Dialled, Forked
<1>4. Lines'
  <2>1. \A q \in Port : \A n \in 1..Len(queue[q]) : queue[q][n] \in Conn
    BY ElementOfSeq DEF TypeOK
  <2> HIDE DEF c
  <2> QED
    BY <1>1, <2>1 DEF Lines
<1>5. Served'
  <2>1. \A q \in Port \ {p} : serving[q] # c
    BY <1>1, ConnIsSomebody DEF Served
  <2>2. \A q \in Port : serving[q] # Nobody => serving[q] \in Conn
    BY DEF TypeOK
  <2>3. \A d \in Conn : conn'[d] = "served" => \E q \in Port : serving'[q] = d
    BY <1>1 DEF Served
  <2> QED
    BY <1>1, <2>1, <2>2, <2>3 DEF Served
<1> QED
  BY <1>2, <1>3, <1>4, <1>5

(***************************************************************************)
(* Sockets that are closed                                                 *)
(***************************************************************************)
\* What is left of the listeners of i when who has closed its copies: those that nobody else has
\* open are gone with their queues, the others stay as they were but for who.
LEMMA Closing ==
  ASSUME TypeOK, NEW i \in Instance, NEW who \in {"parent", "child"}, CloseListeners(i, who)
  PROVE  /\ listener' \in [Port -> Listener \cup {Nobody}] /\ queue' \in [Port -> Seq(Conn)]
         /\ \A p \in Port : listener'[p] # Nobody =>
              /\ listener[p] # Nobody /\ listener'[p].owner = listener[p].owner /\ queue'[p] = queue[p]
              /\ listener[p].owner = i => listener'[p].held = listener[p].held \ {who}
              /\ listener[p].owner # i => listener'[p].held = listener[p].held
         /\ \A p \in Port : listener'[p] = Nobody => queue'[p] = << >> \/ (listener[p] = Nobody /\ queue'[p] = queue[p])
         /\ \A p \in Port : listener'[p] = Nobody /\ listener[p] # Nobody =>
              listener[p].owner = i /\ listener[p].held \subseteq {who}
<1>1. ASSUME NEW p \in Port
      PROVE  /\ listener'[p] \in Listener \cup {Nobody} /\ queue'[p] \in Seq(Conn)
             /\ listener'[p] # Nobody =>
                  /\ listener[p] # Nobody /\ listener'[p].owner = listener[p].owner /\ queue'[p] = queue[p]
                  /\ listener[p].owner = i => listener'[p].held = listener[p].held \ {who}
                  /\ listener[p].owner # i => listener'[p].held = listener[p].held
             /\ listener'[p] = Nobody => queue'[p] = << >> \/ (listener[p] = Nobody /\ queue'[p] = queue[p])
             /\ listener'[p] = Nobody /\ listener[p] # Nobody =>
                  listener[p].owner = i /\ listener[p].held \subseteq {who}
  <2>1. listener[p] \in Listener \cup {Nobody} /\ queue[p] \in Seq(Conn) /\ << >> \in Seq(Conn)
    BY EmptySeq DEF TypeOK
  <2>2. CASE listener[p] = Nobody \/ listener[p].owner # i
    BY <2>1, <2>2 DEF CloseListeners, Owned
  <2>3. CASE listener[p] # Nobody /\ listener[p].owner = i /\ listener[p].held \subseteq {who}
    <3>1. listener'[p] = Nobody /\ queue'[p] = << >>
      BY <2>3 DEF CloseListeners, Owned
    <3> QED
      BY <2>1, <2>3, <3>1
  <2>4. CASE listener[p] # Nobody /\ listener[p].owner = i /\ ~(listener[p].held \subseteq {who})
    <3> DEFINE left == listener[p].held \ {who}
    <3>1. listener[p] \in Listener /\ left \in (SUBSET {"parent", "child"}) \ {{}}
      BY <2>1, <2>4, ListenerMade
    <3>2. listener'[p] = [listener[p] EXCEPT !.held = left] /\ queue'[p] = queue[p]
      BY <2>4 DEF CloseListeners, Owned
    <3> QED
      BY <2>1, <2>4, <3>1, <3>2, ListenerMade
  <2> QED
    BY <2>2, <2>3, <2>4
<1>2. listener' = [p \in Port |-> listener'[p]] /\ queue' = [p \in Port |-> queue'[p]]
  BY DEF CloseListeners
<1>3. listener' \in [Port -> Listener \cup {Nobody}]
  BY <1>1, <1>2
<1>4. queue' \in [Port -> Seq(Conn)]
  BY <1>1, <1>2
<1> QED
  BY <1>1, <1>3, <1>4

\* The connections that are reset wait where nobody has the listener open any longer.
LEMMA WaitingIsLost ==
  ASSUME TypeOK, NEW i \in Instance, NEW who \in {"parent", "child"}, CloseListeners(i, who)
  PROVE  /\ \A c \in Waiting(i, who) : \E p \in Port :
              listener[p] # Nobody /\ listener'[p] = Nobody /\ \E n \in 1..Len(queue[p]) : queue[p][n] = c
         /\ \A p \in Port : listener[p] # Nobody /\ listener'[p] = Nobody =>
              \A n \in 1..Len(queue[p]) : queue[p][n] \in Waiting(i, who)
<1> DEFINE closed == {q \in Owned(i) : listener[q].held \subseteq {who}}
<1>1. \A p \in Port : queue[p] \in Seq(Conn) /\ DOMAIN queue[p] = 1..Len(queue[p])
  BY LenProperties DEF TypeOK
<1>2. \A p \in Port : ToSet(queue[p]) = {queue[p][n] : n \in 1..Len(queue[p])}
  BY <1>1 DEF ToSet
<1>3. closed \subseteq Port /\ \A p \in closed : listener[p] # Nobody /\ listener'[p] = Nobody
  BY DEF CloseListeners, Owned
<1>4. \A p \in Port : listener[p] # Nobody /\ listener'[p] = Nobody => p \in closed
  BY Closing DEF Owned
<1>5. Waiting(i, who) = UNION {ToSet(queue[p]) : p \in closed}
  BY DEF Waiting
<1> HIDE DEF closed
<1>6. ASSUME NEW c \in Waiting(i, who)
      PROVE  \E p \in Port : listener[p] # Nobody /\ listener'[p] = Nobody /\ \E n \in 1..Len(queue[p]) : queue[p][n] = c
  <2>1. PICK p \in closed : c \in ToSet(queue[p])
    BY <1>5
  <2>2. p \in Port /\ listener[p] # Nobody /\ listener'[p] = Nobody
    BY <1>3
  <2>3. c \in {queue[p][n] : n \in 1..Len(queue[p])}
    BY <1>2, <2>1, <2>2
  <2> QED
    BY <2>2, <2>3
<1>7. ASSUME NEW p \in Port, listener[p] # Nobody, listener'[p] = Nobody, NEW n \in 1..Len(queue[p])
      PROVE  queue[p][n] \in Waiting(i, who)
  <2>1. p \in closed /\ queue[p][n] \in ToSet(queue[p])
    BY <1>2, <1>4, <1>7
  <2> QED
    BY <1>5, <2>1
<1> QED
  BY <1>6, <1>7

\* So the queues stay in order.
LEMMA ClosingKeepsLines ==
  ASSUME TypeOK, Lines, NEW i \in Instance, NEW who \in {"parent", "child"}, CloseListeners(i, who),
         \A c \in Conn : conn'[c] = "queued" <=> conn[c] = "queued" /\ c \notin Waiting(i, who)
  PROVE  Lines'
<1>1. \A p \in Port : \A n \in 1..Len(queue'[p]) :
        listener'[p] # Nobody /\ queue'[p] = queue[p] /\ n \in 1..Len(queue[p]) /\ queue[p][n] \in Conn
  <2> SUFFICES ASSUME NEW p \in Port, NEW n \in 1..Len(queue'[p])
               PROVE  listener'[p] # Nobody /\ queue'[p] = queue[p] /\ queue[p][n] \in Conn
    OBVIOUS
  <2>1. queue'[p] # << >>
    BY EmptySeq
  <2>2. listener'[p] # Nobody
    BY <2>1, Closing DEF Lines
  <2>3. queue'[p] = queue[p] /\ queue[p] \in Seq(Conn)
    BY <2>2, Closing DEF TypeOK
  <2> QED
    BY <2>2, <2>3, ElementOfSeq
<1>2. \A p \in Port : queue'[p] # << >> => listener'[p] # Nobody
  BY Closing DEF Lines
<1>3. \A p \in Port : \A n \in 1..Len(queue'[p]) : conn'[queue'[p][n]] = "queued"
  <2> SUFFICES ASSUME NEW p \in Port, NEW n \in 1..Len(queue'[p]) PROVE conn'[queue'[p][n]] = "queued"
    OBVIOUS
  <2>1. /\ listener'[p] # Nobody /\ queue'[p][n] = queue[p][n] /\ n \in 1..Len(queue[p]) /\ queue[p][n] \in Conn
        /\ conn[queue[p][n]] = "queued"
    BY <1>1 DEF Lines
  <2>2. queue[p][n] \notin Waiting(i, who)
    <3>1. SUFFICES ASSUME queue[p][n] \in Waiting(i, who) PROVE FALSE
      OBVIOUS
    <3>2. PICK q \in Port : listener'[q] = Nobody /\ \E m \in 1..Len(queue[q]) : queue[q][m] = queue[p][n]
      BY <3>1, WaitingIsLost
    <3> QED
      BY <2>1, <3>2 DEF Lines
  <2> QED
    BY <2>1, <2>2
<1>4. \A p, q \in Port : \A m \in 1..Len(queue'[p]), n \in 1..Len(queue'[q]) :
        queue'[p][m] = queue'[q][n] => p = q /\ m = n
  BY <1>1 DEF Lines
<1>5. ASSUME NEW c \in Conn, conn'[c] = "queued"
      PROVE  \E p \in Port : \E n \in 1..Len(queue'[p]) : queue'[p][n] = c
  <2>1. PICK p \in Port : \E n \in 1..Len(queue[p]) : queue[p][n] = c
    BY <1>5 DEF Lines
  <2>2. PICK n \in 1..Len(queue[p]) : queue[p][n] = c
    BY <2>1
  <2>3. listener[p] # Nobody
    BY <2>2, EmptySeq DEF Lines
  <2>4. listener'[p] # Nobody
    BY <1>5, <2>2, <2>3, WaitingIsLost
  <2> QED
    BY <2>2, <2>4, Closing
<1> QED
  BY <1>2, <1>3, <1>4, <1>5 DEF Lines

(***************************************************************************)
(* The parent                                                              *)
(***************************************************************************)
LEMMA ParentGoesKeeps ==
  ASSUME LaunchInv, NEW i \in Instance, ParentExits(i)
  PROVE  LaunchInv'
<1> USE DEF LaunchInv
<1> DEFINE busy == Busy(i)
           lost == Waiting(i, "parent")
<1>1. /\ parent[i] \in {"up", "leaving"} /\ CloseListeners(i, "parent")
      /\ parent' = [parent EXCEPT ![i] = "gone"]
      /\ serving' = [p \in Port |-> IF p \in Owned(i) THEN Nobody ELSE serving[p]]
      /\ UNCHANGED <<child, step, shown, removed, inherited, locked>>
  BY DEF ParentExits, ParentGoes
<1>2. conn' = [c \in Conn |->
                IF c \in lost THEN "broken"
                ELSE IF c \in busy
                THEN (IF conn[c] = "closed" THEN "none" ELSE IF c \in inherited[i] THEN "stuck" ELSE "broken")
                ELSE conn[c]]
  BY DEF ParentExits, ParentGoes
<1>3. /\ \A c \in lost : conn[c] = "queued"
      /\ \A p \in Port : serving[p] # Nobody =>
           serving[p] \in Conn /\ serving[p] \notin lost /\ (p \notin Owned(i) => serving[p] \notin busy)
      /\ \A c \in busy : c \in Conn /\ conn[c] \in {"served", "closed"}
  <2>1. \A c \in lost : conn[c] = "queued"
    BY <1>1, WaitingIsLost DEF Lines
  <2>2. Owned(i) \subseteq Port
    BY DEF Owned
  <2>3. \A c \in busy : c \in Conn /\ conn[c] \in {"served", "closed"}
    BY <2>2 DEF Served, Busy, TypeOK
  <2> QED
    <3>1. ASSUME NEW p \in Port, serving[p] # Nobody
          PROVE  serving[p] \in Conn /\ serving[p] \notin lost
      <4>1. serving[p] \in Conn /\ conn[serving[p]] \in {"served", "closed"}
        BY <3>1 DEF Served, TypeOK
      <4> QED
        BY <2>1, <4>1
    <3>2. ASSUME NEW p \in Port, serving[p] # Nobody, p \notin Owned(i) PROVE serving[p] \notin busy
      BY <2>2, <3>2 DEF Served, Busy
    <3> QED
      BY <2>1, <2>3, <3>1, <3>2
<1> HIDE DEF lost
<1>4. TypeOK'
  <2>1. listener' \in [Port -> Listener \cup {Nobody}] /\ queue' \in [Port -> Seq(Conn)]
    BY <1>1, Closing
  <2>2. conn' \in [Conn -> {"none", "queued", "served", "closed", "broken", "stuck"}]
    BY <1>2 DEF TypeOK
  <2>3. serving' \in [Port -> Conn \cup {Nobody}]
    BY <1>1 DEF TypeOK
  <2> QED
    BY <1>1, <2>1, <2>2, <2>3 DEF TypeOK, ParentLabel
<1>5. Labels'
  BY <1>1 DEF Labels, Forked, TypeOK
<1>6. Owners'
  <2> SUFFICES ASSUME NEW p \in Port, listener'[p] # Nobody
               PROVE  /\ "parent" \in listener'[p].held <=> parent'[listener'[p].owner] \notin {"off", "gone"}
                      /\ "child" \in listener'[p].held => Forked(listener[p].owner)'
    BY DEF Owners
  <2>1. /\ listener[p] # Nobody /\ listener'[p].owner = listener[p].owner /\ listener[p].owner \in Instance
        /\ listener[p].owner = i => listener'[p].held = listener[p].held \ {"parent"}
        /\ listener[p].owner # i => listener'[p].held = listener[p].held
    <3>1. /\ listener[p] # Nobody /\ listener'[p].owner = listener[p].owner
          /\ listener[p].owner = i => listener'[p].held = listener[p].held \ {"parent"}
          /\ listener[p].owner # i => listener'[p].held = listener[p].held
      <4>1. TypeOK /\ "parent" \in {"parent", "child"} /\ CloseListeners(i, "parent")
        BY <1>1
      <4> QED
        BY <4>1, Closing
    <3>2. listener[p] \in Listener
      BY <3>1 DEF TypeOK
    <3> QED
      BY <3>1, <3>2, ListenerMade
  <2>2. \A j \in Instance : Forked(j)' <=> Forked(j)
    BY <1>1 DEF Forked
  <2>3. parent'[listener'[p].owner] = IF listener[p].owner = i THEN "gone" ELSE parent[listener[p].owner]
    BY <1>1, <2>1 DEF TypeOK
  <2> QED
    BY <2>1, <2>2, <2>3 DEF Owners
<1>7. Heirs'
  BY <1>1, <1>2 DEF Heirs, Forked
<1>8. Dials'
  <2>1. \A c \in Conn : (conn'[c] # "none" => conn[c] # "none") /\ (conn'[c] = "queued" => conn[c] = "queued")
    BY <1>2, <1>3
  <2> QED
    BY <1>1, <2>1 DEF Dials, Dialled
<1>9. Lines'
  <2>1. \A c \in Conn : conn'[c] = "queued" <=> conn[c] = "queued" /\ c \notin Waiting(i, "parent")
    BY <1>2, <1>3 DEF lost
  <2> QED
    BY <1>1, <2>1, ClosingKeepsLines
<1>10. Served'
  <2>1. ASSUME NEW p \in Port, serving'[p] # Nobody
        PROVE  /\ listener'[p] # Nobody /\ "parent" \in listener'[p].held
               /\ serving'[p] = serving[p] /\ conn'[serving[p]] \in {"served", "closed"}
    <3>1. serving'[p] = serving[p] /\ p \notin Owned(i)
      BY <1>1, <2>1
    <3>2. /\ listener[p] # Nobody /\ "parent" \in listener[p].held /\ listener[p].owner # i
          /\ conn[serving[p]] \in {"served", "closed"}
      BY <2>1, <3>1 DEF Served, Owned
    <3>3. listener'[p] # Nobody /\ listener'[p].held = listener[p].held
      <4>1. listener'[p] # Nobody
        BY <1>1, <3>2, Closing
      <4> QED
        BY <1>1, <3>2, <4>1, Closing
    <3>4. conn'[serving[p]] = conn[serving[p]]
      BY <1>2, <1>3, <2>1, <3>1
    <3> QED
      BY <3>1, <3>2, <3>3, <3>4
  <2>2. \A p, q \in Port : serving'[p] = serving'[q] /\ serving'[p] # Nobody => p = q
    BY <2>1 DEF Served
  <2>3. ASSUME NEW c \in Conn, conn'[c] = "served" PROVE \E p \in Port : serving'[p] = c
    <3>1. conn[c] = "served" /\ c \notin busy
      BY <1>2, <2>3
    <3>2. PICK p \in Port : serving[p] = c
      BY <3>1 DEF Served
    <3>3. p \notin Owned(i)
      BY <3>1, <3>2, ConnIsSomebody DEF Busy
    <3> QED
      BY <1>1, <3>2, <3>3
  <2> QED
    BY <2>1, <2>2, <2>3 DEF Served
<1> QED
  BY <1>4, <1>5, <1>6, <1>7, <1>8, <1>9, <1>10

\* A server that is busy has one stream locked at most, and one that is not none.
LEMMA HeldStreams ==
  ASSUME NEW busy, NEW ls \in HeldBy(busy)
  PROVE  ls \in SUBSET Stream /\ (ls # {} => busy # {})
<1>1. PICK holds \in [busy -> Stream \cup {"none"}] : ls = {holds[c] : c \in busy} \ {"none"}
  BY DEF HeldBy
<1> QED
  BY <1>1

LEMMA ForkKeeps ==
  ASSUME LaunchInv, NEW i \in Instance, Fork(i)
  PROVE  LaunchInv'
<1> USE DEF LaunchInv
<1> DEFINE busy == Busy(i)
<1>1. /\ i \in Command /\ parent[i] = "up" /\ parent' = [parent EXCEPT ![i] = "leaving"]
      /\ UNCHANGED <<step, shown, removed, queue, serving, conn>>
  BY DEF Fork
<1>2. child[i] = "none" /\ ~Forked(i) /\ inherited[i] = {}
  BY <1>1 DEF Labels, Heirs, Forked, TypeOK
<1>3. /\ parent' \in [Instance -> ParentLabel] /\ parent'[i] = "leaving"
      /\ \A j \in Instance : j # i => parent'[j] = parent[j]
  BY <1>1 DEF TypeOK, ParentLabel
<1>4. PICK to \in {"forked", "ended"} : child' = [child EXCEPT ![i] = to]
  BY DEF Fork
<1>5. child' \in [Instance -> ChildLabel] /\ child'[i] = to /\ \A j \in Instance : j # i => child'[j] = child[j]
  BY <1>4 DEF TypeOK, ChildLabel
<1>6. Labels'
  <2> SUFFICES ASSUME NEW j \in Instance
               PROVE  /\ child'[j] # "none" => j \in Command /\ parent'[j] \in {"leaving", "gone"}
                      /\ child'[j] \in {"probing", "mount", "mounting"} => step[j] \in Steps(j) /\ Plan[j][step[j]].kind = "p9"
    BY <1>1 DEF Labels
  <2> QED
    BY <1>1, <1>3, <1>5 DEF Labels, Forked
<1>7. Dials'
  <2>1. \A c \in Conn : conn[c] # "none" => c[1] # i
    BY <1>2 DEF Dials, Dialled
  <2> QED
    BY <1>1, <1>5, <2>1, ConnParts DEF Dials, Dialled
<1>8. Lines' /\ Served' /\ listener' \in [Port -> Listener \cup {Nobody}] /\ Owners' /\ Heirs'
      /\ inherited' \in [Instance -> SUBSET Conn] /\ locked' \in [Instance -> SUBSET Stream]
  <2>1. CASE /\ to = "ended" /\ UNCHANGED <<listener, inherited, locked>>
    <3>1. \A j \in Instance : Forked(j)' <=> Forked(j)
      BY <1>2, <1>5, <2>1 DEF Forked
    <3>2. Owners'
      <4> SUFFICES ASSUME NEW p \in Port, listener[p] # Nobody
                   PROVE  /\ "parent" \in listener[p].held <=> parent'[listener[p].owner] \notin {"off", "gone"}
                          /\ "child" \in listener[p].held => Forked(listener[p].owner)'
        BY <2>1 DEF Owners
      <4>1. listener[p].owner \in Instance
        BY ListenerMade DEF TypeOK
      <4> QED
        <5>1. parent'[listener[p].owner] \notin {"off", "gone"} <=> parent[listener[p].owner] \notin {"off", "gone"}
          BY <1>1, <1>3, <4>1
        <5> QED
          BY <2>1, <3>1, <4>1, <5>1 DEF Owners
    <3>3. Heirs'
      BY <1>1, <2>1, <3>1 DEF Heirs
    <3>4. Lines' /\ Served'
      BY <1>1, <2>1 DEF Lines, Served
    <3> QED
      BY <2>1, <3>2, <3>3, <3>4 DEF TypeOK
  <2>2. CASE /\ to = "forked"
             /\ listener' = [p \in Port |-> IF p \in Owned(i)
                                            THEN [listener[p] EXCEPT !.held = listener[p].held \cup {"child"}]
                                            ELSE listener[p]]
             /\ inherited' = [inherited EXCEPT ![i] = busy]
             /\ \E ls \in HeldBy(busy) : locked' = [locked EXCEPT ![i] = ls]
    <3>1. /\ Forked(i)' /\ \A j \in Instance : j # i => (Forked(j)' <=> Forked(j))
      BY <1>5, <2>2 DEF Forked, ChildLabel
    <3>2. ASSUME NEW p \in Port, listener[p] # Nobody
          PROVE  /\ listener'[p] \in Listener /\ listener'[p] # Nobody /\ listener'[p].owner = listener[p].owner
                 /\ "parent" \in listener'[p].held <=> "parent" \in listener[p].held
                 /\ listener[p].owner # i => listener'[p] = listener[p]
      <4>1. listener[p] \in Listener
        BY <3>2 DEF TypeOK
      <4>2. CASE p \in Owned(i)
        <5> DEFINE more == listener[p].held \cup {"child"}
        <5>1. more \in (SUBSET {"parent", "child"}) \ {{}}
          BY <4>1, ListenerMade
        <5>2. listener'[p] = [listener[p] EXCEPT !.held = more]
          BY <2>2, <4>2
        <5>3. listener[p].owner = i
          BY <4>2 DEF Owned
        <5>4. "parent" \in more <=> "parent" \in listener[p].held
          OBVIOUS
        <5> HIDE DEF more
        <5> QED
          BY <4>1, <5>1, <5>2, <5>3, <5>4, ListenerMade
      <4>3. CASE p \notin Owned(i)
        BY <2>2, <3>2, <4>1, <4>3 DEF Owned
      <4> QED
        BY <4>2, <4>3
    <3>3. \A p \in Port : listener[p] = Nobody => listener'[p] = Nobody
      BY <2>2 DEF Owned
    <3>4. listener' \in [Port -> Listener \cup {Nobody}]
      <4>1. listener' = [p \in Port |-> listener'[p]]
        BY <2>2
      <4>2. \A p \in Port : listener'[p] \in Listener \cup {Nobody}
        BY <3>2, <3>3
      <4> QED
        BY <4>1, <4>2
    <3>5. Owners'
      <4> SUFFICES ASSUME NEW p \in Port, listener'[p] # Nobody
                   PROVE  /\ "parent" \in listener'[p].held <=> parent'[listener'[p].owner] \notin {"off", "gone"}
                          /\ "child" \in listener'[p].held => Forked(listener[p].owner)'
        BY DEF Owners
      <4>1. listener[p] # Nobody
        BY <3>3
      <4>2. /\ listener'[p].owner = listener[p].owner /\ listener[p].owner \in Instance
            /\ "parent" \in listener'[p].held <=> "parent" \in listener[p].held
            /\ listener[p].owner # i => listener'[p] = listener[p]
        BY <3>2, <4>1, ListenerMade
      <4>3. parent'[listener[p].owner] \notin {"off", "gone"} <=> parent[listener[p].owner] \notin {"off", "gone"}
        BY <1>1, <1>3, <4>2
      <4> QED
        BY <3>1, <4>1, <4>2, <4>3 DEF Owners
    <3>6. busy \subseteq Conn /\ inherited' \in [Instance -> SUBSET Conn]
      <4>1. busy \subseteq Conn
        BY DEF TypeOK, Owned, Busy
      <4> HIDE DEF busy
      <4> QED
        BY <2>2, <4>1 DEF TypeOK
    <3>7. Heirs'
      <4>1. \A j \in Instance : j # i => inherited'[j] = inherited[j]
        BY <2>2 DEF TypeOK
      <4>2. \A j \in Instance : inherited'[j] # {} => Forked(j)'
        BY <3>1, <4>1 DEF Heirs
      <4>3. \A c \in Conn : conn[c] = "stuck" => \E j \in Instance : j # i /\ c \in inherited[j]
        BY <1>2 DEF Heirs
      <4> QED
        BY <1>1, <4>1, <4>2, <4>3 DEF Heirs
    <3>8. locked' \in [Instance -> SUBSET Stream]
      <4>1. PICK ls \in SUBSET Stream : locked' = [locked EXCEPT ![i] = ls]
        BY <2>2, HeldStreams
      <4> QED
        BY <4>1 DEF TypeOK
    <3>9. Lines'
      BY <1>1, <3>2 DEF Lines
    <3>10. Served'
      BY <1>1, <3>2 DEF Served
    <3> QED
      BY <3>4, <3>5, <3>6, <3>7, <3>8, <3>9, <3>10
  <2>3. \/ /\ child' = [child EXCEPT ![i] = "forked"] /\ Inherits(i) /\ inherited' = [inherited EXCEPT ![i] = busy]
           /\ locked' \in {[locked EXCEPT ![i] = ls] : ls \in HeldBy(busy)}
        \/ child' = [child EXCEPT ![i] = "ended"] /\ UNCHANGED <<listener, inherited, locked>>
    BY DEF Fork
  <2>4. CASE /\ child' = [child EXCEPT ![i] = "forked"] /\ Inherits(i) /\ inherited' = [inherited EXCEPT ![i] = busy]
             /\ locked' \in {[locked EXCEPT ![i] = ls] : ls \in HeldBy(busy)}
    <3>1. to = "forked"
      BY <1>5, <2>4 DEF TypeOK
    <3>2. \E ls \in HeldBy(busy) : locked' = [locked EXCEPT ![i] = ls]
      BY <2>4
    <3> QED
      BY <2>2, <2>4, <3>1, <3>2 DEF Inherits
  <2>5. CASE child' = [child EXCEPT ![i] = "ended"] /\ UNCHANGED <<listener, inherited, locked>>
    <3>1. to = "ended"
      BY <1>5, <2>5 DEF TypeOK
    <3> QED
      BY <2>1, <2>5, <3>1
  <2> QED
    BY <2>3, <2>4, <2>5
<1>9. TypeOK'
  BY <1>1, <1>3, <1>5, <1>8 DEF TypeOK
<1> QED
  BY <1>6, <1>7, <1>8, <1>9

(***************************************************************************)
(* The child lets go of what it has                                        *)
(***************************************************************************)
LEMMA ChildLetsKeeps ==
  ASSUME LaunchInv, NEW i \in Instance, NEW own \in SUBSET OwnConns(i), ChildLets(i, own),
         NEW to \in {"running", "ended"}, child' = [child EXCEPT ![i] = to],
         child[i] \notin {"none", "probing", "mounting"}, UNCHANGED parent,
         step' \in {step, [step EXCEPT ![i] = 1]}, shown' \in {shown, [shown EXCEPT ![i] = {}]},
         removed' \in {removed, [removed EXCEPT ![i] = {}]}
  PROVE  LaunchInv'
<1> USE DEF LaunchInv
<1> DEFINE lost == Waiting(i, "child")
<1>1. CloseListeners(i, "child") /\ inherited' = [inherited EXCEPT ![i] = {}] /\ serving' = serving
      /\ locked' = [locked EXCEPT ![i] = {}]
  BY DEF ChildLets
<1>2. conn' = [c \in Conn |->
                IF c \in own THEN (IF conn[c] \in {"served", "closed"} THEN "closed" ELSE "none")
                ELSE IF c \in lost \/ (c \in inherited[i] /\ conn[c] = "stuck") THEN "broken" ELSE conn[c]]
  BY DEF ChildLets
<1>3. /\ \A c \in lost : conn[c] = "queued"
      /\ \A c \in Conn : c[1] = i => conn[c] # "queued"
      /\ \A c \in own : c \in Conn /\ c[1] = i
  BY <1>1, WaitingIsLost DEF Lines, Dials, OwnConns
<1> HIDE DEF lost
<1>4. child' \in [Instance -> ChildLabel] /\ child'[i] = to /\ \A j \in Instance : j # i => child'[j] = child[j]
  BY DEF TypeOK, ChildLabel
<1>5. ~Forked(i)' /\ \A j \in Instance : j # i => (Forked(j)' <=> Forked(j))
  BY <1>4 DEF Forked
<1>6. /\ step' \in [Instance -> Nat \ {0}] /\ \A j \in Instance : step'[j] <= Len(Plan[j]) + 1
      /\ \A j \in Instance : j # i => step'[j] = step[j]
      /\ shown' \in [Instance -> SUBSET [step : Nat, what : SUBSET (Path \cup Port)]]
      /\ \A j \in Instance : \A s \in shown'[j] : s.step \in Steps(j)
      /\ removed' \in [Instance -> SUBSET Path]
  <2>1. /\ step' \in [Instance -> Nat \ {0}]
        /\ \A j \in Instance : j # i => step'[j] = step[j]
        /\ step'[i] \in {step[i], 1}
    BY DEF TypeOK
  <2>2. \A j \in Instance : step'[j] <= Len(Plan[j]) + 1
    <3>1. 1 <= Len(Plan[i]) + 1
      BY PlanSteps
    <3> QED
      BY <2>1, <3>1 DEF TypeOK
  <2>3. /\ shown' \in [Instance -> SUBSET [step : Nat, what : SUBSET (Path \cup Port)]]
        /\ \A j \in Instance : \A s \in shown'[j] : s.step \in Steps(j)
    BY DEF TypeOK
  <2>4. removed' \in [Instance -> SUBSET Path]
    BY DEF TypeOK
  <2> QED
    BY <2>1, <2>2, <2>3, <2>4
<1>7. TypeOK'
  <2>1. listener' \in [Port -> Listener \cup {Nobody}] /\ queue' \in [Port -> Seq(Conn)]
    BY <1>1, Closing
  <2>2. conn' \in [Conn -> {"none", "queued", "served", "closed", "broken", "stuck"}]
    BY <1>2 DEF TypeOK
  <2>3. inherited' \in [Instance -> SUBSET Conn] /\ locked' \in [Instance -> SUBSET Stream]
    BY <1>1 DEF TypeOK
  <2> QED
    BY <1>6, <1>1, <1>4, <2>1, <2>2, <2>3 DEF TypeOK
<1>8. Labels'
  <2> SUFFICES ASSUME NEW j \in Instance
               PROVE  /\ child'[j] # "none" => j \in Command /\ parent[j] \in {"leaving", "gone"}
                      /\ child'[j] \in {"probing", "mount", "mounting"} => step'[j] \in Steps(j) /\ Plan[j][step'[j]].kind = "p9"
    BY DEF Labels
  <2> QED
    BY <1>6, <1>4, <1>5 DEF Labels
<1>9. Owners'
  <2> SUFFICES ASSUME NEW p \in Port, listener'[p] # Nobody
               PROVE  /\ "parent" \in listener'[p].held <=> parent[listener'[p].owner] \notin {"off", "gone"}
                      /\ "child" \in listener'[p].held => Forked(listener[p].owner)'
    BY DEF Owners
  <2>1. /\ listener[p] # Nobody /\ listener'[p].owner = listener[p].owner
        /\ listener[p].owner = i => listener'[p].held = listener[p].held \ {"child"}
        /\ listener[p].owner # i => listener'[p].held = listener[p].held
    BY <1>1, Closing
  <2>2. listener[p].owner \in Instance
    BY <2>1, ListenerMade DEF TypeOK
  <2>3. ("parent" \in listener'[p].held <=> "parent" \in listener[p].held)
        /\ ("child" \in listener'[p].held => listener[p].owner # i /\ "child" \in listener[p].held)
    BY <2>1
  <2> QED
    BY <1>5, <2>1, <2>2, <2>3 DEF Owners
<1>10. Heirs'
  <2>1. \A j \in Instance : inherited'[j] = (IF j = i THEN {} ELSE inherited[j])
    BY <1>1 DEF TypeOK
  <2>2. \A c \in Conn : conn'[c] = "stuck" => conn[c] = "stuck" /\ c \notin inherited[i]
    BY <1>2
  <2> QED
    BY <1>5, <2>1, <2>2 DEF Heirs
<1>11. Dials'
  <2>1. \A c \in Conn : (conn'[c] # "none" => conn[c] # "none") /\ (conn'[c] = "queued" => conn[c] = "queued" /\ c[1] # i)
    BY <1>2, <1>3
  <2>2. ASSUME NEW c \in Conn, conn'[c] # "none" PROVE Dialled(c)'
    BY <1>6, <1>4, <2>1, <2>2, ConnParts DEF Dials, Dialled
  <2> QED
    BY <1>6, <1>4, <2>1, <2>2, ConnParts DEF Dials
<1>12. Lines'
  <2>1. \A c \in Conn : conn'[c] = "queued" <=> conn[c] = "queued" /\ c \notin Waiting(i, "child")
    BY <1>2, <1>3 DEF lost
  <2> QED
    BY <1>1, <2>1, ClosingKeepsLines
<1>13. Served'
  <2>1. ASSUME NEW p \in Port, serving[p] # Nobody
        PROVE  listener'[p] # Nobody /\ "parent" \in listener'[p].held /\ conn'[serving[p]] \in {"served", "closed"}
    <3>1. /\ listener[p] # Nobody /\ "parent" \in listener[p].held
          /\ conn[serving[p]] \in {"served", "closed"} /\ serving[p] \in Conn
      BY <2>1 DEF Served, TypeOK
    <3>2. listener'[p] # Nobody
      BY <1>1, <3>1, Closing
    <3>3. "parent" \in listener'[p].held
      BY <1>1, <3>1, <3>2, Closing
    <3>4. conn'[serving[p]] \in {"served", "closed"}
      BY <1>2, <1>3, <3>1
    <3> QED
      BY <3>2, <3>3, <3>4
  <2>2. \A c \in Conn : conn'[c] = "served" => conn[c] = "served"
    BY <1>2
  <2> QED
    BY <1>1, <2>1, <2>2 DEF Served
<1> QED
  BY <1>7, <1>8, <1>9, <1>10, <1>11, <1>12, <1>13

(***************************************************************************)
(* The child goes through the plan                                         *)
(***************************************************************************)
\* What a step of the plan is made of.
LEMMA StepParts ==
  ASSUME TypeOK, NEW i \in Instance, step[i] \in Steps(i)
  PROVE  /\ step[i] \in Nat \ {0} /\ step[i] + 1 \in Nat \ {0} /\ step[i] + 1 <= Len(Plan[i]) + 1
         /\ Plan[i][step[i]].kind = "bind" => Plan[i][step[i]].path \in Path
         /\ Plan[i][step[i]].kind = "union" => Plan[i][step[i]].paths \in Seq(Path)
         /\ Plan[i][step[i]].kind = "p9" => Plan[i][step[i]].port \in Port
<1>1. step[i] \in Nat \ {0} /\ step[i] <= Len(Plan[i]) /\ Len(Plan[i]) \in Nat /\ Plan[i][step[i]] \in PlanStep
  BY PlanSteps
<1>2. /\ Plan[i][step[i]].kind = "bind" => Plan[i][step[i]].path \in Path
      /\ Plan[i][step[i]].kind = "union" => Plan[i][step[i]].paths \in Seq(Path)
      /\ Plan[i][step[i]].kind = "p9" => Plan[i][step[i]].port \in Port
  BY <1>1 DEF PlanStep
<1> QED
  BY <1>1, <1>2

\* A child that is not waiting for a connection has none that waits.
LEMMA NoneWaits ==
  ASSUME LaunchInv, NEW i \in Instance, child[i] \notin {"probing", "mounting"}
  PROVE  \A c \in Conn : c[1] = i => conn[c] # "queued"
BY DEF LaunchInv, Dials

\* One that is has only the one it waits for.
LEMMA OneWaits ==
  ASSUME LaunchInv, NEW i \in Instance, NEW use \in {"probe", "mount"},
         child[i] = (IF use = "probe" THEN "probing" ELSE "mounting"),
         conn[ConnOf(i, use)] # "queued"
  PROVE  ConnOf(i, use) \in Conn /\ \A c \in Conn : c[1] = i => conn[c] # "queued"
<1> USE DEF LaunchInv
<1>1. i \in Command /\ step[i] \in Steps(i)
  BY DEF Labels
<1>2. ConnOf(i, use) \in Conn
  BY <1>1, ConnMade DEF ConnOf
<1>3. ASSUME NEW c \in Conn, c[1] = i, conn[c] = "queued" PROVE FALSE
  <2>1. c[2] = step[i] /\ c[3] = use
    BY <1>3 DEF Dials
  <2>2. c = ConnOf(i, use)
    BY <1>3, <2>1, ConnParts DEF ConnOf
  <2> QED
    BY <1>3, <2>2
<1> QED
  BY <1>2, <1>3

\* What is in sight is some of the paths.
LEMMA SeenArePaths ==
  ASSUME NEW paths \in Seq(Path), NEW bound \in Binds(paths)
  PROVE  InSight(paths, bound) \subseteq Path
<1>1. bound \subseteq 1..Len(paths) /\ \A n \in 1..Len(paths) : paths[n] \in Path
  BY LenProperties, ElementOfSeq DEF Binds
<1> QED
  BY <1>1 DEF InSight

\* Where a child goes that neither ends nor executes its command nor waits,
Goes(i) ==
  /\ child[i] \in {"forked", "next", "probing", "mount", "mounting"}
  /\ \/ ChildMoves(i, "mute", step[i]) /\ locked[i] # {}
     \/ ChildMoves(i, "next", 1) /\ child[i] = "forked"
     \/ ChildMoves(i, "next", step[i] + 1) /\ child[i] # "forked" /\ step[i] \in Steps(i)
     \/ ChildMoves(i, "mount", step[i]) /\ child[i] = "probing"

\* and what it leaves behind: nothing, a union, a connection that it closed, or a mount.
Closes(c) ==
  \/ conn[c] = "served" /\ conn' = [conn EXCEPT ![c] = "closed"]
  \/ conn[c] = "broken" /\ conn' = [conn EXCEPT ![c] = "none"]

Unites(i, paths) ==
  \E bound \in Binds(paths) :
    /\ removed' = [removed EXCEPT ![i] = @ \cup InSight(paths, bound)]
    /\ UNCHANGED shown \/ Shows(i, InSight(paths, bound) \cap Slashed)

Leaves(i) ==
  \/ child[i] \notin {"probing", "mounting"} /\ UNCHANGED <<shown, removed, conn>>
  \/ At(i, "union") /\ Unites(i, Plan[i][step[i]].paths) /\ UNCHANGED conn
  \/ child[i] = "probing" /\ Closes(ConnOf(i, "probe")) /\ UNCHANGED <<shown, removed>>
  \/ child[i] = "mounting" /\ Closes(ConnOf(i, "mount")) /\ UNCHANGED <<shown, removed>>
  \/ /\ child[i] = "mounting" /\ conn[ConnOf(i, "mount")] = "served"
     /\ Shows(i, {Server(i)}) /\ UNCHANGED <<removed, conn>>

\* What that is to the variables.
LEMMA WhatIsLeft ==
  ASSUME LaunchInv, NEW i \in Instance, Leaves(i)
  PROVE  /\ UNCHANGED shown \/ (step[i] \in Steps(i) /\ \E what \in SUBSET (Path \cup Port) : Shows(i, what))
         /\ removed' \in [Instance -> SUBSET Path]
         /\ UNCHANGED conn \/ \E c \in Conn : Closes(c)
         /\ \A c \in Conn : c[1] = i => conn[c] # "queued"
<1>1. TypeOK
  BY DEF LaunchInv
<1>2. removed \in [Instance -> SUBSET Path]
  BY <1>1 DEF TypeOK
<1>3. CASE child[i] \notin {"probing", "mounting"} /\ UNCHANGED <<shown, removed, conn>>
  BY <1>2, <1>3, NoneWaits
<1>4. CASE At(i, "union") /\ Unites(i, Plan[i][step[i]].paths) /\ UNCHANGED conn
  <2> DEFINE paths == Plan[i][step[i]].paths
  <2>1. /\ child[i] \notin {"probing", "mounting"} /\ step[i] \in Steps(i)
        /\ Plan[i][step[i]].kind = "union"
    BY <1>4 DEF At
  <2>2. paths \in Seq(Path)
    BY <1>1, <2>1, StepParts
  <2>3. PICK bound \in Binds(paths) :
          /\ removed' = [removed EXCEPT ![i] = @ \cup InSight(paths, bound)]
          /\ UNCHANGED shown \/ Shows(i, InSight(paths, bound) \cap Slashed)
    BY <1>4 DEF Unites
  <2>4. InSight(paths, bound) \subseteq Path
    BY <2>2, SeenArePaths
  <2>5. removed' \in [Instance -> SUBSET Path]
    <3> DEFINE seen == InSight(paths, bound)
    <3>1. removed' = [removed EXCEPT ![i] = removed[i] \cup seen] /\ seen \subseteq Path
      BY <2>3, <2>4
    <3> HIDE DEF seen
    <3> QED
      BY <1>2, <3>1
  <2>6. InSight(paths, bound) \cap Slashed \in SUBSET (Path \cup Port)
    BY <2>4
  <2>7. \A c \in Conn : c[1] = i => conn[c] # "queued"
    BY <2>1, NoneWaits
  <2> HIDE DEF paths
  <2> QED
    BY <1>4, <2>1, <2>3, <2>5, <2>6, <2>7
<1>5. ASSUME NEW use \in {"probe", "mount"}, child[i] = (IF use = "probe" THEN "probing" ELSE "mounting"),
             Closes(ConnOf(i, use)), UNCHANGED <<shown, removed>>
      PROVE  /\ removed' \in [Instance -> SUBSET Path]
             /\ \E c \in Conn : Closes(c)
             /\ \A c \in Conn : c[1] = i => conn[c] # "queued"
  <2>1. conn[ConnOf(i, use)] # "queued"
    BY <1>5 DEF Closes
  <2>2. ConnOf(i, use) \in Conn /\ \A c \in Conn : c[1] = i => conn[c] # "queued"
    BY <1>5, <2>1, OneWaits
  <2> QED
    BY <1>2, <1>5, <2>2
<1>6. CASE /\ child[i] = "mounting" /\ conn[ConnOf(i, "mount")] = "served"
           /\ Shows(i, {Server(i)}) /\ UNCHANGED <<removed, conn>>
  <2>1. step[i] \in Steps(i) /\ Plan[i][step[i]].kind = "p9"
    BY <1>6 DEF LaunchInv, Labels
  <2>2. {Server(i)} \in SUBSET (Path \cup Port)
    BY <1>1, <2>1, StepParts DEF Server
  <2>3. \A c \in Conn : c[1] = i => conn[c] # "queued"
    BY <1>6, OneWaits
  <2> QED
    BY <1>2, <1>6, <2>1, <2>2, <2>3
<1>7. CASE child[i] = "probing" /\ Closes(ConnOf(i, "probe")) /\ UNCHANGED <<shown, removed>>
  BY <1>5, <1>7
<1>8. CASE child[i] = "mounting" /\ Closes(ConnOf(i, "mount")) /\ UNCHANGED <<shown, removed>>
  BY <1>5, <1>8
<1> QED
  BY <1>3, <1>4, <1>6, <1>7, <1>8 DEF Leaves

LEMMA MovesKeep ==
  ASSUME LaunchInv, NEW i \in Instance, Goes(i), Leaves(i)
  PROVE  LaunchInv'
<1> USE DEF LaunchInv
<1>1. /\ UNCHANGED shown \/ (step[i] \in Steps(i) /\ \E what \in SUBSET (Path \cup Port) : Shows(i, what))
      /\ removed' \in [Instance -> SUBSET Path]
      /\ UNCHANGED conn \/ \E c \in Conn : Closes(c)
      /\ \A c \in Conn : c[1] = i => conn[c] # "queued"
  BY WhatIsLeft
<1>2. PICK to \in {"next", "mute", "mount"}, n \in Nat \ {0} :
        /\ ChildMoves(i, to, n) /\ n <= Len(Plan[i]) + 1
        /\ \/ to = "mute"
           \/ to = "next" /\ (n = step[i] + 1 \/ child[i] = "forked")
           \/ to = "mount" /\ n = step[i] /\ child[i] = "probing"
  <2>1. step[i] \in Nat \ {0} /\ step[i] <= Len(Plan[i]) + 1 /\ Len(Plan[i]) \in Nat
    BY PlanSteps DEF TypeOK
  <2>2. 1 \in Nat \ {0} /\ 1 <= Len(Plan[i]) + 1
    BY <2>1
  <2>3. step[i] \in Steps(i) => step[i] + 1 \in Nat \ {0} /\ step[i] + 1 <= Len(Plan[i]) + 1
    BY <2>1 DEF Steps
  <2>4. CASE ChildMoves(i, "mute", step[i])
    BY <2>1, <2>4
  <2>5. CASE ChildMoves(i, "next", 1) /\ child[i] = "forked"
    BY <2>2, <2>5
  <2>6. CASE ChildMoves(i, "next", step[i] + 1) /\ step[i] \in Steps(i)
    BY <2>3, <2>6
  <2>7. CASE ChildMoves(i, "mount", step[i]) /\ child[i] = "probing"
    BY <2>1, <2>7
  <2> QED
    BY <2>4, <2>5, <2>6, <2>7 DEF Goes
<1>3. child[i] \in {"forked", "next", "probing", "mount", "mounting"}
  BY DEF Goes
<1>4. /\ child' = [child EXCEPT ![i] = to] /\ step' = [step EXCEPT ![i] = n]
      /\ UNCHANGED <<parent, listener, queue, serving, inherited, locked>>
  BY <1>2 DEF ChildMoves
<1>5. child' \in [Instance -> ChildLabel] /\ child'[i] = to /\ \A j \in Instance : j # i => child'[j] = child[j]
  BY <1>4 DEF TypeOK, ChildLabel
<1>6. step' \in [Instance -> Nat \ {0}] /\ step'[i] = n /\ \A j \in Instance : j # i => step'[j] = step[j]
  BY <1>4 DEF TypeOK
<1>7. /\ conn' \in [Conn -> {"none", "queued", "served", "closed", "broken", "stuck"}]
      /\ \A c \in Conn : \/ conn'[c] = conn[c]
                         \/ conn[c] = "served" /\ conn'[c] = "closed"
                         \/ conn[c] = "broken" /\ conn'[c] = "none"
  BY <1>1 DEF TypeOK, Closes
<1>8. Forked(i) /\ \A j \in Instance : Forked(j)' <=> Forked(j)
  BY <1>5, <1>3 DEF Forked, ChildLabel
<1>9. /\ shown' \in [Instance -> SUBSET [step : Nat, what : SUBSET (Path \cup Port)]]
      /\ \A j \in Instance : \A s \in shown'[j] : s.step \in Steps(j)
  <2>1. CASE UNCHANGED shown
    BY <2>1 DEF TypeOK
  <2>2. CASE step[i] \in Steps(i) /\ \E what \in SUBSET (Path \cup Port) : Shows(i, what)
    <3>1. PICK what \in SUBSET (Path \cup Port) : Shows(i, what)
      BY <2>2
    <3> DEFINE more == shown[i] \cup {[step |-> step[i], what |-> what]}
    <3>2. shown' = [shown EXCEPT ![i] = more]
      BY <3>1 DEF Shows
    <3>3. step[i] \in Nat /\ [step |-> step[i], what |-> what] \in [step : Nat, what : SUBSET (Path \cup Port)]
      BY DEF TypeOK
    <3>4. more \in SUBSET [step : Nat, what : SUBSET (Path \cup Port)] /\ \A s \in more : s.step \in Steps(i)
      BY <2>2, <3>3 DEF TypeOK
    <3> HIDE DEF more
    <3> QED
      BY <3>2, <3>4 DEF TypeOK
  <2> QED
    BY <1>1, <2>1, <2>2
<1>10. TypeOK'
  <2>1. \A j \in Instance : step'[j] <= Len(Plan[j]) + 1
    BY <1>6, <1>2 DEF TypeOK
  <2> QED
    BY <1>4, <1>5, <1>6, <1>7, <1>9, <1>1, <2>1 DEF TypeOK
<1>11. Labels'
  <2> SUFFICES ASSUME NEW j \in Instance
               PROVE  /\ child'[j] # "none" => j \in Command /\ parent[j] \in {"leaving", "gone"}
                      /\ child'[j] \in {"probing", "mount", "mounting"} =>
                           step'[j] \in Steps(j) /\ Plan[j][step'[j]].kind = "p9"
    BY <1>4 DEF Labels
  <2> QED
    BY <1>5, <1>6, <1>2, <1>3 DEF Labels
<1>12. Owners' /\ Heirs'
  <2>1. Owners'
    <3>1. \A p \in Port : listener[p] # Nobody => listener[p].owner \in Instance
      BY ListenerMade DEF TypeOK
    <3> QED
      BY <1>4, <1>8, <3>1 DEF Owners
  <2>2. \A c \in Conn : conn'[c] = "stuck" => conn[c] = "stuck"
    BY <1>7
  <2> QED
    BY <1>4, <1>8, <2>1, <2>2 DEF Heirs
<1>13. Dials'
  <2> SUFFICES ASSUME NEW c \in Conn, conn'[c] # "none"
               PROVE  /\ Dialled(c)'
                      /\ conn'[c] = "queued" =>
                           /\ c[2] = step'[c[1]]
                           /\ \/ child'[c[1]] = "probing" /\ c[3] = "probe"
                              \/ child'[c[1]] = "mounting" /\ c[3] = "mount"
    BY DEF Dials
  <2>1. /\ conn[c] # "none" /\ Dialled(c) /\ c[1] \in Instance /\ c[2] \in Nat
        /\ conn'[c] = "queued" => conn[c] = "queued" /\ c[1] # i
    BY <1>7, <1>1, ConnParts DEF Dials
  <2>2. CASE c[1] = i
    <3>1. step[i] \in Nat
      BY DEF TypeOK
    <3>2. CASE to = "mute"
      BY <1>5, <2>1, <2>2, <3>2 DEF Dialled
    <3>3. CASE to = "next"
      <4>1. child[i] # "forked" /\ n = step[i] + 1 /\ c[2] <= step[i]
        BY <1>2, <1>3, <2>1, <2>2, <3>1, <3>3 DEF Dialled
      <4>2. c[2] < n
        BY <2>1, <3>1, <4>1
      <4> QED
        BY <1>5, <1>6, <2>1, <2>2, <3>3, <4>2 DEF Dialled
    <3>4. CASE to = "mount"
      <4>1. n = step[i] /\ (c[2] < step[i] \/ (c[2] = step[i] /\ c[3] = "probe"))
        BY <1>2, <2>1, <2>2, <3>4 DEF Dialled
      <4> QED
        BY <1>5, <1>6, <2>1, <2>2, <3>4, <4>1 DEF Dialled
    <3> QED
      BY <3>2, <3>3, <3>4
  <2>3. CASE c[1] # i
    BY <1>5, <1>6, <2>1, <2>3 DEF Dials, Dialled
  <2> QED
    BY <2>2, <2>3
<1>14. Lines'
  <2>1. \A c \in Conn : conn'[c] = "queued" <=> conn[c] = "queued"
    BY <1>7
  <2>2. \A p \in Port : \A k \in 1..Len(queue[p]) : queue[p][k] \in Conn
    BY ElementOfSeq DEF TypeOK
  <2> QED
    BY <1>4, <2>1, <2>2 DEF Lines
<1>15. Served'
  <2>1. \A p \in Port : serving[p] # Nobody => serving[p] \in Conn
    BY DEF TypeOK
  <2>2. \A c \in Conn : (conn'[c] = "served" => conn[c] = "served")
                        /\ (conn[c] \in {"served", "closed"} => conn'[c] \in {"served", "closed"})
    BY <1>7
  <2> QED
    BY <1>4, <2>1, <2>2 DEF Served
<1> QED
  BY <1>10, <1>11, <1>12, <1>13, <1>14, <1>15

\* The ways a child moves are of this kind.
LEMMA PrintsGo ==
  ASSUME NEW i \in Instance, NEW stream \in Stream, PrintsAndMoves(i, stream), step[i] \in Steps(i),
         child[i] \in {"next", "probing", "mount", "mounting"}
  PROVE  Goes(i)
BY DEF PrintsAndMoves, CanPrint, Goes

\* It waits for a server,
Waits(i) ==
  \E use \in {"probe", "mount"}, waiting \in {"probing", "mounting"} :
    /\ step[i] \in Steps(i) /\ Plan[i][step[i]].kind = "p9" /\ listener[Server(i)] # Nobody
    /\ \/ child[i] = "next" /\ use = "probe" /\ waiting = "probing"
       \/ child[i] = "mount" /\ use = "mount" /\ waiting = "mounting"
    /\ queue' = [queue EXCEPT ![Server(i)] = Append(queue[Server(i)], ConnOf(i, use))]
    /\ conn' = [conn EXCEPT ![ConnOf(i, use)] = "queued"]
    /\ child' = [child EXCEPT ![i] = waiting]
    /\ UNCHANGED <<parent, step, shown, removed, listener, serving, inherited, locked>>

\* or executes its command.
Executes(i) ==
  /\ child[i] = "next" /\ child' = [child EXCEPT ![i] = "running"]
  /\ ChildLets(i, {}) /\ UNCHANGED <<parent, step, shown, removed>>

LEMMA ChildDoes ==
  ASSUME LaunchInv, NEW i \in Instance, ChildStep(i)
  PROVE  \/ Goes(i) /\ Leaves(i)
         \/ Waits(i)
         \/ Executes(i)
         \/ ChildEnds(i) /\ child[i] \in {"forked", "next"}
<1>1. ASSUME GivesUp(i), child[i] \in {"forked", "next"}
      PROVE  (Goes(i) /\ Leaves(i)) \/ ChildEnds(i)
  BY <1>1 DEF GivesUp, CanPrint, Goes, Leaves
<1>2. ASSUME NEW use \in {"probe", "mount"}, NEW waiting \in {"probing", "mounting"}, Dial(i, use, waiting),
             step[i] \in Steps(i), Plan[i][step[i]].kind = "p9",
             \/ child[i] = "next" /\ use = "probe" /\ waiting = "probing"
             \/ child[i] = "mount" /\ use = "mount" /\ waiting = "mounting"
      PROVE  (Goes(i) /\ Leaves(i)) \/ Waits(i)
  <2>1. CASE PrintsAndMoves(i, "err") /\ UNCHANGED <<shown, removed, conn>>
    BY <1>2, <2>1, PrintsGo DEF Stream, Leaves
  <2>2. CASE /\ listener[Server(i)] # Nobody
             /\ queue' = [queue EXCEPT ![Server(i)] = Append(queue[Server(i)], ConnOf(i, use))]
             /\ conn' = [conn EXCEPT ![ConnOf(i, use)] = "queued"]
             /\ child' = [child EXCEPT ![i] = waiting]
             /\ UNCHANGED <<parent, step, shown, removed, listener, serving, inherited, locked>>
    BY <1>2, <2>2 DEF Waits
  <2> QED
    BY <1>2, <2>1, <2>2 DEF Dial
<1>3. CASE Unshare(i)
  <2>1. CASE GivesUp(i)
    BY <1>1, <1>3, <2>1 DEF Unshare
  <2>2. CASE ChildMoves(i, "next", 1) /\ UNCHANGED <<shown, removed, conn>>
    BY <1>3, <2>2 DEF Unshare, Goes, Leaves
  <2> QED
    BY <1>3, <2>1, <2>2 DEF Unshare
<1>4. CASE ReplayBind(i)
  <2>1. child[i] = "next" /\ step[i] \in Steps(i) /\ Leaves(i)
    BY <1>4 DEF ReplayBind, At, Leaves
  <2>2. CASE ChildMoves(i, "next", step[i] + 1)
    BY <2>1, <2>2 DEF Goes
  <2>3. CASE PrintsAndMoves(i, "err")
    BY <2>1, <2>3, PrintsGo DEF Stream
  <2> QED
    BY <1>4, <2>1, <2>2, <2>3 DEF ReplayBind
<1>5. CASE ReplayUnion(i)
  <2> DEFINE paths == Plan[i][step[i]].paths
  <2>1. child[i] = "next" /\ step[i] \in Steps(i) /\ At(i, "union")
    BY <1>5 DEF ReplayUnion, At
  <2>2. CASE GivesUp(i)
    BY <1>1, <2>1, <2>2
  <2>3. ASSUME UNCHANGED conn, NEW bound \in Binds(paths), NEW mounted \in BOOLEAN,
               IF (mounted /\ bound = DOMAIN paths) \/ CanPrint(i, "err")
               THEN LET seen == InSight(paths, bound)
                    IN  /\ ChildMoves(i, "next", step[i] + 1)
                        /\ removed' = [removed EXCEPT ![i] = @ \cup seen]
                        /\ IF mounted THEN Shows(i, seen \cap Slashed) ELSE UNCHANGED shown
               ELSE ChildMoves(i, "mute", step[i]) /\ UNCHANGED <<shown, removed>>
        PROVE  Goes(i) /\ Leaves(i)
    <3>1. CASE (mounted /\ bound = DOMAIN paths) \/ CanPrint(i, "err")
      <4>1. ChildMoves(i, "next", step[i] + 1) /\ Unites(i, paths)
        BY <2>3, <3>1 DEF Unites
      <4> HIDE DEF paths
      <4> QED
        BY <2>1, <2>3, <4>1 DEF Goes, Leaves, paths
    <3>2. CASE ~((mounted /\ bound = DOMAIN paths) \/ CanPrint(i, "err"))
      <4>1. ChildMoves(i, "mute", step[i]) /\ UNCHANGED <<shown, removed>> /\ locked[i] # {}
        BY <2>3, <3>2 DEF CanPrint
      <4> QED
        BY <2>1, <2>3, <4>1 DEF Goes, Leaves
    <3> QED
      BY <3>1, <3>2
  <2> QED
    BY <1>5, <2>2, <2>3 DEF ReplayUnion
<1>6. CASE Probe(i)
  BY <1>2, <1>6 DEF Probe, At
<1>7. CASE ProbeEnds(i)
  <2> DEFINE c == ConnOf(i, "probe")
  <2>1. child[i] = "probing" /\ step[i] \in Steps(i) /\ UNCHANGED <<shown, removed>>
    BY <1>7 DEF ProbeEnds, LaunchInv, Labels
  <2>2. Closes(c) /\ (ChildMoves(i, "mount", step[i]) \/ PrintsAndMoves(i, "err"))
    BY <1>7 DEF ProbeEnds, Closes
  <2>3. Leaves(i)
    BY <2>1, <2>2 DEF Leaves
  <2>4. Goes(i)
    <3>1. CASE ChildMoves(i, "mount", step[i])
      BY <2>1, <3>1 DEF Goes
    <3>2. CASE PrintsAndMoves(i, "err")
      BY <2>1, <3>2, PrintsGo DEF Stream
    <3> QED
      BY <2>2, <3>1, <3>2
  <2> QED
    BY <2>3, <2>4
<1>8. CASE Mount(i)
  <2>1. child[i] = "mount" /\ step[i] \in Steps(i) /\ Plan[i][step[i]].kind = "p9"
    BY <1>8 DEF Mount, LaunchInv, Labels
  <2>2. CASE Dial(i, "mount", "mounting")
    BY <1>2, <2>1, <2>2
  <2>3. CASE PrintsAndMoves(i, "err") /\ UNCHANGED <<shown, removed, conn>>
    BY <2>1, <2>3, PrintsGo DEF Stream, Leaves
  <2> QED
    BY <1>8, <2>2, <2>3 DEF Mount
<1>9. CASE MountEnds(i)
  <2>1. child[i] = "mounting" /\ step[i] \in Steps(i) /\ UNCHANGED removed
    BY <1>9 DEF MountEnds, LaunchInv, Labels
  <2>2. PrintsAndMoves(i, "out") \/ PrintsAndMoves(i, "err")
    BY <1>9 DEF MountEnds
  <2>3. Goes(i)
    BY <2>1, <2>2, PrintsGo DEF Stream
  <2>4. Leaves(i)
    BY <1>9, <2>1 DEF MountEnds, Leaves, Closes
  <2> QED
    BY <2>3, <2>4
<1>10. CASE Exec(i)
  BY <1>1, <1>10 DEF Exec, Executes
<1> QED
  BY <1>3, <1>4, <1>5, <1>6, <1>7, <1>8, <1>9, <1>10 DEF ChildStep

\* A connection that is opened is new, and goes to the end of the queue of a listener.
LEMMA WaitsKeep ==
  ASSUME LaunchInv, NEW i \in Instance, Waits(i)
  PROVE  LaunchInv'
<1> USE DEF LaunchInv
<1>1. PICK use \in {"probe", "mount"}, waiting \in {"probing", "mounting"} :
        /\ step[i] \in Steps(i) /\ Plan[i][step[i]].kind = "p9" /\ listener[Server(i)] # Nobody
        /\ \/ child[i] = "next" /\ use = "probe" /\ waiting = "probing"
           \/ child[i] = "mount" /\ use = "mount" /\ waiting = "mounting"
        /\ queue' = [queue EXCEPT ![Server(i)] = Append(queue[Server(i)], ConnOf(i, use))]
        /\ conn' = [conn EXCEPT ![ConnOf(i, use)] = "queued"]
        /\ child' = [child EXCEPT ![i] = waiting]
        /\ UNCHANGED <<parent, step, shown, removed, listener, serving, inherited, locked>>
  BY DEF Waits
<1> DEFINE p == Server(i)
           c == ConnOf(i, use)
<1>2. /\ p \in Port /\ listener[p] # Nobody
      /\ queue' = [queue EXCEPT ![p] = Append(queue[p], c)] /\ conn' = [conn EXCEPT ![c] = "queued"]
      /\ child' = [child EXCEPT ![i] = waiting]
      /\ UNCHANGED <<parent, step, shown, removed, listener, serving, inherited, locked>>
  BY <1>1, StepParts DEF Server
<1>3. \A d \in Conn : d[1] = i => conn[d] # "queued"
  BY <1>1, NoneWaits
<1>4. i \in Command /\ Forked(i)
  BY <1>1 DEF Labels, Forked, ChildLabel
<1>5. c \in Conn /\ c[1] = i /\ c[2] = step[i] /\ c[3] = use
  BY <1>1, <1>4, ConnMade DEF ConnOf
<1>6. conn[c] = "none"
  <2>1. step[i] \in Nat
    BY DEF TypeOK
  <2>2. ~Dialled(c)
    BY <1>1, <1>5, <2>1 DEF Dialled
  <2> QED
    BY <1>5, <2>2 DEF Dials
<1> HIDE DEF c, p
<1>7. child' \in [Instance -> ChildLabel] /\ child'[i] = waiting /\ \A j \in Instance : j # i => child'[j] = child[j]
  BY <1>2 DEF TypeOK, ChildLabel
<1>8. \A j \in Instance : Forked(j)' <=> Forked(j)
  BY <1>4, <1>7 DEF Forked, ChildLabel
<1>9. /\ conn' \in [Conn -> {"none", "queued", "served", "closed", "broken", "stuck"}]
      /\ conn'[c] = "queued" /\ \A d \in Conn : d # c => conn'[d] = conn[d]
  BY <1>2, <1>5 DEF TypeOK
<1>10. /\ queue[p] \in Seq(Conn) /\ Len(queue[p]) \in Nat
      /\ queue'[p] = Append(queue[p], c) /\ \A q \in Port : q # p => queue'[q] = queue[q]
      /\ queue' \in [Port -> Seq(Conn)]
  <2>1. queue[p] \in Seq(Conn) /\ Append(queue[p], c) \in Seq(Conn)
    BY <1>2, <1>5, AppendProperties DEF TypeOK
  <2> QED
    BY <1>2, <2>1, LenProperties DEF TypeOK
<1>11. /\ Len(queue'[p]) = Len(queue[p]) + 1 /\ queue'[p][Len(queue[p]) + 1] = c
      /\ \A n \in 1..Len(queue[p]) : queue'[p][n] = queue[p][n]
  BY <1>5, <1>10, AppendProperties
<1>12. TypeOK'
  BY <1>2, <1>7, <1>9, <1>10 DEF TypeOK
<1>13. Labels'
  <2> SUFFICES ASSUME NEW j \in Instance
               PROVE  /\ child'[j] # "none" => j \in Command /\ parent[j] \in {"leaving", "gone"}
                      /\ child'[j] \in {"probing", "mount", "mounting"} => step[j] \in Steps(j) /\ Plan[j][step[j]].kind = "p9"
    BY <1>2 DEF Labels
  <2> QED
    BY <1>1, <1>4, <1>7, <1>8 DEF Labels
<1>14. Owners' /\ Heirs'
  <2>1. \A q \in Port : listener[q] # Nobody => listener[q].owner \in Instance
    BY ListenerMade DEF TypeOK
  <2>2. \A d \in Conn : conn'[d] = "stuck" => conn[d] = "stuck"
    BY <1>9
  <2> QED
    BY <1>2, <1>8, <2>1, <2>2 DEF Owners, Heirs
<1>15. Dials'
  <2> SUFFICES ASSUME NEW d \in Conn, conn'[d] # "none"
               PROVE  /\ Dialled(d)'
                      /\ conn'[d] = "queued" =>
                           /\ d[2] = step[d[1]]
                           /\ \/ child'[d[1]] = "probing" /\ d[3] = "probe"
                              \/ child'[d[1]] = "mounting" /\ d[3] = "mount"
    BY <1>2 DEF Dials
  <2>1. CASE d = c
    BY <1>1, <1>2, <1>5, <1>7, <2>1 DEF Dialled
  <2>2. CASE d # c /\ d[1] = i
    <3>1. conn[d] # "none" /\ conn[d] # "queued" /\ conn'[d] = conn[d] /\ Dialled(d)
      BY <1>3, <1>9, <2>2 DEF Dials
    <3> QED
      BY <1>1, <1>2, <1>7, <2>2, <3>1 DEF Dialled
  <2>3. CASE d[1] # i
    <3>1. d # c /\ d[1] \in Instance
      BY <1>5, <2>3, ConnParts
    <3> QED
      BY <1>2, <1>7, <1>9, <2>3, <3>1 DEF Dials, Dialled
  <2> QED
    BY <2>1, <2>2, <2>3
<1>16. Lines'
  <2>1. \A q \in Port : queue'[q] # << >> => listener[q] # Nobody
    BY <1>2, <1>10 DEF Lines, p
  <2>2. \A q \in Port : \A n \in 1..Len(queue'[q]) :
          \/ n \in 1..Len(queue[q]) /\ queue'[q][n] = queue[q][n] /\ queue[q][n] # c /\ queue[q][n] \in Conn
          \/ q = p /\ n = Len(queue[p]) + 1 /\ queue'[q][n] = c
    <3> SUFFICES ASSUME NEW q \in Port, NEW n \in 1..Len(queue'[q])
                 PROVE  \/ n \in 1..Len(queue[q]) /\ queue'[q][n] = queue[q][n] /\ queue[q][n] # c /\ queue[q][n] \in Conn
                        \/ q = p /\ n = Len(queue[p]) + 1 /\ queue'[q][n] = c
      OBVIOUS
    <3>1. \/ n \in 1..Len(queue[q]) /\ queue'[q][n] = queue[q][n]
          \/ q = p /\ n = Len(queue[p]) + 1 /\ queue'[q][n] = c
      BY <1>10, <1>11
    <3>2. n \in 1..Len(queue[q]) => queue[q][n] # c /\ queue[q][n] \in Conn
      BY <1>6, ElementOfSeq DEF Lines, TypeOK
    <3> QED
      BY <3>1, <3>2
  <2>3. \A q \in Port : \A n \in 1..Len(queue'[q]) : conn'[queue'[q][n]] = "queued"
    BY <1>9, <2>2 DEF Lines
  <2>4. \A q, r \in Port : \A m \in 1..Len(queue'[q]), n \in 1..Len(queue'[r]) :
          queue'[q][m] = queue'[r][n] => q = r /\ m = n
    <3> SUFFICES ASSUME NEW q \in Port, NEW r \in Port, NEW m \in 1..Len(queue'[q]), NEW n \in 1..Len(queue'[r]),
                        queue'[q][m] = queue'[r][n]
                 PROVE  q = r /\ m = n
      OBVIOUS
    <3>1. CASE queue'[q][m] = c
      BY <2>2, <3>1
    <3>2. CASE queue'[q][m] # c
      BY <2>2, <3>2 DEF Lines
    <3> QED
      BY <3>1, <3>2
  <2>5. ASSUME NEW d \in Conn, conn'[d] = "queued"
        PROVE  \E q \in Port : \E n \in 1..Len(queue'[q]) : queue'[q][n] = d
    <3>1. CASE d = c
      <4>1. Len(queue[p]) + 1 \in 1..Len(queue'[p])
        BY <1>10, <1>11
      <4> QED
        BY <1>2, <1>11, <3>1, <4>1 DEF p
    <3>2. CASE d # c
      <4>1. conn[d] = "queued"
        BY <1>9, <2>5, <3>2
      <4>2. PICK q \in Port : \E n \in 1..Len(queue[q]) : queue[q][n] = d
        BY <4>1 DEF Lines
      <4>3. PICK n \in 1..Len(queue[q]) : queue[q][n] = d
        BY <4>2
      <4>4. n \in 1..Len(queue'[q]) /\ queue'[q][n] = d
        BY <1>10, <1>11, <4>3
      <4> QED
        BY <4>4
    <3> QED
      BY <3>1, <3>2
  <2> QED
    BY <1>2, <2>1, <2>3, <2>4, <2>5 DEF Lines
<1>17. Served'
  <2>1. \A q \in Port : serving[q] # Nobody => serving[q] # c
    BY <1>6 DEF Served
  <2>2. \A q \in Port : serving[q] # Nobody => serving[q] \in Conn
    BY DEF TypeOK
  <2> QED
    BY <1>2, <1>9, <2>1, <2>2 DEF Served
<1> QED
  BY <1>12, <1>13, <1>14, <1>15, <1>16, <1>17

LEMMA EndKeeps ==
  ASSUME LaunchInv, NEW i \in Instance, ChildEnds(i), child[i] \in {"forked", "next", "running"}
  PROVE  LaunchInv'
<1>1. /\ child' = [child EXCEPT ![i] = "ended"] /\ ChildLets(i, OwnConns(i)) /\ UNCHANGED parent
      /\ shown' = [shown EXCEPT ![i] = {}] /\ removed' = [removed EXCEPT ![i] = {}]
      /\ step' = [step EXCEPT ![i] = 1]
  BY DEF ChildEnds
<1> QED
  BY <1>1, ChildLetsKeeps

LEMMA ExecutesKeep ==
  ASSUME LaunchInv, NEW i \in Instance, Executes(i)
  PROVE  LaunchInv'
BY ChildLetsKeeps DEF Executes

(***************************************************************************)
(* So the invariant holds                                                  *)
(***************************************************************************)
LEMMA LaunchStarts == Init => LaunchInv
<1> SUFFICES ASSUME Init PROVE LaunchInv
  OBVIOUS
<1>1. TypeOK
  <2>1. \A i \in Instance : 1 <= Len(Plan[i]) + 1
    BY PlanSteps
  <2> QED
    BY <2>1, EmptySeq DEF Init, TypeOK, ParentLabel, ChildLabel
<1>2. Labels /\ Owners /\ Heirs /\ Dials
  BY DEF Init, Labels, Owners, Heirs, Dials, Forked
<1>3. Lines /\ Served
  <2>1. \A p \in Port : queue[p] = << >> /\ 1..Len(queue[p]) = {} /\ serving[p] = Nobody
    BY EmptySeq DEF Init
  <2> QED
    BY <2>1 DEF Init, Lines, Served
<1> QED
  BY <1>1, <1>2, <1>3 DEF LaunchInv

LEMMA StepKeepsLaunch == LaunchInv /\ [Next]_vars => LaunchInv'
<1> SUFFICES ASSUME LaunchInv, [Next]_vars PROVE LaunchInv'
  OBVIOUS
<1>1. ASSUME NEW i \in Instance, StartProcfs(i) PROVE LaunchInv'
  BY <1>1, StartKeeps DEF StartProcfs, Port
<1>2. ASSUME NEW i \in Instance, StartSrvfs(i) PROVE LaunchInv'
  BY <1>2, StartKeeps DEF StartSrvfs, Port
<1>3. CASE UNCHANGED vars
  BY <1>3 DEF vars, LaunchInv, TypeOK, Labels, Owners, Heirs, Dials, Dialled, Lines, Served, Forked
<1> QED
  BY <1>1, <1>2, <1>3, ForkKeeps, ParentGoesKeeps, ChildDoes, MovesKeep, WaitsKeep,
     ExecutesKeep, EndKeeps, AcceptKeeps, FinishKeeps DEF Next, CommandEnds

LEMMA LaunchInvariant == Spec => []LaunchInv
BY LaunchStarts, StepKeepsLaunch, PTL DEF Spec

(***************************************************************************)
(* What a child has mounted                                                *)
(***************************************************************************)
\* A connection waits, and is served, at the port of its step.
PortOf(c) == Plan[c[1]][c[2]].port

Routes ==
  \A p \in Port :
    /\ \A n \in 1..Len(queue[p]) : PortOf(queue[p][n]) = p
    /\ serving[p] # Nobody => PortOf(serving[p]) = p

\* A mount is of a step that the child is through with, and its connection is not closed.
Mounted ==
  \A i \in Instance : \A s \in shown[i] :
    /\ child[i] \in {"mute", "running"} \/ (child[i] \in {"next", "probing", "mount", "mounting"} /\ s.step < step[i])
    /\ Plan[i][s.step].kind = "p9" =>
         <<i, s.step, "mount">> \in Conn /\ conn[<<i, s.step, "mount">>] \in {"served", "broken", "stuck"}

\* A child that cannot print has got a lock, and who had it was busy with another launch.
Locks ==
  \A i \in Instance :
    /\ child[i] = "mute" => locked[i] # {}
    /\ locked[i] # {} => \E c \in inherited[i] : c[1] # i

LEMMA RoutesStay ==
  ASSUME TypeOK, Routes,
         \A p \in Port : queue'[p] = queue[p] \/ queue'[p] = << >>,
         \A p \in Port : serving'[p] = serving[p] \/ serving'[p] = Nobody
  PROVE  Routes'
<1> SUFFICES ASSUME NEW p \in Port
             PROVE  /\ \A n \in 1..Len(queue'[p]) : PortOf(queue'[p][n]) = p
                    /\ serving'[p] # Nobody => PortOf(serving'[p]) = p
  BY DEF Routes, PortOf
<1>1. 1..Len(<< >>) = {}
  BY EmptySeq
<1> QED
  BY <1>1 DEF Routes

\* What closing sockets does to the queues.
LEMMA ClosingEmpties ==
  ASSUME NEW i \in Instance, NEW who, CloseListeners(i, who)
  PROVE  \A p \in Port : queue'[p] = queue[p] \/ queue'[p] = << >>
BY DEF CloseListeners

LEMMA AcceptRoutes ==
  ASSUME TypeOK, Routes, NEW p \in Port, Accept(p)
  PROVE  Routes'
<1>1. /\ queue[p] \in Seq(Conn) /\ queue[p] # << >>
      /\ queue' = [queue EXCEPT ![p] = Tail(queue[p])] /\ serving' = [serving EXCEPT ![p] = Head(queue[p])]
  BY DEF Accept, TypeOK
<1>2. /\ Head(queue[p]) = queue[p][1] /\ 1 \in 1..Len(queue[p])
      /\ Len(Tail(queue[p])) = Len(queue[p]) - 1 /\ Len(queue[p]) \in Nat
      /\ \A n \in 1..(Len(queue[p]) - 1) : Tail(queue[p])[n] = queue[p][n + 1] /\ n + 1 \in 1..Len(queue[p])
  BY <1>1, HeadTailProperties, EmptySeq, LenProperties
<1> SUFFICES ASSUME NEW q \in Port
             PROVE  /\ \A n \in 1..Len(queue'[q]) : PortOf(queue'[q][n]) = q
                    /\ serving'[q] # Nobody => PortOf(serving'[q]) = q
  BY DEF Routes, PortOf
<1>3. CASE q = p
  <2>1. queue'[p] = Tail(queue[p]) /\ serving'[p] = queue[p][1]
    BY <1>1, <1>2 DEF TypeOK
  <2>2. \A n \in 1..(Len(queue[p]) - 1) : PortOf(queue[p][n + 1]) = p
    BY <1>2 DEF Routes
  <2>3. \A n \in 1..(Len(queue[p]) - 1) : PortOf(Tail(queue[p])[n]) = p
    BY <1>2, <2>2
  <2>4. PortOf(queue[p][1]) = p
    BY <1>2 DEF Routes
  <2> QED
    BY <1>2, <1>3, <2>1, <2>3, <2>4
<1>4. CASE q # p
  <2>1. queue'[q] = queue[q] /\ serving'[q] = serving[q]
    BY <1>1, <1>4 DEF TypeOK
  <2> QED
    BY <2>1 DEF Routes
<1> QED
  BY <1>3, <1>4

LEMMA WaitsRoutes ==
  ASSUME LaunchInv, Routes, NEW i \in Instance, Waits(i)
  PROVE  Routes'
<1>1. PICK use \in {"probe", "mount"} :
        /\ queue' = [queue EXCEPT ![Server(i)] = Append(queue[Server(i)], ConnOf(i, use))]
        /\ step[i] \in Steps(i) /\ Plan[i][step[i]].kind = "p9" /\ UNCHANGED serving
        /\ child[i] \in {"next", "mount"}
  BY DEF Waits
<1> DEFINE p == Server(i)
           c == ConnOf(i, use)
<1> USE DEF LaunchInv
<1>2. p \in Port
  BY <1>1, StepParts DEF Server
<1>3. PortOf(c) = p
  BY DEF PortOf, ConnOf, Server
<1>4. c \in Conn
  <2>1. i \in Command
    BY <1>1 DEF Labels
  <2> QED
    BY <1>1, <2>1, ConnMade DEF ConnOf
<1>5. queue' = [queue EXCEPT ![p] = Append(queue[p], c)]
  BY <1>1
<1> HIDE DEF p, c
<1>6. /\ queue'[p] = Append(queue[p], c) /\ \A q \in Port : q # p => queue'[q] = queue[q]
      /\ queue[p] \in Seq(Conn)
  BY <1>2, <1>5 DEF TypeOK
<1>7. /\ Len(queue[p]) \in Nat /\ Len(Append(queue[p], c)) = Len(queue[p]) + 1
      /\ Append(queue[p], c)[Len(queue[p]) + 1] = c
      /\ \A n \in 1..Len(queue[p]) : Append(queue[p], c)[n] = queue[p][n]
  BY <1>6, <1>4, AppendProperties, LenProperties
<1> SUFFICES ASSUME NEW q \in Port
             PROVE  /\ \A n \in 1..Len(queue'[q]) : PortOf(queue'[q][n]) = q
                    /\ serving'[q] # Nobody => PortOf(serving'[q]) = q
  BY DEF Routes, PortOf
<1>8. serving'[q] # Nobody => PortOf(serving'[q]) = q
  BY <1>1 DEF Routes
<1>9. CASE q = p
  <2>1. ASSUME NEW n \in 1..(Len(queue[p]) + 1) PROVE PortOf(Append(queue[p], c)[n]) = p
    <3>1. CASE n = Len(queue[p]) + 1
      BY <1>3, <1>7, <3>1
    <3>2. CASE n \in 1..Len(queue[p])
      BY <1>2, <1>7, <3>2 DEF Routes
    <3> QED
      BY <1>7, <3>1, <3>2
  <2> QED
    BY <1>6, <1>7, <1>8, <1>9, <2>1
<1>10. CASE q # p
  BY <1>6, <1>8, <1>10 DEF Routes
<1> QED
  BY <1>9, <1>10

\* Mounts stay as they are where the child and its connections do; others than a child's own
\* steps only break its connections or leave them half-open.
LEMMA MountsStay ==
  ASSUME TypeOK, Mounted, UNCHANGED <<child, step, shown>>,
         \A c \in Conn : conn[c] \in {"served", "broken", "stuck"} => conn'[c] \in {"served", "broken", "stuck"}
  PROVE  Mounted'
BY DEF Mounted

\* The locks too.
LEMMA LocksStay ==
  ASSUME Locks, UNCHANGED <<child, locked, inherited>>
  PROVE  Locks'
BY DEF Locks

MountInv == Routes /\ Mounted /\ Locks

LEMMA ServersKeepMounts ==
  ASSUME LaunchInv, MountInv,
         \/ \E i \in Instance : StartProcfs(i) \/ StartSrvfs(i)
         \/ \E p \in Port : Accept(p) \/ Finish(p)
  PROVE  MountInv'
<1>1. TypeOK /\ Routes /\ Mounted /\ Locks
  BY DEF LaunchInv, MountInv
<1>2. CASE \E i \in Instance : StartProcfs(i) \/ StartSrvfs(i)
  <2>1. UNCHANGED <<child, step, shown, queue, serving, conn, inherited, locked>>
    BY <1>2 DEF StartProcfs, StartSrvfs
  <2> QED
    BY <1>1, <2>1, RoutesStay, MountsStay, LocksStay DEF MountInv
<1>3. ASSUME NEW p \in Port, Accept(p) PROVE MountInv'
  <2>1. /\ UNCHANGED <<child, step, shown, inherited, locked>>
        /\ conn' = [conn EXCEPT ![Head(queue[p])] = "served"]
    BY <1>3 DEF Accept
  <2>2. \A c \in Conn : conn[c] \in {"served", "broken", "stuck"} => conn'[c] \in {"served", "broken", "stuck"}
    BY <1>1, <2>1 DEF TypeOK
  <2> QED
    BY <1>1, <1>3, <2>1, <2>2, AcceptRoutes, MountsStay, LocksStay DEF MountInv
<1>4. ASSUME NEW p \in Port, Finish(p) PROVE MountInv'
  <2>1. /\ UNCHANGED <<child, step, shown, queue, inherited, locked>>
        /\ serving' = [serving EXCEPT ![p] = Nobody]
        /\ conn[serving[p]] = "closed" /\ conn' = [conn EXCEPT ![serving[p]] = "none"]
    BY <1>4 DEF Finish
  <2>2. \A c \in Conn : conn[c] \in {"served", "broken", "stuck"} => conn'[c] = conn[c]
    BY <1>1, <2>1 DEF TypeOK
  <2>3. \A q \in Port : serving'[q] = serving[q] \/ serving'[q] = Nobody
    BY <1>1, <2>1 DEF TypeOK
  <2> QED
    BY <1>1, <2>1, <2>2, <2>3, RoutesStay, MountsStay, LocksStay DEF MountInv
<1> QED
  BY <1>2, <1>3, <1>4

LEMMA ParentKeepsMounts ==
  ASSUME LaunchInv, MountInv, NEW i \in Instance, ParentExits(i)
  PROVE  MountInv'
<1>1. TypeOK /\ Routes /\ Mounted /\ Locks
  BY DEF LaunchInv, MountInv
<1>2. /\ UNCHANGED <<child, step, shown, inherited, locked>> /\ CloseListeners(i, "parent")
      /\ serving' = [p \in Port |-> IF p \in Owned(i) THEN Nobody ELSE serving[p]]
  BY DEF ParentExits, ParentGoes
<1>3. \A c \in Conn : conn[c] \in {"served", "broken", "stuck"} => conn'[c] \in {"served", "broken", "stuck"}
  BY DEF ParentExits, ParentGoes
<1>4. Routes'
  BY <1>1, <1>2, ClosingEmpties, RoutesStay
<1> QED
  BY <1>1, <1>2, <1>3, <1>4, MountsStay, LocksStay DEF MountInv

\* Who is forked has opened no connection: whatever its servers are busy with is another's.
LEMMA ForkKeepsMounts ==
  ASSUME LaunchInv, MountInv, NEW i \in Instance, Fork(i)
  PROVE  MountInv'
<1>1. TypeOK /\ Routes /\ Mounted /\ Locks
  BY DEF LaunchInv, MountInv
<1>2. child[i] = "none" /\ shown[i] = {}
  <2>1. child[i] = "none"
    BY DEF Fork, LaunchInv, Labels
  <2> QED
    BY <1>1, <2>1 DEF Mounted
<1>3. UNCHANGED <<step, shown, queue, serving, conn>>
  BY DEF Fork
<1>4. PICK to \in {"forked", "ended"} : child' = [child EXCEPT ![i] = to]
  BY DEF Fork
<1>5. child'[i] = to /\ \A j \in Instance : j # i => child'[j] = child[j]
  BY <1>1, <1>4 DEF TypeOK
<1>6. Routes'
  BY <1>1, <1>3, RoutesStay
<1>7. Mounted'
  BY <1>1, <1>2, <1>3, <1>5 DEF Mounted
<1>8. Locks'
  <2>1. \A c \in Busy(i) : c[1] # i
    <3> SUFFICES ASSUME NEW c \in Busy(i) PROVE c[1] # i
      OBVIOUS
    <3>1. c \in Conn /\ conn[c] \in {"served", "closed"}
      BY <1>1 DEF Busy, Owned, LaunchInv, Served, TypeOK
    <3> QED
      BY <1>2, <3>1 DEF LaunchInv, Dials, Dialled
  <2>2. CASE UNCHANGED <<inherited, locked>>
    BY <1>1, <1>5, <2>2 DEF Locks
  <2>3. CASE /\ inherited' = [inherited EXCEPT ![i] = Busy(i)]
             /\ locked' \in {[locked EXCEPT ![i] = ls] : ls \in HeldBy(Busy(i))}
    <3>1. PICK ls \in HeldBy(Busy(i)) : locked' = [locked EXCEPT ![i] = ls]
      BY <2>3
    <3>2. ls # {} => Busy(i) # {}
      BY HeldStreams
    <3>3. inherited'[i] = Busy(i) /\ locked'[i] = ls
      BY <1>1, <2>3, <3>1 DEF TypeOK
    <3>4. \A j \in Instance : j # i => inherited'[j] = inherited[j] /\ locked'[j] = locked[j]
      BY <1>1, <2>3, <3>1 DEF TypeOK
    <3> QED
      BY <1>1, <1>5, <2>1, <3>2, <3>3, <3>4 DEF Locks
  <2> QED
    BY <2>2, <2>3 DEF Fork
<1> QED
  BY <1>6, <1>7, <1>8 DEF MountInv

\* A child that moves on closes no mount, and a new one is served.
LEMMA MovesKeepMounts ==
  ASSUME LaunchInv, MountInv, NEW i \in Instance, Goes(i), Leaves(i)
  PROVE  MountInv'
<1>1. TypeOK /\ Routes /\ Mounted /\ Locks
  BY DEF LaunchInv, MountInv
<1>2. PICK to \in {"mute", "next", "mount"}, n \in {1, step[i], step[i] + 1} :
        /\ ChildMoves(i, to, n)
        /\ \/ to = "mute" /\ n = step[i] /\ locked[i] # {}
           \/ to = "next" /\ n = 1 /\ child[i] = "forked"
           \/ to = "next" /\ n = step[i] + 1 /\ child[i] # "forked"
           \/ to = "mount" /\ n = step[i] /\ child[i] = "probing"
  BY DEF Goes
<1>3. /\ child[i] \in {"forked", "next", "probing", "mount", "mounting"}
      /\ UNCHANGED <<queue, serving, inherited, locked>> /\ step[i] \in Nat
      /\ child'[i] = to /\ step'[i] = n /\ \A j \in Instance : j # i => child'[j] = child[j] /\ step'[j] = step[j]
  BY <1>1, <1>2 DEF Goes, ChildMoves, TypeOK
<1>4. Routes'
  BY <1>1, <1>3, RoutesStay
<1>5. Locks'
  BY <1>1, <1>2, <1>3 DEF Locks
<1>6. Mounted'
  <2>1. ASSUME NEW j \in Instance, NEW s \in shown[j], s \in shown'[j]
        PROVE  child'[j] \in {"mute", "running"} \/ (child'[j] \in {"next", "probing", "mount", "mounting"} /\ s.step < step'[j])
    <3>1. s.step \in Nat
      BY <1>1 DEF TypeOK
    <3>2. CASE j # i
      BY <1>1, <1>3, <3>2 DEF Mounted
    <3>3. CASE j = i
      <4>1. child[i] # "forked" /\ s.step < step[i]
        BY <1>1, <1>3, <3>3 DEF Mounted
      <4>2. s.step < step[i] + 1
        BY <1>3, <3>1, <4>1
      <4> QED
        BY <1>2, <1>3, <3>3, <4>1, <4>2
    <3> QED
      BY <3>2, <3>3
  <2>2. ASSUME NEW j \in Instance, NEW s \in shown[j], Plan[j][s.step].kind = "p9",
               UNCHANGED conn \/ Closes(ConnOf(i, "probe")) \/ (child[i] = "mounting" /\ Closes(ConnOf(i, "mount")))
        PROVE  <<j, s.step, "mount">> \in Conn /\ conn'[<<j, s.step, "mount">>] \in {"served", "broken", "stuck"}
    <3> DEFINE c == <<j, s.step, "mount">>
    <3>1. c \in Conn /\ conn[c] \in {"served", "broken", "stuck"} /\ s.step \in Nat
      BY <1>1, <2>2 DEF Mounted, TypeOK
    <3>2. c # ConnOf(i, "probe")
      BY DEF ConnOf
    <3>3. child[i] = "mounting" => c # ConnOf(i, "mount")
      <4>1. child[i] = "mounting" /\ j = i => s.step < step[i]
        BY <1>1 DEF Mounted
      <4> QED
        BY <1>3, <3>1, <4>1 DEF ConnOf
    <3> HIDE DEF c
    <3>4. conn'[c] = conn[c]
      BY <1>1, <2>2, <3>1, <3>2, <3>3 DEF Closes, TypeOK
    <3> QED
      BY <3>1, <3>4 DEF c
  <2>3. CASE UNCHANGED shown /\ (UNCHANGED conn \/ Closes(ConnOf(i, "probe")) \/ (child[i] = "mounting" /\ Closes(ConnOf(i, "mount"))))
    BY <2>1, <2>2, <2>3 DEF Mounted
  <2>4. ASSUME NEW what, Shows(i, what), UNCHANGED conn, child[i] \in {"next", "mounting"}, step[i] \in Steps(i),
               Plan[i][step[i]].kind = "p9" =>
                 ConnOf(i, "mount") \in Conn /\ conn[ConnOf(i, "mount")] = "served"
        PROVE  Mounted'
    <3> DEFINE new == [step |-> step[i], what |-> what]
    <3>1. shown' = [shown EXCEPT ![i] = shown[i] \cup {new}]
      BY <2>4 DEF Shows
    <3>2. shown'[i] = shown[i] \cup {new} /\ \A j \in Instance : j # i => shown'[j] = shown[j]
      BY <1>1, <3>1 DEF TypeOK
    <3>3. new.step = step[i]
      OBVIOUS
    <3> HIDE DEF new
    <3> SUFFICES ASSUME NEW j \in Instance, NEW s \in shown'[j]
                 PROVE  /\ child'[j] \in {"mute", "running"} \/ (child'[j] \in {"next", "probing", "mount", "mounting"} /\ s.step < step'[j])
                        /\ Plan[j][s.step].kind = "p9" =>
                             <<j, s.step, "mount">> \in Conn /\ conn'[<<j, s.step, "mount">>] \in {"served", "broken", "stuck"}
      BY DEF Mounted
    <3>4. CASE s \in shown[j]
      BY <2>1, <2>2, <2>4, <3>4
    <3>5. CASE j = i /\ s = new
      <4>1. step[i] < step[i] + 1
        BY <1>3
      <4>2. to = "mute" \/ (to = "next" /\ n = step[i] + 1)
        BY <1>2, <2>4
      <4>3. Plan[i][step[i]].kind = "p9" =>
              <<i, step[i], "mount">> \in Conn /\ conn'[<<i, step[i], "mount">>] = "served"
        BY <2>4 DEF ConnOf
      <4> QED
        BY <1>3, <3>3, <3>5, <4>1, <4>2, <4>3
    <3> QED
      BY <3>2, <3>4, <3>5
  <2>5. CASE At(i, "union") /\ Unites(i, Plan[i][step[i]].paths) /\ UNCHANGED conn
    <3>1. child[i] = "next" /\ step[i] \in Steps(i) /\ Plan[i][step[i]].kind = "union"
      BY <2>5 DEF At
    <3>2. UNCHANGED shown \/ \E what : Shows(i, what)
      BY <2>5 DEF Unites
    <3> QED
      BY <2>3, <2>4, <2>5, <3>1, <3>2
  <2>6. CASE /\ child[i] = "mounting" /\ conn[ConnOf(i, "mount")] = "served"
             /\ Shows(i, {Server(i)}) /\ UNCHANGED <<removed, conn>>
    <3>1. step[i] \in Steps(i)
      BY <2>6 DEF LaunchInv, Labels
    <3>2. ConnOf(i, "mount") \in Conn
      BY <2>6, OneWaits
    <3> QED
      BY <2>4, <2>6, <3>1, <3>2
  <2> QED
    BY <2>3, <2>5, <2>6 DEF Leaves
<1> QED
  BY <1>4, <1>5, <1>6 DEF MountInv

LEMMA WaitsKeepMounts ==
  ASSUME LaunchInv, MountInv, NEW i \in Instance, Waits(i)
  PROVE  MountInv'
<1>1. TypeOK /\ Routes /\ Mounted /\ Locks
  BY DEF LaunchInv, MountInv
<1>2. PICK use \in {"probe", "mount"}, waiting \in {"probing", "mounting"} :
        /\ child[i] \in {"next", "mount"} /\ child' = [child EXCEPT ![i] = waiting]
        /\ conn' = [conn EXCEPT ![ConnOf(i, use)] = "queued"]
        /\ UNCHANGED <<step, shown, inherited, locked>>
  BY DEF Waits
<1>3. child'[i] = waiting /\ \A j \in Instance : j # i => child'[j] = child[j]
  BY <1>1, <1>2 DEF TypeOK
<1>4. Routes'
  BY <1>1, WaitsRoutes
<1>5. Locks'
  BY <1>1, <1>2, <1>3 DEF Locks
<1>6. Mounted'
  <2> SUFFICES ASSUME NEW j \in Instance, NEW s \in shown[j]
               PROVE  /\ child'[j] \in {"mute", "running"} \/ (child'[j] \in {"next", "probing", "mount", "mounting"} /\ s.step < step[j])
                      /\ Plan[j][s.step].kind = "p9" =>
                           <<j, s.step, "mount">> \in Conn /\ conn'[<<j, s.step, "mount">>] \in {"served", "broken", "stuck"}
    BY <1>2 DEF Mounted
  <2>1. child'[j] \in {"mute", "running"} \/ (child'[j] \in {"next", "probing", "mount", "mounting"} /\ s.step < step[j])
    BY <1>1, <1>2, <1>3 DEF Mounted
  <2>2. ASSUME Plan[j][s.step].kind = "p9"
        PROVE  <<j, s.step, "mount">> \in Conn /\ conn'[<<j, s.step, "mount">>] \in {"served", "broken", "stuck"}
    <3> DEFINE c == <<j, s.step, "mount">>
    <3>1. c \in Conn /\ conn[c] \in {"served", "broken", "stuck"} /\ s.step \in Nat /\ step[i] \in Nat
      BY <1>1, <2>2 DEF Mounted, TypeOK
    <3>2. c # ConnOf(i, use)
      <4>1. j = i => s.step < step[i]
        BY <1>1, <1>2 DEF Mounted
      <4> QED
        BY <3>1, <4>1 DEF ConnOf
    <3> HIDE DEF c
    <3>3. conn'[c] = conn[c]
      BY <1>1, <1>2, <3>1, <3>2 DEF TypeOK
    <3> QED
      BY <3>1, <3>3 DEF c
  <2> QED
    BY <2>1, <2>2
<1> QED
  BY <1>4, <1>5, <1>6 DEF MountInv

\* A child that ends takes its mounts with it; one that executes its command keeps them.
LEMMA LetsKeepMounts ==
  ASSUME LaunchInv, MountInv, NEW i \in Instance,
         \/ Executes(i)
         \/ ChildEnds(i) /\ child[i] \in {"forked", "next", "running"}
  PROVE  MountInv'
<1>1. TypeOK /\ Routes /\ Mounted /\ Locks
  BY DEF LaunchInv, MountInv
<1>2. PICK own \in {{}, OwnConns(i)}, to \in {"running", "ended"} :
        /\ ChildLets(i, own) /\ child' = [child EXCEPT ![i] = to]
        /\ \/ to = "running" /\ child[i] = "next" /\ own = {} /\ UNCHANGED <<step, shown>>
           \/ /\ to = "ended" /\ own = OwnConns(i)
              /\ shown' = [shown EXCEPT ![i] = {}] /\ step' = [step EXCEPT ![i] = 1]
  BY DEF Executes, ChildEnds
<1>3. child'[i] = to /\ \A j \in Instance : j # i => child'[j] = child[j] /\ step'[j] = step[j] /\ shown'[j] = shown[j]
  BY <1>1, <1>2 DEF TypeOK
<1>4. Routes'
  <2>1. CloseListeners(i, "child") /\ UNCHANGED serving
    BY <1>2 DEF ChildLets
  <2> QED
    BY <1>1, <2>1, ClosingEmpties, RoutesStay
<1>5. Locks'
  <2>1. inherited' = [inherited EXCEPT ![i] = {}] /\ locked' = [locked EXCEPT ![i] = {}]
    BY <1>2 DEF ChildLets
  <2>2. /\ locked'[i] = {} /\ child'[i] # "mute"
        /\ \A j \in Instance : j # i => inherited'[j] = inherited[j] /\ locked'[j] = locked[j]
    BY <1>1, <1>3, <2>1 DEF TypeOK
  <2> QED
    BY <1>1, <1>3, <2>2 DEF Locks
<1>6. Mounted'
  <2>1. \A c \in Conn : c \notin own /\ conn[c] \in {"served", "broken", "stuck"} => conn'[c] \in {"served", "broken", "stuck"}
    BY <1>2 DEF ChildLets
  <2> SUFFICES ASSUME NEW j \in Instance, NEW s \in shown'[j]
               PROVE  /\ child'[j] \in {"mute", "running"} \/ (child'[j] \in {"next", "probing", "mount", "mounting"} /\ s.step < step'[j])
                      /\ Plan[j][s.step].kind = "p9" =>
                           <<j, s.step, "mount">> \in Conn /\ conn'[<<j, s.step, "mount">>] \in {"served", "broken", "stuck"}
    BY DEF Mounted
  <2>2. CASE j = i
    <3>1. to = "running" /\ own = {} /\ s \in shown[i]
      BY <1>1, <1>2, <2>2 DEF TypeOK
    <3> QED
      BY <1>1, <1>3, <2>1, <2>2, <3>1 DEF Mounted
  <2>3. CASE j # i
    <3>1. s \in shown[j] /\ child'[j] = child[j] /\ step'[j] = step[j]
      BY <1>3, <2>3
    <3>2. <<j, s.step, "mount">> \notin own
      BY <1>2, <2>3 DEF OwnConns
    <3> QED
      BY <1>1, <2>1, <3>1, <3>2 DEF Mounted
  <2> QED
    BY <2>2, <2>3
<1> QED
  BY <1>4, <1>5, <1>6 DEF MountInv

LEMMA StepKeepsMounts == LaunchInv /\ MountInv /\ [Next]_vars => MountInv'
<1> SUFFICES ASSUME LaunchInv, MountInv, [Next]_vars PROVE MountInv'
  OBVIOUS
<1>1. CASE UNCHANGED vars
  BY <1>1 DEF vars, MountInv, Routes, Mounted, Locks
<1> QED
  BY <1>1, ServersKeepMounts, ParentKeepsMounts, ForkKeepsMounts, ChildDoes, MovesKeepMounts, WaitsKeepMounts,
     LetsKeepMounts DEF Next, CommandEnds

LEMMA MountInvariant == Spec => [](LaunchInv /\ MountInv)
<1>1. Init => MountInv
  <2> SUFFICES ASSUME Init PROVE MountInv
    OBVIOUS
  <2>1. \A p \in Port : 1..Len(queue[p]) = {} /\ serving[p] = Nobody
    BY EmptySeq DEF Init
  <2>2. \A i \in Instance : shown[i] = {} /\ locked[i] = {} /\ child[i] = "none"
    BY DEF Init
  <2> QED
    BY <2>1, <2>2 DEF MountInv, Routes, Mounted, Locks
<1> QED
  BY <1>1, LaunchStarts, StepKeepsLaunch, StepKeepsMounts, PTL DEF Spec

(***************************************************************************)
(* The theorems                                                            *)
(***************************************************************************)
\* Whatever the plans and however many launches there are, every variable of the launcher holds
\* what it is meant to: each queue connections of the plan's 9P steps, each port a listener
\* that some process has open.
THEOREM LauncherTypeCorrect == Spec => []TypeOK
BY LaunchInvariant, PTL DEF LaunchInv

\* No socket of 10_ns, listening or accepted, outlives both its parent and the child that has
\* still to execute its command (start_procfs_server, start_srvfs_server, fork and execvp).
THEOREM NothingOutlives == Spec => []NothingOutlivesTheLaunch
<1>1. LaunchInv => NothingOutlivesTheLaunch
  <2> SUFFICES ASSUME LaunchInv PROVE NothingOutlivesTheLaunch
    OBVIOUS
  <2>1. ASSUME NEW p \in Port, listener[p] # Nobody
        PROVE  parent[listener[p].owner] \notin {"off", "gone"} \/ Forked(listener[p].owner)
    <3>1. "parent" \in listener[p].held \/ "child" \in listener[p].held
      <4>1. listener[p] \in Listener
        BY <2>1 DEF LaunchInv, TypeOK
      <4> QED
        BY <4>1, ListenerMade
    <3> QED
      BY <2>1, <3>1 DEF LaunchInv, Owners
  <2>2. \A c \in Conn : conn[c] = "stuck" => \E i \in Command : c \in inherited[i] /\ Forked(i)
    BY DEF LaunchInv, Heirs, Labels, Forked
  <2> QED
    BY <2>1, <2>2 DEF NothingOutlivesTheLaunch
<1> QED
  BY <1>1, LaunchInvariant, PTL

\* What a child has mounted over 9P (mount_9p_target) is in the hands of a server thread whose
\* 10_ns still runs, or the connection is broken, or half-open as long as a forked child of that
\* 10_ns has a copy of it: no end of a server, of a launch or of another command takes a mount
\* away from a command otherwise.
THEOREM MountsStayHeld == Spec => []MountsAreHeld
<1>1. LaunchInv /\ MountInv => MountsAreHeld
  <2> SUFFICES ASSUME LaunchInv, MountInv, NEW i \in Instance, NEW s \in shown[i], Plan[i][s.step].kind = "p9"
               PROVE  LET c == <<i, s.step, "mount">>
                          p == Plan[i][s.step].port
                      IN  \/ /\ conn[c] = "served" /\ serving[p] = c
                             /\ listener[p] # Nobody /\ parent[listener[p].owner] \notin {"off", "gone"}
                          \/ conn[c] = "broken"
                          \/ conn[c] = "stuck" /\ \E j \in Command : c \in inherited[j] /\ Forked(j)
    BY DEF MountsAreHeld
  <2> DEFINE c == <<i, s.step, "mount">>
             p == Plan[i][s.step].port
  <2>1. c \in Conn /\ conn[c] \in {"served", "broken", "stuck"} /\ PortOf(c) = p
    BY DEF MountInv, Mounted, PortOf
  <2> HIDE DEF c, p
  <2>2. CASE conn[c] = "served"
    <3>1. PICK q \in Port : serving[q] = c
      BY <2>1, <2>2 DEF LaunchInv, Served
    <3>2. c # Nobody
      BY <2>1, ConnIsSomebody
    <3>3. q = p /\ listener[q] # Nobody /\ "parent" \in listener[q].held
      BY <2>1, <3>1, <3>2 DEF LaunchInv, Served, MountInv, Routes
    <3>4. parent[listener[q].owner] \notin {"off", "gone"}
      BY <3>3 DEF LaunchInv, Owners
    <3> QED
      BY <2>2, <3>1, <3>3, <3>4 DEF c, p
  <2>3. CASE conn[c] = "stuck"
    <3>1. \E j \in Command : c \in inherited[j] /\ Forked(j)
      BY <2>1, <2>3 DEF LaunchInv, Heirs, Labels, Forked
    <3> QED
      BY <2>3, <3>1 DEF c
  <2> QED
    BY <2>1, <2>2, <2>3 DEF c
<1> QED
  BY <1>1, MountInvariant, PTL

\* A child that hangs over the lock of stdout or stderr got it, with the socket, from a server
\* thread that was busy with another launch when its 10_ns forked.
THEOREM MutesInherit == Spec => []MuteChildrenInherit
<1>1. MountInv => MuteChildrenInherit
  BY DEF MountInv, Locks, MuteChildrenInherit
<1> QED
  BY <1>1, MountInvariant, PTL

\* Of what is bound in a union's temporary directory, the last path that is bound to the
\* directory itself is in sight.
LEMMA LastOneIsSeen ==
  ASSUME NEW paths \in Seq(Path), NEW bound \in Binds(paths), InSight(paths, bound) # {}
  PROVE  InSight(paths, bound) \cap Slashed # {}
<1>1. bound \subseteq 1..Len(paths) /\ Len(paths) \in Nat
  BY LenProperties DEF Binds
<1> DEFINE S == {k \in bound : paths[k] \in Slashed}
           m == Max(S)
<1>2. S # {} /\ S \subseteq 1..Len(paths)
  BY <1>1 DEF InSight, Binds
<1>3. m \in S /\ \A k \in S : m >= k
  <2> HIDE DEF S
  <2> QED
    BY <1>1, <1>2, MinMax
<1> HIDE DEF m
<1>4. \A k \in bound : k > m => paths[k] \notin Slashed
  <2> SUFFICES ASSUME NEW k \in bound, k > m, paths[k] \in Slashed PROVE FALSE
    OBVIOUS
  <2>1. m >= k /\ m \in Int /\ k \in Int
    BY <1>1, <1>3
  <2> QED
    BY <2>1
<1>5. paths[m] \in InSight(paths, bound) /\ paths[m] \in Slashed
  BY <1>3, <1>4 DEF InSight
<1> QED
  BY <1>5

\* Whatever unions are replayed, the removal of the temporary directory (the TempDir of
\* replay_union_step's arm) does not get into any of their paths unless it gets into one that
\* ends in "/" or ".".
THEOREM RemovalStays == Spec => []RemovalStaysOutside
<1>1. Init => RemovalStaysOutside
  BY DEF Init, RemovalStaysOutside
<1>2. LaunchInv /\ RemovalStaysOutside /\ [Next]_vars => RemovalStaysOutside'
  <2> SUFFICES ASSUME LaunchInv, RemovalStaysOutside, [Next]_vars PROVE RemovalStaysOutside'
    OBVIOUS
  <2>1. CASE UNCHANGED removed
    BY <2>1 DEF RemovalStaysOutside
  <2>2. TypeOK
    BY DEF LaunchInv
  <2>3. ASSUME NEW i \in Instance, Leaves(i) PROVE RemovalStaysOutside'
    <3>1. CASE UNCHANGED removed
      BY <3>1 DEF RemovalStaysOutside
    <3>2. CASE At(i, "union") /\ Unites(i, Plan[i][step[i]].paths)
      <4> DEFINE paths == Plan[i][step[i]].paths
      <4>1. paths \in Seq(Path)
        BY <2>2, <3>2, StepParts DEF At
      <4>2. PICK bound \in Binds(paths) : removed' = [removed EXCEPT ![i] = removed[i] \cup InSight(paths, bound)]
        BY <3>2 DEF Unites
      <4> DEFINE seen == InSight(paths, bound)
      <4>3. seen # {} => seen \cap Slashed # {}
        BY <4>1, LastOneIsSeen
      <4>4. removed' = [removed EXCEPT ![i] = removed[i] \cup seen]
        BY <4>2
      <4> HIDE DEF seen
      <4>5. removed'[i] = removed[i] \cup seen /\ \A j \in Instance : j # i => removed'[j] = removed[j]
        BY <2>2, <4>4 DEF TypeOK
      <4> QED
        BY <4>3, <4>5 DEF RemovalStaysOutside
    <3> QED
      BY <2>3, <3>1, <3>2 DEF Leaves
  <2>4. ASSUME NEW i \in Instance, ChildEnds(i) PROVE RemovalStaysOutside'
    <3>1. removed'[i] = {} /\ \A j \in Instance : j # i => removed'[j] = removed[j]
      BY <2>2, <2>4 DEF ChildEnds, TypeOK
    <3> QED
      BY <3>1 DEF RemovalStaysOutside
  <2>5. ASSUME NEW i \in Instance, ChildStep(i) PROVE RemovalStaysOutside'
    <3>1. (Goes(i) /\ Leaves(i)) \/ Waits(i) \/ Executes(i) \/ ChildEnds(i)
      BY <2>5, ChildDoes
    <3> QED
      BY <2>1, <2>3, <2>4, <3>1 DEF Waits, Executes
  <2>6. ASSUME NEW i \in Instance, StartProcfs(i) \/ StartSrvfs(i) \/ Fork(i) \/ ParentExits(i)
        PROVE  UNCHANGED removed
    BY <2>6 DEF StartProcfs, StartSrvfs, Fork, ParentExits, ParentGoes
  <2>7. ASSUME NEW p \in Port, Accept(p) \/ Finish(p) PROVE UNCHANGED removed
    BY <2>7 DEF Accept, Finish
  <2> QED
    BY <2>1, <2>4, <2>5, <2>6, <2>7 DEF Next, CommandEnds, vars
<1> QED
  BY <1>1, <1>2, LaunchInvariant, PTL DEF Spec
=============================================================================
