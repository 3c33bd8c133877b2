--------------------------- MODULE ConnectionProofs ---------------------------
(***************************************************************************)
(* Proofs about Connection, for any connections and descriptors, any data, *)
(* and with or without a pool.                                             *)
(***************************************************************************)
EXTENDS Connection, SequenceTheorems, TLAPS

-------------------------------------------------------------------------------
(* The calls of a handler, on w: the members of the connections, the        *)
(* poller and the descriptors.                                              *)

Statu == {"absent", "CONNECTING", "CONNECTED", "DISCONNECTING", "DISCONNECTED"}
Timer == {"none", "armed", "canceled"}

Members == [statu : Statu, fd : Fd \cup {None}, events : SUBSET Event,
            out : 0 .. MaxOut, timer : Timer]

World == [conn : [Conn -> Members], channels : [Fd -> Conn \cup {None}],
          epoll : [Fd -> (SUBSET Event) \cup {None}],
          owner : [Fd -> Conn \cup {None, Elsewhere}]]

Lives(w, c) == w.conn[c].statu # "absent"
Has(w, c)   == w.owner[w.conn[c].fd] = c

(* Connections and descriptors refer to each other, and the poller and the  *)
(* kernel only to a descriptor's present owner.                             *)
Linked(w) ==
  /\ w \in World
  /\ \A c \in Conn : Lives(w, c) => w.conn[c].fd \in Fd
  /\ \A c \in Conn : ~Lives(w, c) => w.conn[c] = Unborn
  /\ \A f \in Fd : w.owner[f] \in Conn => Lives(w, w.owner[f]) /\ w.conn[w.owner[f]].fd = f
  /\ \A f \in Fd : w.channels[f] # None => w.owner[f] = w.channels[f]
  /\ \A f \in Fd : w.epoll[f] # None => w.channels[f] # None

(* A connection has its socket until it is released; one that is shut down  *)
(* after that, with output left, looks as if it were shutting down.         *)
Attached(w, c) ==
  /\ w.conn[c].statu \in {"CONNECTING", "CONNECTED"} => Has(w, c)
  /\ w.conn[c].statu = "DISCONNECTED" => ~Has(w, c)

Watching(w, c) == w.conn[c].out > 0 => "out" \in w.conn[c].events
NotIdle(w, c)  == w.conn[c].statu = "DISCONNECTING" => w.conn[c].out > 0

Sound(w) ==
  /\ Linked(w)
  /\ \A c \in Conn : Attached(w, c) /\ Watching(w, c) /\ NotIdle(w, c)

(* What an operation on c may do to the rest: it closes only a socket c     *)
(* has, and gives a descriptor a channel only while c has its socket.       *)
Touches(w, v, c) ==
  LET f == w.conn[c].fd
  IN  /\ \A d \in Conn \ {c} : v.conn[d] = w.conn[d]
      /\ v.conn[c].fd = f /\ Lives(v, c)
      /\ \A g \in Fd \ {f} :
           v.channels[g] = w.channels[g] /\ v.epoll[g] = w.epoll[g] /\ v.owner[g] = w.owner[g]
      /\ v.owner[f] = w.owner[f] \/ (Has(w, c) /\ v.owner[f] = None)
      /\ v.channels[f] \in {None, w.channels[f]} \/ (Has(w, c) /\ v.channels[f] = c)

(* The timer of c is armed only if it was, and c did not lose its socket.   *)
ArmsNothing(w, v, c) ==
  v.conn[c].timer = "armed" =>
    w.conn[c].timer = "armed" /\ v.owner[w.conn[c].fd] = w.owner[w.conn[c].fd]

(* The kernel watches what c asks for, from the moment it asks.             *)
Watched(w, c) ==
  Has(w, c) =>
    /\ w.channels[w.conn[c].fd] = c => w.epoll[w.conn[c].fd] = w.conn[c].events
    /\ w.conn[c].statu \in {"CONNECTED", "DISCONNECTING"} \/ "out" \in w.conn[c].events
         => w.channels[w.conn[c].fd] = c

Kept(w, v, c) ==
  /\ Sound(v)
  /\ Touches(w, v, c)
  /\ ArmsNothing(w, v, c)
  /\ Watched(w, c) => Watched(v, c)
  /\ Has(v, c) /\ w.channels[w.conn[c].fd] = c => v.channels[w.conn[c].fd] = c

(* Released with every response sent.                                       *)
AllSent(w, v, c) ==
  v.conn[c].statu = "DISCONNECTED" => v.conn[c].out = 0 \/ w.conn[c].statu = "DISCONNECTED"

-------------------------------------------------------------------------------
(* The primitives.                                                          *)

Put(w, c, m) == [w EXCEPT !.conn[c] = m]

(* A change of the members of one connection.                               *)
LEMMA PutIs ==
  ASSUME NEW w, Linked(w), NEW c \in Conn, Lives(w, c),
         NEW m \in Members, m.fd = w.conn[c].fd, m.statu # "absent"
  PROVE  LET v == Put(w, c, m)
         IN  /\ v.conn[c] = m
             /\ v.channels = w.channels /\ v.epoll = w.epoll /\ v.owner = w.owner
             /\ Linked(v) /\ Touches(w, v, c)
<1> DEFINE v == Put(w, c, m)
<1>1. w \in World /\ w.conn \in [Conn -> Members]
  BY DEF Linked, World
<1>2. /\ v.conn = [w.conn EXCEPT ![c] = m]
      /\ v.channels = w.channels /\ v.epoll = w.epoll /\ v.owner = w.owner
  BY <1>1 DEF Put, World
<1>3. v.conn[c] = m /\ \A d \in Conn \ {c} : v.conn[d] = w.conn[d]
  BY <1>1, <1>2
<1>4. v \in World
  <2>1. [w.conn EXCEPT ![c] = m] \in [Conn -> Members]
    BY <1>1
  <2>2. QED
    BY <1>1, <2>1 DEF Put, World
<1>5. Linked(v)
  <2>1. \A d \in Conn : Lives(v, d) <=> Lives(w, d)
    BY <1>3 DEF Lives
  <2>2. \A d \in Conn : v.conn[d].fd = w.conn[d].fd
    BY <1>3
  <2>3. \A d \in Conn : ~Lives(v, d) => v.conn[d] = Unborn
    BY <1>3, <2>1 DEF Linked
  <2>4. QED
    BY <1>2, <1>4, <2>1, <2>2, <2>3 DEF Linked
<1>6. Touches(w, v, c)
  BY <1>2, <1>3 DEF Touches, Lives
<1>7. QED
  BY <1>2, <1>3, <1>5, <1>6

(* An update of the events of a connection that has its socket.             *)
LEMMA Updated ==
  ASSUME NEW w, Linked(w), NEW c \in Conn, Lives(w, c), Has(w, c)
  PROVE  LET f == w.conn[c].fd
             v == UpdateEvent(w, c)
         IN  /\ v.conn = w.conn /\ v.owner = w.owner
             /\ v.channels[f] = c
             /\ v.epoll[f] = IF w.channels[f] = c /\ w.epoll[f] = None
                             THEN None ELSE w.conn[c].events
             /\ Linked(v) /\ Touches(w, v, c)
<1> DEFINE f == w.conn[c].fd
           v == UpdateEvent(w, c)
<1>1. f \in Fd /\ c # None /\ w.owner[f] = c
  BY LoopAssumption DEF Linked, Has
<1>2. /\ v.conn = w.conn /\ v.owner = w.owner
      /\ v.channels = [w.channels EXCEPT ![f] = c]
      /\ v.epoll = [w.epoll EXCEPT ![f] =
                  IF w.channels[f] # None /\ @ = None THEN @ ELSE w.conn[c].events]
      /\ v \in World
  <2>1. CASE w.channels[f] # None
    <3>1. w.channels[f] = c
      BY <1>1, <2>1 DEF Linked
    <3>2. CASE w.epoll[f] = None
      BY <1>1, <2>1, <3>1, <3>2 DEF UpdateEvent, Linked, World
    <3>3. CASE w.epoll[f] # None
      BY <1>1, <2>1, <3>1, <3>3 DEF UpdateEvent, Linked, World, Members
    <3>4. QED
      BY <3>2, <3>3
  <2>2. CASE w.channels[f] = None
    BY <1>1, <2>2 DEF UpdateEvent, Linked, World, Members
  <2>3. QED
    BY <2>1, <2>2
<1>3. w.channels \in [Fd -> Conn \cup {None}] /\ w.epoll \in [Fd -> (SUBSET Event) \cup {None}]
  BY DEF Linked, World
<1>4. /\ v.channels[f] = c
      /\ v.epoll[f] = IF w.channels[f] = c /\ w.epoll[f] = None THEN None ELSE w.conn[c].events
      /\ \A g \in Fd \ {f} : v.channels[g] = w.channels[g] /\ v.epoll[g] = w.epoll[g]
  <2>1. w.channels[f] # None => w.channels[f] = c
    BY <1>1 DEF Linked
  <2>2. QED
    BY <1>1, <1>2, <1>3, <2>1
<1>5. Linked(v)
  <2>1. \A g \in Fd : v.channels[g] # None => v.owner[g] = v.channels[g]
    BY <1>1, <1>2, <1>4 DEF Linked
  <2>2. \A g \in Fd : v.epoll[g] # None => v.channels[g] # None
    BY <1>1, <1>2, <1>4 DEF Linked
  <2>3. QED
    BY <1>2, <2>1, <2>2 DEF Linked, Lives
<1>6. Touches(w, v, c)
  BY <1>1, <1>2, <1>4 DEF Touches, Lives, Has
<1>7. QED
  BY <1>2, <1>4, <1>5, <1>6

LEMMA InWorld ==
  ASSUME NEW w \in World, NEW f \in Fd
  PROVE  /\ [w EXCEPT !.channels[f] = None, !.epoll[f] = None] \in World
         /\ [w EXCEPT !.owner[f] = None, !.epoll[f] = None] \in World
         /\ \A c \in Conn : [w EXCEPT !.owner[f] = c] \in World
<1> DEFINE v == [w EXCEPT !.channels[f] = None, !.epoll[f] = None]
           u == [w EXCEPT !.owner[f] = None, !.epoll[f] = None]
<1>1. v \in World
  BY DEF World
<1>2. u \in World
  BY DEF World
<1>3. ASSUME NEW c \in Conn PROVE [w EXCEPT !.owner[f] = c] \in World
  BY DEF World
<1>4. QED
  BY <1>1, <1>2, <1>3

(* Poller::RemoveEvent and Socket::Close.                                   *)
LEMMA Removed ==
  ASSUME NEW w, Linked(w), NEW c \in Conn, Lives(w, c)
  PROVE  LET f == w.conn[c].fd
             v == RemoveEvent(w, c)
         IN  /\ v.conn = w.conn /\ v.owner = w.owner
             /\ v.channels[f] = None
             /\ Linked(v) /\ Touches(w, v, c)
<1> DEFINE f == w.conn[c].fd
           v == RemoveEvent(w, c)
<1>1. f \in Fd /\ w \in World
  BY DEF Linked
<1>2. w.channels \in [Fd -> Conn \cup {None}] /\ w.epoll \in [Fd -> (SUBSET Event) \cup {None}]
  BY <1>1 DEF World
<1>3. CASE w.channels[f] = None
  <2>1. v = w
    BY <1>3 DEF RemoveEvent
  <2>2. Touches(w, w, c)
    BY <1>1 DEF Touches
  <2>3. QED
    BY <1>3, <2>1, <2>2
<1>4. CASE w.channels[f] # None
  <2>1. v = [w EXCEPT !.channels[f] = None, !.epoll[f] = None]
    BY <1>4 DEF RemoveEvent
  <2>2. /\ v.conn = w.conn /\ v.owner = w.owner
        /\ v.channels = [w.channels EXCEPT ![f] = None]
        /\ v.epoll = [w.epoll EXCEPT ![f] = None]
    BY <1>1, <2>1 DEF World
  <2>3. v \in World
    BY <1>1, <2>1, InWorld
  <2>4. /\ v.channels[f] = None /\ v.epoll[f] = None
        /\ \A g \in Fd \ {f} : v.channels[g] = w.channels[g] /\ v.epoll[g] = w.epoll[g]
    BY <1>1, <1>2, <2>2
  <2>5. Linked(v)
    BY <1>1, <2>2, <2>3, <2>4 DEF Linked, Lives
  <2>6. Touches(w, v, c)
    BY <1>1, <2>2, <2>4 DEF Touches, Lives
  <2>7. QED
    BY <2>2, <2>4, <2>5, <2>6
<1>5. QED
  BY <1>3, <1>4

LEMMA Closed ==
  ASSUME NEW w, Linked(w), NEW c \in Conn, Lives(w, c), w.channels[w.conn[c].fd] = None
  PROVE  LET f == w.conn[c].fd
             v == Close(w, c)
         IN  /\ v.conn = w.conn /\ v.channels = w.channels
             /\ ~Has(v, c)
             /\ Linked(v) /\ Touches(w, v, c)
<1> DEFINE f == w.conn[c].fd
           v == Close(w, c)
<1>1. f \in Fd /\ w \in World /\ None \notin Conn
  BY LoopAssumption DEF Linked
<1>2. w.owner \in [Fd -> Conn \cup {None, Elsewhere}] /\ w.epoll \in [Fd -> (SUBSET Event) \cup {None}]
  BY <1>1 DEF World
<1>3. CASE w.owner[f] # c
  <2>1. v = w
    BY <1>3 DEF Close
  <2>2. Touches(w, w, c)
    BY <1>1 DEF Touches
  <2>3. QED
    BY <1>3, <2>1, <2>2 DEF Has
<1>4. CASE w.owner[f] = c
  <2>1. v = [w EXCEPT !.owner[f] = None, !.epoll[f] = None]
    BY <1>4 DEF Close
  <2>2. /\ v.conn = w.conn /\ v.channels = w.channels
        /\ v.owner = [w.owner EXCEPT ![f] = None]
        /\ v.epoll = [w.epoll EXCEPT ![f] = None]
    BY <1>1, <2>1 DEF World
  <2>3. v \in World
    <3>1. [w EXCEPT !.owner[f] = None, !.epoll[f] = None] \in World
      BY <1>1, InWorld
    <3>2. QED
      BY <2>1, <3>1
  <2>4. /\ v.owner[f] = None /\ v.epoll[f] = None
        /\ \A g \in Fd \ {f} : v.owner[g] = w.owner[g] /\ v.epoll[g] = w.epoll[g]
    BY <1>1, <1>2, <2>2
  <2>5. Linked(v)
    BY <1>1, <2>2, <2>3, <2>4 DEF Linked, Lives
  <2>6. Touches(w, v, c)
    BY <1>1, <1>4, <2>2, <2>4 DEF Touches, Lives, Has
  <2>7. QED
    BY <1>1, <2>2, <2>4, <2>5, <2>6 DEF Has
<1>5. QED
  BY <1>3, <1>4

(* Two operations on c, one after the other.                                *)
LEMMA TouchesTransitive ==
  ASSUME NEW w, Linked(w), NEW v, NEW u, NEW c \in Conn, Lives(w, c),
         Touches(w, v, c), Touches(v, u, c)
  PROVE  Touches(w, u, c)
<1>1. w.conn[c].fd \in Fd /\ v.conn[c].fd = w.conn[c].fd /\ None # c
  BY LoopAssumption DEF Linked, Touches
<1>2. Has(v, c) => Has(w, c)
  BY <1>1 DEF Touches, Has
<1>3. QED
  BY <1>1, <1>2 DEF Touches

(* The release of a connection, a second time as well: what is left of its  *)
(* timer is not armed, and nothing is watched of its descriptor, whose ever *)
(* that is by then.                                                         *)
LEMMA Released ==
  ASSUME NEW w, Linked(w), NEW c \in Conn, Lives(w, c)
  PROVE  LET f == w.conn[c].fd
             v == ReleaseInLoop(w, c)
         IN  /\ v.conn[c].statu = "DISCONNECTED" /\ v.conn[c].timer # "armed"
             /\ v.conn[c].events = w.conn[c].events /\ v.conn[c].out = w.conn[c].out
             /\ v.channels[f] = None /\ ~Has(v, c)
             /\ Linked(v) /\ Touches(w, v, c)
<1> DEFINE f == w.conn[c].fd
           v == ReleaseInLoop(w, c)
           r == RemoveEvent(w, c)
           k == Close(r, c)
           t == IF k.conn[c].timer = "armed" THEN "canceled" ELSE k.conn[c].timer
           m == [k.conn[c] EXCEPT !.timer = t, !.statu = "DISCONNECTED"]
<1>1. f \in Fd /\ w.channels \in [Fd -> Conn \cup {None}]
  BY DEF Linked, World
<1>2. /\ r.conn = w.conn /\ r.owner = w.owner
      /\ r.channels[f] = None
      /\ Linked(r) /\ Touches(w, r, c)
  BY Removed
<1>3. Lives(r, c) /\ r.conn[c].fd = f /\ r.channels[f] = None
  BY <1>1, <1>2 DEF Lives
<1>4. /\ k.conn = w.conn /\ k.channels = r.channels
      /\ ~Has(k, c)
      /\ Linked(k) /\ Touches(r, k, c)
  <2>1. Linked(r) /\ Lives(r, c) /\ r.channels[r.conn[c].fd] = None
    BY <1>2, <1>3
  <2> HIDE DEF r
  <2>2. /\ k.conn = r.conn /\ k.channels = r.channels
        /\ ~Has(k, c)
        /\ Linked(k) /\ Touches(r, k, c)
    BY <2>1, Closed
  <2> HIDE DEF k
  <2>3. QED
    BY <1>2, <1>3, <2>2
<1>5. Touches(w, k, c) /\ Lives(k, c)
  BY <1>2, <1>4, TouchesTransitive DEF Lives
<1>6. k \in World /\ k.conn[c] \in Members /\ k.conn \in [Conn -> Members]
  BY <1>4 DEF Linked, World
<1>7. /\ m \in Members /\ m.fd = k.conn[c].fd /\ m.statu = "DISCONNECTED"
      /\ m.statu # "absent"
      /\ m.timer # "armed" /\ m.events = k.conn[c].events /\ m.out = k.conn[c].out
  <2>1. t \in Timer /\ t # "armed"
    BY <1>6 DEF Members, Timer
  <2> HIDE DEF t
  <2>2. QED
    BY <1>6, <2>1 DEF Members, Statu
<1>8. v = Put(k, c, m)
  <2>1. CASE k.conn[c].timer = "none"
    BY <1>6, <2>1 DEF ReleaseInLoop, Put, Members, World
  <2>2. CASE k.conn[c].timer # "none"
    BY <1>6, <2>2 DEF ReleaseInLoop, CancelInactiveRelease, Put, Members, World
  <2>3. QED
    BY <2>1, <2>2
<1> HIDE DEF m, r, k, v
<1>9. /\ v.conn[c] = m /\ v.channels = k.channels /\ v.owner = k.owner
      /\ Linked(v) /\ Touches(k, v, c)
  <2>1. Linked(k) /\ Lives(k, c) /\ m \in Members /\ m.fd = k.conn[c].fd /\ m.statu # "absent"
    BY <1>4, <1>5, <1>7
  <2>2. LET u == Put(k, c, m)
        IN  /\ u.conn[c] = m /\ u.channels = k.channels /\ u.owner = k.owner
            /\ Linked(u) /\ Touches(k, u, c)
    BY <2>1, PutIs
  <2>3. QED
    BY <1>8, <2>2
<1>10. Touches(w, v, c)
  BY <1>5, <1>9, TouchesTransitive
<1>11. QED
  BY <1>2, <1>3, <1>4, <1>7, <1>9, <1>10 DEF v, Has

(* Channel::Update with other events.                                       *)
LEMMA Asked ==
  ASSUME NEW w, Linked(w), NEW c \in Conn, Lives(w, c), Has(w, c), NEW e \in SUBSET Event
  PROVE  LET f == w.conn[c].fd
             m == [w.conn[c] EXCEPT !.events = e]
             v == UpdateEvent(Put(w, c, m), c)
         IN  /\ v.conn[c] = m /\ Has(v, c) /\ v.channels[f] = c
             /\ (w.channels[f] = c => w.epoll[f] # None) => v.epoll[f] = e
             /\ Linked(v) /\ Touches(w, v, c)
<1> DEFINE f == w.conn[c].fd
           m == [w.conn[c] EXCEPT !.events = e]
           p == Put(w, c, m)
           v == UpdateEvent(p, c)
<1>1. w.conn[c] \in Members
  BY DEF Linked, World
<1>2. m \in Members /\ m.fd = f /\ m.statu # "absent" /\ m.events = e
  BY <1>1 DEF Members, Lives
<1> HIDE DEF m
<1>3. /\ p.conn[c] = m
      /\ p.channels = w.channels /\ p.epoll = w.epoll /\ p.owner = w.owner
      /\ Linked(p) /\ Touches(w, p, c)
  BY <1>2, PutIs
<1> HIDE DEF p
<1>4. Lives(p, c) /\ Has(p, c) /\ p.conn[c].fd = f
  BY <1>2, <1>3 DEF Lives, Has
<1>5. /\ v.conn = p.conn /\ v.owner = p.owner /\ v.channels[f] = c
      /\ v.epoll[f] = IF p.channels[f] = c /\ p.epoll[f] = None THEN None ELSE p.conn[c].events
      /\ Linked(v) /\ Touches(p, v, c)
  BY <1>3, <1>4, Updated
<1> HIDE DEF v
<1>6. Touches(w, v, c)
  BY <1>3, <1>5, TouchesTransitive
<1>7. Has(v, c)
  BY <1>4, <1>5 DEF Has
<1>8. (w.channels[f] = c => w.epoll[f] # None) => v.epoll[f] = e
  BY <1>2, <1>3, <1>5
<1>9. v.conn[c] = m
  BY <1>3, <1>5
<1>10. QED
  BY <1>5, <1>6, <1>7, <1>8, <1>9 DEF m, p, v

-------------------------------------------------------------------------------
(* What the operations keep.                                                *)

(* The others are as they were.                                             *)
LEMMA SoundAfter ==
  ASSUME NEW w, Sound(w), NEW c \in Conn, Lives(w, c),
         NEW v, Linked(v), Touches(w, v, c), Attached(v, c), Watching(v, c), NotIdle(v, c)
  PROVE  Sound(v)
<1>1. SUFFICES ASSUME NEW d \in Conn, d # c
               PROVE  Attached(v, d) /\ Watching(v, d) /\ NotIdle(v, d)
  BY DEF Sound
<1>2. v.conn[d] = w.conn[d]
  BY <1>1 DEF Touches
<1>3. Watching(v, d) /\ NotIdle(v, d)
  BY <1>2 DEF Sound, Watching, NotIdle
<1>4. Attached(v, d)
  <2>1. CASE ~Lives(w, d)
    BY <1>2, <2>1 DEF Attached, Lives
  <2>2. CASE Lives(w, d)
    <3>1. w.conn[d].fd \in Fd /\ Attached(w, d) /\ None # d
      BY <2>2, LoopAssumption DEF Sound, Linked
    <3>2. Has(v, d) <=> Has(w, d)
      BY <1>1, <1>2, <3>1 DEF Touches, Has
    <3>3. QED
      BY <1>2, <3>1, <3>2 DEF Attached
  <2>3. QED
    BY <2>1, <2>2
<1>5. QED
  BY <1>3, <1>4

LEMMA KeptIdle ==
  ASSUME NEW w, Sound(w), NEW c \in Conn, Lives(w, c)
  PROVE  Kept(w, w, c)
BY DEF Kept, Touches, ArmsNothing

LEMMA KeptTransitive ==
  ASSUME NEW w, Linked(w), NEW c \in Conn, Lives(w, c), NEW v, NEW u,
         Kept(w, v, c), Kept(v, u, c)
  PROVE  Kept(w, u, c)
<1>1. Touches(w, u, c)
  BY TouchesTransitive DEF Kept
<1>2. v.conn[c].fd = w.conn[c].fd
  BY DEF Kept, Touches
<1>3. ArmsNothing(w, u, c)
  BY <1>2 DEF Kept, ArmsNothing
<1>4. Has(u, c) => Has(v, c)
  <2>1. u.conn[c].fd = v.conn[c].fd /\ None # c
    BY LoopAssumption DEF Kept, Touches
  <2>2. QED
    BY <2>1 DEF Kept, Touches, Has
<1>5. QED
  BY <1>1, <1>2, <1>3, <1>4 DEF Kept

(* A release, after what else the operation has done (s).                   *)
LEMMA ReleaseKeeps ==
  ASSUME NEW w, Sound(w), NEW c \in Conn, Lives(w, c),
         NEW s, Linked(s), Touches(w, s, c), Watching(s, c)
  PROVE  LET v == ReleaseInLoop(s, c)
         IN  /\ Kept(w, v, c)
             /\ v.conn[c].statu = "DISCONNECTED" /\ v.conn[c].out = s.conn[c].out
             /\ v.conn[c].timer # "armed"
             /\ ~Has(v, c) /\ v.channels[w.conn[c].fd] = None
<1> DEFINE v == ReleaseInLoop(s, c)
<1>1. Lives(s, c) /\ s.conn[c].fd = w.conn[c].fd
  BY DEF Touches, Lives
<1>2. /\ v.conn[c].statu = "DISCONNECTED" /\ v.conn[c].timer # "armed"
      /\ v.conn[c].events = s.conn[c].events /\ v.conn[c].out = s.conn[c].out
      /\ v.channels[s.conn[c].fd] = None /\ ~Has(v, c)
      /\ Linked(v) /\ Touches(s, v, c)
  BY <1>1, Released
<1> HIDE DEF v
<1>3. Touches(w, v, c)
  BY <1>2, TouchesTransitive DEF Sound
<1>4. Attached(v, c) /\ Watching(v, c) /\ NotIdle(v, c)
  BY <1>2 DEF Attached, Watching, NotIdle
<1>5. Sound(v)
  BY <1>2, <1>3, <1>4, SoundAfter
<1>6. Kept(w, v, c)
  BY <1>2, <1>3, <1>5 DEF Kept, ArmsNothing, Watched
<1>7. QED
  BY <1>1, <1>2, <1>6 DEF v

LEMMA ReleasedKeeps ==
  ASSUME NEW w, Sound(w), NEW c \in Conn, Lives(w, c)
  PROVE  LET v == ReleaseInLoop(w, c)
         IN  /\ Kept(w, v, c)
             /\ v.conn[c].timer # "armed"
             /\ ~Has(v, c) /\ v.channels[w.conn[c].fd] = None
<1>1. Linked(w) /\ Touches(w, w, c) /\ Watching(w, c)
  BY DEF Sound, Touches
<1>2. QED
  BY <1>1, ReleaseKeeps

(* A change of the timer or of the output alone.                            *)
LEMMA PutKeeps ==
  ASSUME NEW w, Sound(w), NEW c \in Conn, Lives(w, c), NEW m \in Members,
         m.statu = w.conn[c].statu, m.fd = w.conn[c].fd, m.events = w.conn[c].events,
         m.out > 0 => "out" \in m.events,
         m.statu = "DISCONNECTING" => m.out > 0
  PROVE  LET v == Put(w, c, m)
         IN  /\ v.conn[c] = m /\ Sound(v) /\ Touches(w, v, c)
             /\ v.channels = w.channels /\ v.epoll = w.epoll /\ v.owner = w.owner
             /\ Watched(w, c) => Watched(v, c)
<1> DEFINE v == Put(w, c, m)
<1>1. Linked(w) /\ m.statu # "absent" /\ Attached(w, c)
  BY DEF Sound, Lives
<1>2. /\ v.conn[c] = m /\ Linked(v) /\ Touches(w, v, c)
      /\ v.channels = w.channels /\ v.epoll = w.epoll /\ v.owner = w.owner
  BY <1>1, PutIs
<1> HIDE DEF v
<1>3. Attached(v, c) /\ Watching(v, c) /\ NotIdle(v, c)
  BY <1>1, <1>2 DEF Attached, Watching, NotIdle, Has
<1>4. Sound(v)
  BY <1>2, <1>3, SoundAfter
<1>5. Watched(w, c) => Watched(v, c)
  BY <1>2 DEF Watched, Has
<1>6. QED
  BY <1>2, <1>4, <1>5 DEF v

LEMMA CancelKeeps ==
  ASSUME NEW w, Sound(w), NEW c \in Conn, Lives(w, c)
  PROVE  LET v == CancelInactiveRelease(w, c)
         IN  /\ Kept(w, v, c)
             /\ v.conn[c].statu = w.conn[c].statu
             /\ v.channels = w.channels /\ v.epoll = w.epoll
<1> DEFINE t == IF w.conn[c].timer = "armed" THEN "canceled" ELSE w.conn[c].timer
           m == [w.conn[c] EXCEPT !.timer = t]
           v == CancelInactiveRelease(w, c)
<1>1. w.conn[c] \in Members /\ Watching(w, c) /\ NotIdle(w, c)
  BY DEF Sound, Linked, World
<1>2. t \in Timer /\ t # "armed"
  BY <1>1 DEF Members, Timer
<1>3. v = Put(w, c, m)
  BY DEF CancelInactiveRelease, Put
<1> HIDE DEF t
<1>4. /\ m \in Members /\ m.statu = w.conn[c].statu /\ m.fd = w.conn[c].fd
      /\ m.events = w.conn[c].events /\ m.out = w.conn[c].out /\ m.timer = t
  BY <1>1, <1>2 DEF Members
<1> HIDE DEF m, v
<1>5. /\ m.out > 0 => "out" \in m.events
      /\ m.statu = "DISCONNECTING" => m.out > 0
  BY <1>1, <1>4 DEF Watching, NotIdle
<1>6. LET u == Put(w, c, m)
      IN  /\ u.conn[c] = m /\ Sound(u) /\ Touches(w, u, c)
          /\ u.channels = w.channels /\ u.epoll = w.epoll
          /\ Watched(w, c) => Watched(u, c)
  BY <1>4, <1>5, PutKeeps
<1>7. QED
  BY <1>2, <1>3, <1>4, <1>6 DEF Kept, ArmsNothing, v

LEMMA EnableKeeps ==
  ASSUME NEW w, Sound(w), NEW c \in Conn, Lives(w, c)
  PROVE  LET v == EnableInactiveRelease(w, c)
         IN  /\ Sound(v) /\ Touches(w, v, c)
             /\ Watched(w, c) => Watched(v, c)
             /\ v.conn[c].statu = w.conn[c].statu
             /\ v.channels = w.channels /\ v.epoll = w.epoll /\ v.owner = w.owner
<1> DEFINE t == IF w.conn[c].timer = "none" THEN "armed" ELSE w.conn[c].timer
           m == [w.conn[c] EXCEPT !.timer = t]
           v == EnableInactiveRelease(w, c)
<1>1. w.conn[c] \in Members /\ Watching(w, c) /\ NotIdle(w, c)
  BY DEF Sound, Linked, World
<1>2. t \in Timer
  BY <1>1 DEF Members, Timer
<1>3. v = Put(w, c, m)
  BY DEF EnableInactiveRelease, Put
<1> HIDE DEF t
<1>4. /\ m \in Members /\ m.statu = w.conn[c].statu /\ m.fd = w.conn[c].fd
      /\ m.events = w.conn[c].events /\ m.out = w.conn[c].out
  BY <1>1, <1>2 DEF Members
<1> HIDE DEF m, v
<1>5. /\ m.out > 0 => "out" \in m.events
      /\ m.statu = "DISCONNECTING" => m.out > 0
  BY <1>1, <1>4 DEF Watching, NotIdle
<1>6. LET u == Put(w, c, m)
      IN  /\ u.conn[c] = m /\ Sound(u) /\ Touches(w, u, c)
          /\ u.channels = w.channels /\ u.epoll = w.epoll /\ u.owner = w.owner
          /\ Watched(w, c) => Watched(u, c)
  BY <1>4, <1>5, PutKeeps
<1>7. QED
  BY <1>3, <1>4, <1>6 DEF v

LEMMA EstablishedKeeps ==
  ASSUME NEW w, Sound(w), NEW c \in Conn, Lives(w, c)
  PROVE  LET v == Established(w, c)
         IN  /\ Kept(w, v, c)
             /\ v = w \/ v.conn[c].statu = "CONNECTED"
             /\ ~Has(w, c) => v = w
<1> DEFINE v == Established(w, c)
<1>1. Linked(w) /\ w.conn[c] \in Members /\ Attached(w, c) /\ Watching(w, c)
  BY DEF Sound, Linked, World
<1>2. CASE w.conn[c].statu # "CONNECTING"
  <2>1. v = w
    BY <1>2 DEF Established
  <2>2. QED
    BY <2>1, KeptIdle
<1>3. CASE w.conn[c].statu = "CONNECTING"
  <2> DEFINE n == [w.conn[c] EXCEPT !.statu = "CONNECTED"]
             s == Put(w, c, n)
             e == n.events \cup {"in"}
             m == [s.conn[c] EXCEPT !.events = e]
  <2>1. Has(w, c)
    BY <1>1, <1>3 DEF Attached
  <2>2. /\ n \in Members /\ n.statu = "CONNECTED" /\ n.fd = w.conn[c].fd
        /\ n.events = w.conn[c].events /\ n.out = w.conn[c].out /\ n.timer = w.conn[c].timer
        /\ n.statu # "absent"
    BY <1>1 DEF Members, Statu
  <2>3. v = UpdateEvent(Put(s, c, [s.conn[c] EXCEPT !.events = @ \cup {"in"}]), c)
    BY <1>3 DEF Established, EnableRead, Put
  <2> HIDE DEF n
  <2>4. /\ s.conn[c] = n /\ s.channels = w.channels /\ s.epoll = w.epoll /\ s.owner = w.owner
        /\ Linked(s) /\ Touches(w, s, c)
    BY <1>1, <2>2, PutIs
  <2> HIDE DEF s
  <2>5. Lives(s, c) /\ Has(s, c) /\ s.conn[c].fd = w.conn[c].fd /\ e \in SUBSET Event
    BY <1>1, <2>1, <2>2, <2>4 DEF Lives, Has, Members, Event
  <2> HIDE DEF v
  <2>6. v = UpdateEvent(Put(s, c, m), c)
    BY <2>3, <2>4
  <2>7. s.conn[c] \in Members
    BY <2>4, <2>2
  <2>8. /\ m.statu = "CONNECTED" /\ m.fd = w.conn[c].fd /\ m.events = e
        /\ m.out = w.conn[c].out /\ m.timer = w.conn[c].timer
    BY <2>2, <2>4, <2>7 DEF Members
  <2> HIDE DEF e, m
  <2>9. LET u == UpdateEvent(Put(s, c, m), c)
            f == s.conn[c].fd
        IN  /\ u.conn[c] = m /\ Has(u, c) /\ u.channels[f] = c
            /\ (s.channels[f] = c => s.epoll[f] # None) => u.epoll[f] = e
            /\ Linked(u) /\ Touches(s, u, c)
    BY <2>4, <2>5, Asked DEF m
  <2>10. /\ v.conn[c] = m /\ Has(v, c) /\ v.channels[w.conn[c].fd] = c
         /\ (w.channels[w.conn[c].fd] = c => w.epoll[w.conn[c].fd] # None)
              => v.epoll[w.conn[c].fd] = e
         /\ Linked(v) /\ Touches(w, v, c)
    BY <1>1, <2>4, <2>5, <2>6, <2>9, TouchesTransitive
  <2>11. Attached(v, c) /\ Watching(v, c) /\ NotIdle(v, c)
    BY <1>1, <2>2, <2>8, <2>10 DEF Attached, Watching, NotIdle, e
  <2>12. Sound(v)
    BY <2>10, <2>11, SoundAfter
  <2>13. Watched(w, c) => Watched(v, c)
    <3>1. w.conn[c].events # None
      BY <1>1, LoopAssumption DEF Members
    <3>2. QED
      BY <2>1, <2>8, <2>10, <3>1 DEF Watched
  <2>14. ArmsNothing(w, v, c)
    BY <2>1, <2>8, <2>10 DEF ArmsNothing, Has
  <2>15. QED
    BY <2>1, <2>8, <2>10, <2>12, <2>13, <2>14 DEF Kept, v
<1>4. QED
  BY <1>2, <1>3

LEMMA PushKeeps ==
  ASSUME NEW w, Linked(w), NEW c \in Conn, Lives(w, c)
  PROVE  LET v == Push(w, c)
         IN  /\ v.conn[c].statu = w.conn[c].statu /\ v.conn[c].events = w.conn[c].events
             /\ v.conn[c].timer = w.conn[c].timer
             /\ v.conn[c].out >= w.conn[c].out
             /\ v.channels = w.channels /\ v.epoll = w.epoll /\ v.owner = w.owner
             /\ Linked(v) /\ Touches(w, v, c)
<1> DEFINE n == IF w.conn[c].out < MaxOut THEN w.conn[c].out + 1 ELSE w.conn[c].out
           m == [w.conn[c] EXCEPT !.out = n]
           v == Push(w, c)
<1>1. w.conn[c] \in Members
  BY DEF Linked, World
<1>2. n \in 0 .. MaxOut /\ n >= w.conn[c].out
  BY <1>1, LoopAssumption DEF Members
<1>3. v = Put(w, c, m)
  BY DEF Push, Put
<1> HIDE DEF n
<1>4. /\ m \in Members /\ m.statu = w.conn[c].statu /\ m.fd = w.conn[c].fd
      /\ m.events = w.conn[c].events /\ m.out = n /\ m.timer = w.conn[c].timer
      /\ m.statu # "absent"
  BY <1>1, <1>2 DEF Members, Lives
<1> HIDE DEF m, v
<1>5. LET u == Put(w, c, m)
      IN  /\ u.conn[c] = m /\ Linked(u) /\ Touches(w, u, c)
          /\ u.channels = w.channels /\ u.epoll = w.epoll /\ u.owner = w.owner
  BY <1>4, PutIs
<1>6. QED
  BY <1>2, <1>3, <1>4, <1>5 DEF v

(* A connection with no socket cannot come to watch its descriptor: what it *)
(* has left to send was watched while it had one.                           *)
LEMMA SendKeeps ==
  ASSUME NEW w, Sound(w), NEW c \in Conn, Lives(w, c)
  PROVE  LET v == SendInLoop(w, c)
         IN  /\ Kept(w, v, c)
             /\ v.conn[c].statu = w.conn[c].statu
             /\ ~Has(w, c) => v.channels = w.channels /\ v.epoll = w.epoll
<1> DEFINE v == SendInLoop(w, c)
           p == Push(w, c)
           f == w.conn[c].fd
           e == p.conn[c].events \cup {"out"}
<1>1. /\ Linked(w) /\ w.conn[c] \in Members
      /\ Attached(w, c) /\ Watching(w, c) /\ NotIdle(w, c)
  BY DEF Sound, Linked, World
<1>2. /\ p.conn[c].statu = w.conn[c].statu /\ p.conn[c].events = w.conn[c].events
      /\ p.conn[c].timer = w.conn[c].timer
      /\ p.conn[c].out >= w.conn[c].out
      /\ p.channels = w.channels /\ p.epoll = w.epoll /\ p.owner = w.owner
      /\ Linked(p) /\ Touches(w, p, c)
  BY <1>1, PushKeeps
<1>3. p.conn[c].fd = f /\ p.conn[c] \in Members /\ w.conn[c].out \in Nat
  BY <1>1, <1>2, LoopAssumption DEF Touches, Linked, World, Members
<1>4. CASE w.conn[c].statu = "DISCONNECTED"
  <2>1. v = w
    BY <1>4 DEF SendInLoop
  <2>2. QED
    BY <2>1, KeptIdle
<1>5. CASE w.conn[c].statu # "DISCONNECTED" /\ "out" \in w.conn[c].events
  <2>1. v = p
    BY <1>2, <1>5 DEF SendInLoop, WatchOutput
  <2> HIDE DEF p
  <2>2. Attached(p, c) /\ Watching(p, c) /\ NotIdle(p, c)
    BY <1>1, <1>2, <1>3, <1>5 DEF Attached, Watching, NotIdle, Has, Members
  <2>3. Sound(p)
    BY <1>2, <2>2, SoundAfter
  <2>4. ArmsNothing(w, p, c) /\ (Watched(w, c) => Watched(p, c))
    BY <1>2, <1>3 DEF ArmsNothing, Watched, Has
  <2>5. QED
    BY <1>2, <2>1, <2>3, <2>4 DEF Kept
<1>6. CASE w.conn[c].statu # "DISCONNECTED" /\ "out" \notin w.conn[c].events
  <2> DEFINE m == [p.conn[c] EXCEPT !.events = e]
  <2>1. w.conn[c].statu \in {"CONNECTING", "CONNECTED"}
    BY <1>1, <1>6 DEF Watching, NotIdle, Members, Statu, Lives
  <2>2. Has(w, c)
    BY <1>1, <2>1 DEF Attached
  <2>3. v = UpdateEvent(Put(p, c, m), c)
    BY <1>2, <1>6 DEF SendInLoop, WatchOutput, EnableWrite, Put
  <2> HIDE DEF p
  <2>4. Lives(p, c) /\ Has(p, c) /\ e \in SUBSET Event
    BY <1>2, <1>3, <2>2 DEF Lives, Has, Members, Event, Touches
  <2>5. /\ m.statu = w.conn[c].statu /\ m.fd = f /\ m.events = e
        /\ m.out = p.conn[c].out /\ m.timer = w.conn[c].timer
    BY <1>2, <1>3 DEF Members
  <2> HIDE DEF v, e, m
  <2>6. LET u == UpdateEvent(Put(p, c, m), c)
            g == p.conn[c].fd
        IN  /\ u.conn[c] = m /\ Has(u, c) /\ u.channels[g] = c
            /\ (p.channels[g] = c => p.epoll[g] # None) => u.epoll[g] = e
            /\ Linked(u) /\ Touches(p, u, c)
    BY <1>2, <2>4, Asked DEF m
  <2>7. /\ v.conn[c] = m /\ Has(v, c) /\ v.channels[f] = c
        /\ (w.channels[f] = c => w.epoll[f] # None) => v.epoll[f] = e
        /\ Linked(v) /\ Touches(w, v, c)
    BY <1>1, <1>2, <1>3, <2>3, <2>6, TouchesTransitive
  <2>8. Attached(v, c) /\ Watching(v, c) /\ NotIdle(v, c)
    BY <2>1, <2>5, <2>7 DEF Attached, Watching, NotIdle, e
  <2>9. Sound(v)
    BY <2>7, <2>8, SoundAfter
  <2>10. Watched(w, c) => Watched(v, c)
    <3>1. w.conn[c].events # None
      BY <1>1, LoopAssumption DEF Members
    <3>2. QED
      BY <2>2, <2>5, <2>7, <3>1 DEF Watched
  <2>11. ArmsNothing(w, v, c)
    BY <2>2, <2>5, <2>7 DEF ArmsNothing, Has
  <2>12. QED
    BY <2>2, <2>5, <2>7, <2>9, <2>10, <2>11 DEF Kept, v
<1>7. QED
  BY <1>4, <1>5, <1>6

LEMMA ShutdownKeeps ==
  ASSUME NEW w, Sound(w), NEW c \in Conn, Lives(w, c)
  PROVE  LET v == ShutdownInLoop(w, c)
         IN  Kept(w, v, c) /\ AllSent(w, v, c)
<1> DEFINE v == ShutdownInLoop(w, c)
           m == [w.conn[c] EXCEPT !.statu = "DISCONNECTING"]
           s == Put(w, c, m)
<1>1. Linked(w) /\ w.conn[c] \in Members /\ Watching(w, c)
  BY DEF Sound, Linked, World
<1>2. /\ m \in Members /\ m.statu = "DISCONNECTING" /\ m.statu # "absent"
      /\ m.fd = w.conn[c].fd /\ m.events = w.conn[c].events
      /\ m.out = w.conn[c].out /\ m.timer = w.conn[c].timer
  BY <1>1 DEF Members, Statu
<1>3. v = IF s.conn[c].out > 0 THEN WatchOutput(s, c) ELSE ReleaseInLoop(s, c)
  BY DEF ShutdownInLoop, Put
<1> HIDE DEF m
<1>4. /\ s.conn[c] = m /\ Linked(s) /\ Touches(w, s, c)
      /\ s.channels = w.channels /\ s.epoll = w.epoll /\ s.owner = w.owner
  BY <1>1, <1>2, PutIs
<1> HIDE DEF s, v
<1>5. Watching(s, c)
  BY <1>1, <1>2, <1>4 DEF Watching
<1>6. CASE s.conn[c].out > 0
  <2>1. v = s
    BY <1>3, <1>5, <1>6 DEF Watching, WatchOutput
  <2>2. Attached(s, c) /\ NotIdle(s, c)
    BY <1>2, <1>4, <1>6 DEF Attached, NotIdle
  <2>3. Sound(s)
    BY <1>4, <1>5, <2>2, SoundAfter
  <2>4. ArmsNothing(w, s, c)
    BY <1>2, <1>4 DEF ArmsNothing
  <2>5. Watched(w, c) => Watched(s, c)
    BY <1>2, <1>4, <1>5, <1>6 DEF Watched, Has, Watching
  <2>6. AllSent(w, s, c)
    BY <1>2, <1>4 DEF AllSent
  <2>7. QED
    BY <1>4, <2>1, <2>3, <2>4, <2>5, <2>6 DEF Kept, v
<1>7. CASE ~(s.conn[c].out > 0)
  <2>1. v = ReleaseInLoop(s, c)
    BY <1>3, <1>7
  <2>2. Kept(w, v, c) /\ v.conn[c].out = s.conn[c].out
    BY <1>4, <1>5, <2>1, ReleaseKeeps
  <2>3. s.conn[c].out = 0
    BY <1>1, <1>2, <1>4, <1>7, LoopAssumption DEF Members
  <2>4. QED
    BY <2>2, <2>3 DEF AllSent, v
<1>8. QED
  BY <1>6, <1>7

LEMMA MessageKeeps ==
  ASSUME NEW w, Sound(w), NEW c \in Conn, Lives(w, c), NEW m \in Verdict
  PROVE  LET v == MessageCallback(w, c, m)
         IN  Kept(w, v, c) /\ AllSent(w, v, c)
<1> DEFINE v == MessageCallback(w, c, m)
           t == IF m.responds THEN SendInLoop(w, c) ELSE w
<1>1. Kept(w, t, c) /\ t.conn[c].statu = w.conn[c].statu
  BY SendKeeps, KeptIdle
<1>2. v = IF m.closes THEN ShutdownInLoop(t, c) ELSE t
  BY DEF MessageCallback
<1> HIDE DEF t, v
<1>3. CASE ~m.closes
  BY <1>1, <1>2, <1>3 DEF AllSent, v
<1>4. CASE m.closes
  <2>1. v = ShutdownInLoop(t, c) /\ Sound(t) /\ Lives(t, c) /\ Linked(w)
    BY <1>1, <1>2, <1>4 DEF Kept, Touches, Sound
  <2>2. Kept(t, v, c) /\ AllSent(t, v, c)
    BY <2>1, ShutdownKeeps
  <2>3. Kept(w, v, c)
    BY <1>1, <2>1, <2>2, KeptTransitive
  <2>4. QED
    BY <1>1, <2>2, <2>3 DEF AllSent, v
<1>5. QED
  BY <1>3, <1>4

LEMMA SentKeeps ==
  ASSUME NEW w, Sound(w), NEW c \in Conn, Lives(w, c), Has(w, c), NEW n \in 0 .. w.conn[c].out
  PROVE  LET v == Sent(w, c, n)
         IN  Kept(w, v, c) /\ AllSent(w, v, c)
<1> DEFINE v == Sent(w, c, n)
           o == w.conn[c].out - n
           m == [w.conn[c] EXCEPT !.out = o]
           p == Put(w, c, m)
           f == w.conn[c].fd
           e == p.conn[c].events \ {"out"}
           k == [p.conn[c] EXCEPT !.events = e]
           s == UpdateEvent(Put(p, c, k), c)
<1>1. /\ Linked(w) /\ w.conn[c] \in Members
      /\ Attached(w, c) /\ Watching(w, c)
  BY DEF Sound, Linked, World
<1>2. o \in 0 .. MaxOut /\ o <= w.conn[c].out
  BY <1>1, LoopAssumption DEF Members
<1>3. v = IF p.conn[c].out > 0 THEN p
          ELSE IF s.conn[c].statu = "DISCONNECTING" THEN ReleaseInLoop(s, c) ELSE s
  BY DEF Sent, DisableWrite, Put
<1> HIDE DEF o
<1>4. /\ m \in Members /\ m.statu = w.conn[c].statu /\ m.statu # "absent"
      /\ m.fd = f /\ m.events = w.conn[c].events /\ m.out = o /\ m.timer = w.conn[c].timer
  BY <1>1, <1>2 DEF Members, Lives
<1> HIDE DEF m
<1>5. /\ p.conn[c] = m /\ Linked(p) /\ Touches(w, p, c)
      /\ p.channels = w.channels /\ p.epoll = w.epoll /\ p.owner = w.owner
  BY <1>1, <1>4, PutIs
<1> HIDE DEF p
<1>6. CASE p.conn[c].out > 0
  <2>1. v = p
    BY <1>3, <1>6
  <2>2. Attached(p, c) /\ Watching(p, c) /\ NotIdle(p, c)
    BY <1>1, <1>2, <1>4, <1>5, <1>6, LoopAssumption DEF Attached, Watching, NotIdle, Has, Members
  <2>3. Sound(p)
    BY <1>5, <2>2, SoundAfter
  <2>4. ArmsNothing(w, p, c) /\ (Watched(w, c) => Watched(p, c)) /\ AllSent(w, p, c)
    BY <1>4, <1>5 DEF ArmsNothing, Watched, Has, AllSent
  <2> HIDE DEF v
  <2>5. QED
    BY <1>5, <2>1, <2>3, <2>4 DEF Kept, v
<1>7. CASE ~(p.conn[c].out > 0)
  <2>1. o = 0
    BY <1>2, <1>4, <1>5, <1>7, LoopAssumption
  <2>2. Lives(p, c) /\ Has(p, c) /\ p.conn[c].fd = f /\ e \in SUBSET Event
    BY <1>4, <1>5 DEF Lives, Has, Members
  <2>3. /\ k.statu = w.conn[c].statu /\ k.fd = f /\ k.events = e
        /\ k.out = 0 /\ k.timer = w.conn[c].timer
    BY <1>4, <1>5, <2>1 DEF Members
  <2> HIDE DEF v, e, k
  <2>4. LET u == UpdateEvent(Put(p, c, k), c)
            g == p.conn[c].fd
        IN  /\ u.conn[c] = k /\ Has(u, c) /\ u.channels[g] = c
            /\ (p.channels[g] = c => p.epoll[g] # None) => u.epoll[g] = e
            /\ Linked(u) /\ Touches(p, u, c)
    BY <1>5, <2>2, Asked DEF k
  <2> HIDE DEF s
  <2>5. /\ s.conn[c] = k /\ Has(s, c) /\ s.channels[f] = c
        /\ (w.channels[f] = c => w.epoll[f] # None) => s.epoll[f] = e
        /\ Linked(s) /\ Touches(w, s, c)
    BY <1>1, <1>5, <2>2, <2>4, TouchesTransitive DEF s
  <2>6. Watching(s, c)
    BY <2>3, <2>5 DEF Watching
  <2>7. CASE s.conn[c].statu = "DISCONNECTING"
    <3>1. v = ReleaseInLoop(s, c)
      BY <1>3, <1>7, <2>7
    <3>2. Kept(w, v, c) /\ v.conn[c].out = s.conn[c].out
      BY <2>5, <2>6, <3>1, ReleaseKeeps
    <3>3. QED
      BY <2>3, <2>5, <3>2 DEF AllSent, v
  <2>8. CASE s.conn[c].statu # "DISCONNECTING"
    <3>1. v = s
      BY <1>3, <1>7, <2>8
    <3>2. Attached(s, c) /\ NotIdle(s, c)
      BY <1>1, <2>3, <2>5, <2>8 DEF Attached, NotIdle
    <3>3. Sound(s)
      BY <2>5, <2>6, <3>2, SoundAfter
    <3>4. Watched(w, c) => Watched(s, c)
      <4>1. w.conn[c].events # None
        BY <1>1, LoopAssumption DEF Members
      <4>2. QED
        BY <2>3, <2>5, <4>1 DEF Watched
    <3>5. ArmsNothing(w, s, c) /\ AllSent(w, s, c)
      BY <2>3, <2>5 DEF ArmsNothing, Has, AllSent
    <3>6. QED
      BY <2>5, <3>1, <3>3, <3>4, <3>5 DEF Kept, v
  <2>9. QED
    BY <2>7, <2>8
<1>8. QED
  BY <1>6, <1>7

(* NewConnection: a free descriptor has no channel.                         *)
LEMMA BornSound ==
  ASSUME NEW w, Sound(w), NEW c \in Conn, ~Lives(w, c), NEW f \in Fd, w.owner[f] = None
  PROVE  LET v == Born(w, c, f)
         IN  /\ Sound(v)
             /\ v.conn[c].statu = "CONNECTING" /\ v.conn[c].fd = f
             /\ v.conn[c].events = {} /\ v.conn[c].timer = "none"
             /\ \A d \in Conn \ {c} : v.conn[d] = w.conn[d]
             /\ v.channels = w.channels /\ v.epoll = w.epoll
             /\ v.owner[f] = c /\ \A g \in Fd \ {f} : v.owner[g] = w.owner[g]
             /\ v.channels[f] = None
<1> DEFINE v == Born(w, c, f)
           m == [w.conn[c] EXCEPT !.statu = "CONNECTING", !.fd = f]
<1>1. /\ Linked(w) /\ w \in World /\ w.conn[c] = Unborn
      /\ None \notin Conn /\ c # None
  BY LoopAssumption DEF Sound, Linked
<1>2. w.conn[c] \in Members /\ w.conn \in [Conn -> Members]
  BY <1>1 DEF World
<1>3. /\ m \in Members /\ m.statu = "CONNECTING" /\ m.statu # "absent" /\ m.fd = f
      /\ m.events = {} /\ m.out = 0 /\ m.timer = "none"
  <2>1. w.conn[c].events = {} /\ w.conn[c].out = 0 /\ w.conn[c].timer = "none"
    BY <1>1 DEF Unborn
  <2>2. QED
    BY <1>2, <2>1 DEF Members, Statu
<1>4. w.owner \in [Fd -> Conn \cup {None, Elsewhere}]
  BY <1>1 DEF World
<1>5. /\ v.conn = [w.conn EXCEPT ![c] = m] /\ v.owner = [w.owner EXCEPT ![f] = c]
      /\ v.channels = w.channels /\ v.epoll = w.epoll
  BY <1>1 DEF Born, World
<1>6. v \in World
  <2> HIDE DEF m
  <2>1. [w.conn EXCEPT ![c] = m] \in [Conn -> Members]
    BY <1>2, <1>3
  <2>2. Put(w, c, m) \in World
    BY <1>1, <2>1 DEF Put, World
  <2>3. v = [Put(w, c, m) EXCEPT !.owner[f] = c]
    BY DEF Born, Put, m
  <2>4. ASSUME NEW u \in World PROVE [u EXCEPT !.owner[f] = c] \in World
    BY InWorld
  <2>5. QED
    BY <2>2, <2>3, <2>4
<1> HIDE DEF m
<1>7. /\ v.conn[c] = m /\ \A d \in Conn \ {c} : v.conn[d] = w.conn[d]
      /\ v.owner[f] = c /\ \A g \in Fd \ {f} : v.owner[g] = w.owner[g]
  BY <1>2, <1>4, <1>5
<1> HIDE DEF v
<1>8. v.channels[f] = None
  BY <1>1, <1>5 DEF Linked
<1>9. Linked(v)
  <2>1. \A d \in Conn : Lives(v, d) => v.conn[d].fd \in Fd
    BY <1>1, <1>3, <1>7 DEF Linked, Lives
  <2>2. \A d \in Conn : ~Lives(v, d) => v.conn[d] = Unborn
    BY <1>1, <1>3, <1>7 DEF Linked, Lives
  <2>3. \A g \in Fd : v.owner[g] \in Conn => Lives(v, v.owner[g]) /\ v.conn[v.owner[g]].fd = g
    BY <1>1, <1>3, <1>7 DEF Linked, Lives
  <2>4. \A g \in Fd : v.channels[g] # None => v.owner[g] = v.channels[g]
    BY <1>1, <1>5, <1>7, <1>8 DEF Linked
  <2>5. QED
    BY <1>1, <1>5, <1>6, <2>1, <2>2, <2>3, <2>4 DEF Linked
<1>10. Sound(v)
  <2>1. SUFFICES ASSUME NEW d \in Conn PROVE Attached(v, d) /\ Watching(v, d) /\ NotIdle(v, d)
    BY <1>9 DEF Sound
  <2>2. CASE d = c
    BY <1>3, <1>7, <2>2 DEF Attached, Watching, NotIdle, Has
  <2>3. CASE d # c /\ Lives(w, d)
    <3>1. w.conn[d].fd \in Fd /\ Attached(w, d) /\ Watching(w, d) /\ NotIdle(w, d) /\ None # d
      BY <1>1, <2>3 DEF Sound, Linked
    <3>2. v.conn[d] = w.conn[d] /\ (Has(v, d) <=> Has(w, d))
      BY <1>7, <2>3, <3>1 DEF Has
    <3>3. QED
      BY <3>1, <3>2 DEF Attached, Watching, NotIdle
  <2>4. CASE d # c /\ ~Lives(w, d)
    BY <1>1, <1>7, <2>4 DEF Linked, Lives, Unborn, Attached, Watching, NotIdle
  <2>5. QED
    BY <2>2, <2>3, <2>4
<1>11. QED
  BY <1>3, <1>5, <1>7, <1>8, <1>10 DEF v

-------------------------------------------------------------------------------
(* The loop around the operations.                                          *)

Revents == {"in", "out", "hup"}
Op      == {"established", "enable", "cancel", "send", "shutdown", "release"}

(* Whatever refers to a connection refers to one that was accepted, and     *)
(* each part of a round leaves nothing for the next one.                    *)
RoundInv ==
  /\ tasks \in Seq(Op \X Conn) /\ functor \in Seq(Op \X Conn)
  /\ actives \in [Conn -> SUBSET Revents]
  /\ handling \in {None} \cup [conn : Conn, revents : SUBSET Revents]
  /\ accepting \in Conn \cup {None}
  /\ \A i \in DOMAIN tasks : Lives(Now, tasks[i][2])
  /\ \A i \in DOMAIN functor : Lives(Now, functor[i][2])
  /\ \A c \in Conn : actives[c] # {} => Lives(Now, c)
  /\ handling # None => Lives(Now, handling.conn)
  /\ accepting # None => Lives(Now, accepting)
  /\ handling # None => loc = "handle"
  /\ loc # "handle" => actives = Idle
  /\ functor # <<>> => loc = "tasks"

ConnInv == Sound(Now) /\ RoundInv

LEMMA NowIs ==
  ASSUME NEW w, w \in World, Becomes(w)
  PROVE  Now' = w
BY DEF World, Becomes, Now

LEMMA HandleReadKeeps ==
  ASSUME ConnInv, HandleRead
  PROVE  /\ Current \in Conn /\ Lives(Now, Current) /\ handling # None
         /\ Kept(Now, Now', Current) /\ AllSent(Now, Now', Current)
<1> DEFINE c == Current
<1>1. c \in Conn /\ Lives(Now, c) /\ handling # None /\ Sound(Now)
  BY DEF HandleRead, ConnInv, RoundInv, Current
<1>2. CASE \E m \in Verdict : Becomes(MessageCallback(Now, c, m))
  <2>1. PICK m \in Verdict : Becomes(MessageCallback(Now, c, m))
    BY <1>2
  <2> DEFINE v == MessageCallback(Now, c, m)
  <2>2. Kept(Now, v, c) /\ AllSent(Now, v, c)
    BY <1>1, MessageKeeps
  <2>3. v \in World
    BY <2>2 DEF Kept, Sound, Linked
  <2>4. Now' = v
    BY <2>1, <2>3, NowIs
  <2>5. QED
    BY <1>1, <2>2, <2>4
<1>3. CASE UNCHANGED <<conn, channels, epoll, owner>>
  <2>1. Now' = Now
    BY <1>3 DEF Now
  <2>2. Kept(Now, Now, c) /\ AllSent(Now, Now, c)
    BY <1>1, KeptIdle DEF AllSent
  <2>3. QED
    BY <1>1, <2>1, <2>2
<1>4. CASE Becomes(ShutdownInLoop(Now, c))
  <2> DEFINE v == ShutdownInLoop(Now, c)
  <2>1. Kept(Now, v, c) /\ AllSent(Now, v, c)
    BY <1>1, ShutdownKeeps
  <2>2. v \in World
    BY <2>1 DEF Kept, Sound, Linked
  <2>3. Now' = v
    BY <1>4, <2>2, NowIs
  <2>4. QED
    BY <1>1, <2>1, <2>3
<1>5. QED
  BY <1>2, <1>3, <1>4 DEF HandleRead

(* An error of send() is the only way to a release with output left.        *)
LEMMA HandleWriteKeeps ==
  ASSUME ConnInv, HandleWrite
  PROVE  /\ Current \in Conn /\ Lives(Now, Current) /\ handling # None
         /\ Kept(Now, Now', Current)
         /\ AllSent(Now, Now', Current) \/ ~HasSocket(Current) \/ Reset(Current)
<1> DEFINE c == Current
<1>1. c \in Conn /\ Lives(Now, c) /\ handling # None /\ Sound(Now)
  BY DEF HandleWrite, ConnInv, RoundInv, Current
<1>2. CASE HasSocket(c) /\ ~Reset(c)
  <2>1. PICK n \in 0 .. conn[c].out : Becomes(Sent(Now, c, n))
    BY <1>2 DEF HandleWrite
  <2> DEFINE v == Sent(Now, c, n)
  <2>2. Has(Now, c) /\ n \in 0 .. Now.conn[c].out
    BY <1>2, <2>1 DEF HasSocket, Has, Now
  <2>3. Kept(Now, v, c) /\ AllSent(Now, v, c)
    BY <1>1, <2>2, SentKeeps
  <2>4. v \in World
    BY <2>3 DEF Kept, Sound, Linked
  <2>5. Now' = v
    BY <2>1, <2>4, NowIs
  <2>6. QED
    BY <1>1, <2>3, <2>5
<1>3. CASE ~HasSocket(c) \/ Reset(c)
  <2> DEFINE v == ReleaseInLoop(Now, c)
  <2>1. Becomes(v)
    BY <1>3 DEF HandleWrite
  <2>2. Kept(Now, v, c)
    BY <1>1, ReleasedKeeps
  <2>3. v \in World
    BY <2>2 DEF Kept, Sound, Linked
  <2>4. Now' = v
    BY <2>1, <2>3, NowIs
  <2>5. QED
    BY <1>1, <1>3, <2>2, <2>4
<1>4. QED
  BY <1>2, <1>3

LEMMA HandleCloseKeeps ==
  ASSUME ConnInv, HandleClose
  PROVE  /\ Current \in Conn /\ Lives(Now, Current) /\ handling # None
         /\ Kept(Now, Now', Current)
<1> DEFINE c == Current
           v == ReleaseInLoop(Now, c)
<1>1. c \in Conn /\ Lives(Now, c) /\ handling # None /\ Sound(Now) /\ Becomes(v)
  BY DEF HandleClose, ConnInv, RoundInv, Current
<1>2. Kept(Now, v, c)
  BY <1>1, ReleasedKeeps
<1>3. v \in World
  BY <1>2 DEF Kept, Sound, Linked
<1>4. Now' = v
  BY <1>1, <1>3, NowIs
<1>5. QED
  BY <1>1, <1>2, <1>4

(* A timer that expires releases its connection if it was not cancelled.    *)
LEMMA ExpireTimerKeeps ==
  ASSUME ConnInv, NEW c \in Conn, ExpireTimer(c)
  PROVE  /\ Lives(Now, c) /\ Kept(Now, Now', c)
         /\ conn[c].timer = "armed" => Now'.channels[conn[c].fd] = None
         /\ conn[c].timer = "armed" \/ (channels' = channels /\ epoll' = epoll
                                          /\ conn'[c].statu = conn[c].statu)
<1> DEFINE w == IF conn[c].timer = "armed" THEN ReleaseInLoop(Now, c) ELSE Now
           m == [w.conn[c] EXCEPT !.timer = "none"]
           v == Put(w, c, m)
<1>1. Sound(Now) /\ conn[c].timer # "none" /\ Now.conn[c] = conn[c]
  BY DEF ExpireTimer, ConnInv, Now
<1>2. Lives(Now, c)
  BY <1>1 DEF Sound, Linked, Unborn
<1>3. Kept(Now, w, c)
  BY <1>1, <1>2, ReleasedKeeps, KeptIdle
<1>4. Becomes(v)
  BY DEF ExpireTimer, Put
<1>5. /\ conn[c].timer # "armed" => w = Now
      /\ conn[c].timer = "armed" => w.channels[conn[c].fd] = None
  <2>1. CASE conn[c].timer = "armed"
    BY <1>1, <1>2, <2>1, ReleasedKeeps
  <2>2. CASE conn[c].timer # "armed"
    BY <2>2
  <2>3. QED
    BY <2>1, <2>2
<1> HIDE DEF w
<1>6. Sound(w) /\ Lives(w, c) /\ Linked(Now)
  BY <1>1, <1>3 DEF Kept, Touches, Sound
<1>7. w.conn[c] \in Members /\ Watching(w, c) /\ NotIdle(w, c)
  BY <1>6 DEF Sound, Linked, World
<1>8. /\ m \in Members /\ m.statu = w.conn[c].statu /\ m.fd = w.conn[c].fd
      /\ m.events = w.conn[c].events /\ m.out = w.conn[c].out /\ m.timer = "none"
  BY <1>7 DEF Members, Timer
<1> HIDE DEF m
<1>9. /\ m.out > 0 => "out" \in m.events
      /\ m.statu = "DISCONNECTING" => m.out > 0
  BY <1>7, <1>8 DEF Watching, NotIdle
<1>10. /\ v.conn[c] = m /\ Sound(v) /\ Touches(w, v, c)
       /\ v.channels = w.channels /\ v.epoll = w.epoll /\ v.owner = w.owner
       /\ Watched(w, c) => Watched(v, c)
  BY <1>6, <1>8, <1>9, PutKeeps
<1> HIDE DEF v
<1>11. Kept(w, v, c)
  BY <1>8, <1>10 DEF Kept, ArmsNothing
<1>12. Kept(Now, v, c)
  BY <1>2, <1>3, <1>6, <1>11, KeptTransitive
<1>13. v \in World
  BY <1>10 DEF Sound, Linked
<1>14. Now' = v
  BY <1>4, <1>13, NowIs
<1>15. conn' = v.conn /\ channels' = v.channels /\ epoll' = v.epoll
  BY <1>14 DEF Now
<1>16. QED
  BY <1>2, <1>5, <1>8, <1>10, <1>12, <1>14, <1>15 DEF Now

(* A new connection touches nothing of the others.                          *)
Accepts(w, v, c, f) ==
  /\ Sound(v) /\ ~Lives(w, c) /\ Lives(v, c) /\ f \in Fd
  /\ \A d \in Conn \ {c} : v.conn[d] = w.conn[d]
  /\ v.conn[c].fd = f /\ w.owner[f] = None /\ v.owner[f] = c
  /\ v.channels[f] \in {None, c}
  /\ \A g \in Fd \ {f} :
       v.channels[g] = w.channels[g] /\ v.epoll[g] = w.epoll[g] /\ v.owner[g] = w.owner[g]
  /\ Watched(v, c)

LEMMA AcceptInBaseLoopKeeps ==
  ASSUME ConnInv, NEW c \in Conn, NEW f \in Fd, AcceptInBaseLoop(c, f)
  PROVE  /\ Accepts(Now, Now', c, f)
         /\ channels' = channels
         /\ conn'[c].statu = "CONNECTING" /\ conn'[c].timer = "none"
<1> DEFINE v == Born(Now, c, f)
<1>1. Sound(Now) /\ ~Lives(Now, c) /\ Now.owner[f] = None /\ Becomes(v)
  BY DEF AcceptInBaseLoop, CanBeBorn, ConnInv, Lives, Now
<1>2. /\ Sound(v)
      /\ v.conn[c].statu = "CONNECTING" /\ v.conn[c].fd = f
      /\ v.conn[c].events = {} /\ v.conn[c].timer = "none"
      /\ \A d \in Conn \ {c} : v.conn[d] = Now.conn[d]
      /\ v.channels = Now.channels /\ v.epoll = Now.epoll
      /\ v.owner[f] = c /\ \A g \in Fd \ {f} : v.owner[g] = Now.owner[g]
      /\ v.channels[f] = None
  BY <1>1, BornSound
<1> HIDE DEF v
<1>3. v \in World
  BY <1>2 DEF Sound, Linked
<1>4. Now' = v
  BY <1>1, <1>3, NowIs
<1>5. Watched(v, c)
  BY <1>2, LoopAssumption DEF Watched
<1>6. Accepts(Now, v, c, f)
  BY <1>1, <1>2, <1>5 DEF Accepts, Lives
<1>7. conn' = v.conn /\ channels' = v.channels /\ Now.channels = channels
  BY <1>4 DEF Now
<1>8. QED
  BY <1>2, <1>4, <1>6, <1>7

LEMMA AcceptInLoopKeeps ==
  ASSUME ConnInv, NEW c \in Conn, NEW f \in Fd, AcceptInLoop(c, f)
  PROVE  /\ Accepts(Now, Now', c, f)
         /\ conn'[c].timer = "armed" => Has(Now', c)
         /\ Inactive = FALSE => conn'[c].timer # "armed"
<1> DEFINE b == Born(Now, c, f)
           e == IF Inactive THEN EnableInactiveRelease(b, c) ELSE b
           v == Established(e, c)
<1>1. Sound(Now) /\ ~Lives(Now, c) /\ Now.owner[f] = None /\ Becomes(v)
  BY DEF AcceptInLoop, CanBeBorn, ConnInv, Lives, Now
<1>2. /\ Sound(b)
      /\ b.conn[c].statu = "CONNECTING" /\ b.conn[c].fd = f
      /\ b.conn[c].events = {} /\ b.conn[c].timer = "none"
      /\ \A d \in Conn \ {c} : b.conn[d] = Now.conn[d]
      /\ b.channels = Now.channels /\ b.epoll = Now.epoll
      /\ b.owner[f] = c /\ \A g \in Fd \ {f} : b.owner[g] = Now.owner[g]
      /\ b.channels[f] = None
  BY <1>1, BornSound
<1> HIDE DEF b
<1>3. Lives(b, c) /\ Watched(b, c) /\ Touches(b, b, c)
  BY <1>2, LoopAssumption DEF Lives, Watched, Touches
<1>4. /\ Sound(e) /\ Touches(b, e, c) /\ Lives(e, c) /\ Watched(e, c)
      /\ e.conn[c].statu = "CONNECTING"
      /\ ~Inactive => e = b
  <2>1. CASE Inactive
    BY <1>2, <1>3, <2>1, EnableKeeps DEF Touches
  <2>2. CASE ~Inactive
    BY <1>2, <1>3, <2>2
  <2>3. QED
    BY <2>1, <2>2
<1> HIDE DEF e
<1>5. Kept(e, v, c) /\ (v = e \/ v.conn[c].statu = "CONNECTED")
  BY <1>4, EstablishedKeeps
<1> HIDE DEF v
<1>6. Sound(v) /\ Watched(v, c) /\ Touches(b, v, c)
  BY <1>2, <1>3, <1>4, <1>5, TouchesTransitive DEF Kept, Sound
<1>7. Has(v, c) /\ v.conn[c].fd = f
  BY <1>2, <1>4, <1>5, <1>6 DEF Sound, Attached, Touches
<1>8. Accepts(Now, v, c, f)
  <2>1. v.owner[f] = c /\ Lives(v, c) /\ v.channels[f] \in {None, c}
    BY <1>2, <1>6, <1>7 DEF Has, Touches
  <2>2. \A d \in Conn \ {c} : v.conn[d] = Now.conn[d]
    BY <1>2, <1>6 DEF Touches
  <2>3. \A g \in Fd \ {f} :
          v.channels[g] = Now.channels[g] /\ v.epoll[g] = Now.epoll[g] /\ v.owner[g] = Now.owner[g]
    BY <1>2, <1>6 DEF Touches
  <2>4. QED
    BY <1>1, <1>6, <1>7, <2>1, <2>2, <2>3 DEF Accepts
<1>9. v \in World
  BY <1>6 DEF Sound, Linked
<1>10. Now' = v /\ conn' = v.conn
  <2>1. Now' = v
    BY <1>1, <1>9, NowIs
  <2>2. QED
    BY <2>1 DEF Now
<1>11. Inactive = FALSE => conn'[c].timer # "armed"
  BY <1>2, <1>4, <1>5, <1>10 DEF Kept, ArmsNothing
<1>12. QED
  BY <1>7, <1>8, <1>10, <1>11

LEMMA PerformKeeps ==
  ASSUME NEW w, Sound(w), NEW c \in Conn, Lives(w, c), NEW op \in Op
  PROVE  LET v == Perform(op, w, c)
         IN  /\ Sound(v) /\ Touches(w, v, c)
             /\ Watched(w, c) => Watched(v, c)
             /\ op # "enable" => Kept(w, v, c)
             /\ op \in {"established", "enable", "cancel", "send"} /\ ~Has(w, c)
                  => v.channels = w.channels /\ v.epoll = w.epoll
             /\ op # "release" => AllSent(w, v, c)
<1>1. CASE op = "established"
  BY <1>1, EstablishedKeeps DEF Perform, Kept, AllSent
<1>2. CASE op = "enable"
  BY <1>2, EnableKeeps DEF Perform, AllSent
<1>3. CASE op = "cancel"
  BY <1>3, CancelKeeps DEF Perform, Kept, AllSent
<1>4. CASE op = "send"
  BY <1>4, SendKeeps DEF Perform, Kept, AllSent
<1>5. CASE op = "shutdown"
  BY <1>5, ShutdownKeeps DEF Perform, Kept
<1>6. CASE op = "release"
  BY <1>6, ReleasedKeeps DEF Perform, Kept
<1>7. QED
  BY <1>1, <1>2, <1>3, <1>4, <1>5, <1>6 DEF Op

LEMMA RunTaskKeeps ==
  ASSUME ConnInv, RunTask
  PROVE  LET op == Head(functor)[1]
             c  == Head(functor)[2]
         IN  /\ op \in Op /\ c \in Conn /\ Lives(Now, c)
             /\ Now' = Perform(op, Now, c)
             /\ Sound(Now') /\ Touches(Now, Now', c)
<1> DEFINE op == Head(functor)[1]
           c  == Head(functor)[2]
           v  == Perform(op, Now, c)
<1>1. Sound(Now) /\ functor \in Seq(Op \X Conn) /\ functor # <<>> /\ Becomes(v)
  BY DEF RunTask, ConnInv, RoundInv
<1>2. Head(functor) = functor[1] /\ 1 \in DOMAIN functor /\ functor[1] \in Op \X Conn
  BY <1>1
<1>3. op \in Op /\ c \in Conn
  BY <1>2
<1>4. Lives(Now, c)
  BY <1>2 DEF ConnInv, RoundInv
<1> HIDE DEF op, c
<1>5. Sound(v) /\ Touches(Now, v, c)
  BY <1>1, <1>3, <1>4, PerformKeeps
<1>6. v \in World
  BY <1>5 DEF Sound, Linked
<1>7. Now' = v
  BY <1>1, <1>6, NowIs
<1>8. QED
  BY <1>3, <1>4, <1>5, <1>7 DEF op, c

(* Descriptors that come and go elsewhere.                                  *)
LEMMA ElsewhereKeeps ==
  ASSUME ConnInv, NEW f \in Fd, TakeElsewhere(f) \/ CloseElsewhere(f)
  PROVE  /\ Sound(Now')
         /\ conn' = conn /\ channels' = channels
         /\ owner[f] \notin Conn /\ owner'[f] \notin Conn
         /\ \A g \in Fd \ {f} : owner'[g] = owner[g] /\ epoll'[g] = epoll[g]
         /\ \A c \in Conn : Lives(Now, c) => Has(Now', c) = Has(Now, c)
<1>1. /\ conn' = conn /\ channels' = channels
      /\ owner[f] \in {None, Elsewhere} /\ None \notin Conn /\ Elsewhere \notin Conn
      /\ None # Elsewhere
  BY LoopAssumption DEF TakeElsewhere, CloseElsewhere
<1>2. /\ owner \in [Fd -> Conn \cup {None, Elsewhere}]
      /\ epoll \in [Fd -> (SUBSET Event) \cup {None}]
      /\ Now \in World
  BY DEF ConnInv, Sound, Linked, World, Now
<1>3. /\ owner'[f] \in {None, Elsewhere}
      /\ \A g \in Fd \ {f} : owner'[g] = owner[g] /\ epoll'[g] = epoll[g]
      /\ epoll'[f] \in {None, epoll[f]}
      /\ owner' \in [Fd -> Conn \cup {None, Elsewhere}]
      /\ epoll' \in [Fd -> (SUBSET Event) \cup {None}]
  <2>1. CASE TakeElsewhere(f)
    BY <1>2, <2>1 DEF TakeElsewhere
  <2>2. CASE CloseElsewhere(f)
    BY <1>2, <2>2 DEF CloseElsewhere
  <2>3. QED
    BY <2>1, <2>2
<1>4. ASSUME NEW c \in Conn, Lives(Now, c) PROVE Has(Now', c) = Has(Now, c)
  <2>1. conn[c].fd \in Fd
    BY <1>4 DEF ConnInv, Sound, Linked, Now
  <2>2. QED
    BY <1>1, <1>3, <2>1 DEF Has, Now
<1>5. Linked(Now')
  <2>1. Now' \in World
    BY <1>1, <1>2, <1>3 DEF World, Now
  <2>2. \A g \in Fd : channels[g] # None => owner'[g] = channels[g]
    <3>1. channels \in [Fd -> Conn \cup {None}] /\ channels[f] = None
      BY <1>1, <1>2 DEF World, Now, ConnInv, Sound, Linked
    <3>2. QED
      BY <1>3, <3>1 DEF ConnInv, Sound, Linked, Now
  <2>3. \A g \in Fd : epoll'[g] # None => channels[g] # None
    BY <1>3 DEF ConnInv, Sound, Linked, Now
  <2>4. \A g \in Fd : owner'[g] \in Conn => Lives(Now, owner'[g]) /\ conn[owner'[g]].fd = g
    BY <1>1, <1>3 DEF ConnInv, Sound, Linked, Now
  <2>5. QED
    BY <1>1, <2>1, <2>2, <2>3, <2>4 DEF ConnInv, Sound, Linked, Now, Lives
<1>6. Sound(Now')
  <2>1. ASSUME NEW c \in Conn
        PROVE  Attached(Now', c) /\ Watching(Now', c) /\ NotIdle(Now', c)
    <3>1. Now'.conn[c] = Now.conn[c]
      BY <1>1 DEF Now
    <3>2. Attached(Now, c) /\ Watching(Now, c) /\ NotIdle(Now, c)
      BY DEF ConnInv, Sound
    <3>3. CASE Lives(Now, c)
      BY <1>4, <3>1, <3>2, <3>3 DEF Attached, Watching, NotIdle
    <3>4. CASE ~Lives(Now, c)
      BY <3>1, <3>2, <3>4 DEF Attached, Watching, NotIdle, Lives
    <3>5. QED
      BY <3>3, <3>4
  <2>2. QED
    BY <1>5, <2>1 DEF Sound
<1>7. QED
  BY <1>1, <1>3, <1>4, <1>6

-------------------------------------------------------------------------------
(* The inductive invariant.                                                 *)

Unchanged == UNCHANGED <<conn, channels, epoll, owner>>

(* The steps that do nothing to the connections.                            *)
Bookkeeping ==
  \/ Poll \/ (\E c \in Conn : BeginChannel(c)) \/ EndChannel
  \/ (\E o \in others : EndOther(o)) \/ SwapTasks \/ EndTasks
  \/ QueueEstablished
  \/ (\E op \in AppOps, c \in Conn : CallFromOutside(op, c))
  \/ (\E c \in Conn : Peer(c) \/ PeerReads(c))
  \/ UNCHANGED vars

LEMMA BookkeepingIs ==
  ASSUME Bookkeeping
  PROVE  Now' = Now /\ Unchanged
<1>1. Unchanged
  BY DEF Bookkeeping, Unchanged, Poll, BeginChannel, EndChannel, EndOther, SwapTasks,
         EndTasks, QueueEstablished, CallFromOutside, Peer, PeerReads, vars
<1>2. QED
  BY <1>1 DEF Unchanged, Now

(* The steps that do.                                                       *)
LEMMA StepIs ==
  ASSUME [Next]_vars
  PROVE  \/ Bookkeeping
         \/ HandleRead \/ HandleWrite \/ HandleClose \/ RunTask
         \/ \E c \in Conn : ExpireTimer(c)
         \/ \E c \in Conn, f \in Fd : AcceptInBaseLoop(c, f)
         \/ \E c \in Conn, f \in Fd : AcceptInLoop(c, f)
         \/ \E f \in Fd : TakeElsewhere(f) \/ CloseElsewhere(f)
BY DEF Next, LoopStep, Bookkeeping

LEMMA SoundInit == ASSUME Init PROVE ConnInv
<1>1. Now \in World
  <2>1. Unborn \in Members
    BY LoopAssumption DEF Unborn, Members, Statu, Timer
  <2>2. QED
    BY <2>1 DEF Init, World, Now
<1>2. /\ \A c \in Conn : Now.conn[c] = Unborn
      /\ \A f \in Fd : Now.owner[f] = None /\ Now.channels[f] = None /\ Now.epoll[f] = None
  BY DEF Init, Now
<1>3. Sound(Now)
  BY <1>1, <1>2, LoopAssumption
     DEF Sound, Linked, Lives, Attached, Watching, NotIdle, Unborn
<1>4. RoundInv
  BY DEF Init, RoundInv, Idle
<1>5. QED
  BY <1>3, <1>4 DEF ConnInv

LEMMA SoundStep ==
  ASSUME ConnInv, [Next]_vars
  PROVE  Sound(Now') /\ \A c \in Conn : Lives(Now, c) => Lives(Now', c)
<1>1. Sound(Now)
  BY DEF ConnInv
<1>2. ASSUME NEW c \in Conn, Touches(Now, Now', c)
      PROVE  \A d \in Conn : Lives(Now, d) => Lives(Now', d)
  BY <1>2 DEF Touches, Lives
<1>3. CASE Bookkeeping
  BY <1>1, <1>3, BookkeepingIs
<1>4. CASE HandleRead
  BY <1>2, <1>4, HandleReadKeeps DEF Kept
<1>5. CASE HandleWrite
  BY <1>2, <1>5, HandleWriteKeeps DEF Kept
<1>6. CASE HandleClose
  BY <1>2, <1>6, HandleCloseKeeps DEF Kept
<1>7. CASE RunTask
  BY <1>2, <1>7, RunTaskKeeps
<1>8. CASE \E c \in Conn : ExpireTimer(c)
  BY <1>2, <1>8, ExpireTimerKeeps DEF Kept
<1>9. ASSUME NEW c \in Conn, NEW f \in Fd, Accepts(Now, Now', c, f)
      PROVE  Sound(Now') /\ \A d \in Conn : Lives(Now, d) => Lives(Now', d)
  BY <1>9 DEF Accepts, Lives
<1>10. CASE \E c \in Conn, f \in Fd : AcceptInBaseLoop(c, f)
  BY <1>9, <1>10, AcceptInBaseLoopKeeps
<1>11. CASE \E c \in Conn, f \in Fd : AcceptInLoop(c, f)
  BY <1>9, <1>11, AcceptInLoopKeeps
<1>12. CASE \E f \in Fd : TakeElsewhere(f) \/ CloseElsewhere(f)
  <2>1. Sound(Now') /\ conn' = conn
    BY <1>12, ElsewhereKeeps
  <2>2. QED
    BY <2>1 DEF Lives, Now
<1>13. QED
  BY <1>3, <1>4, <1>5, <1>6, <1>7, <1>8, <1>10, <1>11, <1>12, StepIs

LEMMA AppendIs ==
  ASSUME NEW S, NEW q \in Seq(S), NEW e \in S
  PROVE  /\ Append(q, e) \in Seq(S) /\ Len(Append(q, e)) = Len(q) + 1
         /\ \A i \in DOMAIN Append(q, e) :
              \/ i \in DOMAIN q /\ Append(q, e)[i] = q[i]
              \/ i = Len(q) + 1 /\ Append(q, e)[i] = e
OBVIOUS

LEMMA TailIs ==
  ASSUME NEW S, NEW q \in Seq(S), q # <<>>
  PROVE  /\ Tail(q) \in Seq(S)
         /\ \A i \in DOMAIN Tail(q) : i + 1 \in DOMAIN q /\ Tail(q)[i] = q[i + 1]
OBVIOUS

LEMMA OpsAreOps == AppOps \subseteq Op
BY LoopAssumption DEF Op

LEMMA RoundStep ==
  ASSUME ConnInv, [Next]_vars
  PROVE  RoundInv'
<1> USE DEF ConnInv
<1>1. RoundInv /\ \A c \in Conn : Lives(Now, c) => Lives(Now', c)
  BY SoundStep
<1> DEFINE Waits(q) == q \in Seq(Op \X Conn) /\ \A i \in DOMAIN q : Lives(Now', q[i][2])
           Rest == /\ actives \in [Conn -> SUBSET Revents]
                   /\ \A c \in Conn : actives[c] # {} => Lives(Now, c)
                   /\ handling \in {None} \cup [conn : Conn, revents : SUBSET Revents]
                   /\ handling # None => Lives(Now, handling.conn)
                   /\ handling # None => loc = "handle"
                   /\ loc # "handle" => actives = Idle
                   /\ functor # <<>> => loc = "tasks"
                   /\ accepting \in Conn \cup {None}
                   /\ accepting # None => Lives(Now, accepting)
<1>2. Waits(tasks) /\ Waits(functor)
  <2>1. ASSUME NEW q \in Seq(Op \X Conn), \A i \in DOMAIN q : Lives(Now, q[i][2])
        PROVE  Waits(q)
    <3>1. \A i \in DOMAIN q : q[i][2] \in Conn
      OBVIOUS
    <3>2. QED
      BY <1>1, <2>1, <3>1
  <2>2. QED
    BY <1>1, <2>1 DEF RoundInv
<1>3. ASSUME Waits(tasks'), Waits(functor'), Rest'
      PROVE  RoundInv'
  BY <1>3 DEF RoundInv
<1>4. Rest
  BY <1>1 DEF RoundInv
<1>5. ASSUME NEW c \in Conn, NEW op \in Op, Lives(Now', c), tasks' = Append(tasks, <<op, c>>)
      PROVE  Waits(tasks')
  BY <1>2, <1>5, AppendIs
<1>6. CASE Poll
  <2>1. \A c \in Conn : actives'[c] \in SUBSET Revents
    BY <1>6 DEF Poll, Ready, Revents
  <2>2. ASSUME NEW c \in Conn, actives'[c] # {} PROVE Lives(Now', c)
    <3>1. \E f \in Fd : channels[f] = c
      BY <1>6, <2>2 DEF Poll
    <3>2. Lives(Now, c)
      BY <3>1, LoopAssumption DEF Sound, Linked, Now
    <3>3. QED
      BY <1>1, <3>2
  <2>3. actives' \in [Conn -> SUBSET Revents]
    BY <1>6, <2>1 DEF Poll
  <2> HIDE DEF Waits
  <2>4. Rest'
    BY <1>1, <1>4, <1>6, <2>2, <2>3 DEF Poll
  <2>5. QED
    BY <1>2, <1>3, <1>6, <2>4 DEF Poll
<1>7. CASE \E c \in Conn : BeginChannel(c)
  <2>1. PICK c \in Conn : BeginChannel(c)
    BY <1>7
  <2>2. actives[c] \in SUBSET Revents
    BY <1>4
  <2> HIDE DEF Waits
  <2>3. Rest'
    BY <1>1, <1>4, <2>1, <2>2 DEF BeginChannel
  <2>4. QED
    BY <1>2, <1>3, <2>1, <2>3 DEF BeginChannel
<1>8. CASE HandleRead \/ HandleWrite \/ HandleClose \/ EndChannel
  <2>1. /\ handling' \in {None} \cup [conn : Conn, revents : SUBSET Revents]
        /\ handling' # None => handling # None /\ handling'.conn = handling.conn
    BY <1>4, <1>8 DEF HandleRead, HandleWrite, HandleClose, EndChannel, Handled
  <2>2. UNCHANGED <<tasks, functor, actives, accepting, loc>>
    BY <1>8 DEF HandleRead, HandleWrite, HandleClose, EndChannel, Handled
  <2>3. handling' # None => handling'.conn \in Conn
    BY <1>4, <2>1
  <2> HIDE DEF Waits
  <2>4. Rest'
    BY <1>1, <1>4, <2>1, <2>2, <2>3
  <2>5. QED
    BY <1>2, <1>3, <2>2, <2>4
<1>9. CASE UNCHANGED <<tasks, functor, actives, handling, accepting, loc>>
  <2> HIDE DEF Waits
  <2>1. handling # None => handling.conn \in Conn
    BY <1>4
  <2>2. Rest'
    BY <1>1, <1>4, <1>9, <2>1
  <2>3. QED
    BY <1>2, <1>3, <1>9, <2>2
<1>10. CASE SwapTasks
  <2>1. Waits(functor') /\ Waits(tasks')
    <3>1. Waits(<<>>)
      OBVIOUS
    <3>2. QED
      BY <1>2, <1>10, <3>1 DEF SwapTasks
  <2> HIDE DEF Waits
  <2>2. Rest'
    BY <1>1, <1>4, <1>10 DEF SwapTasks
  <2>3. QED
    BY <1>3, <2>1, <2>2
<1>11. CASE RunTask
  <2>1. Waits(functor') /\ tasks' = tasks
    BY <1>2, <1>11, TailIs DEF RunTask
  <2> HIDE DEF Waits
  <2>2. handling = None
    BY <1>4, <1>11 DEF RunTask
  <2>3. Rest'
    BY <1>1, <1>4, <1>11, <2>2 DEF RunTask
  <2>4. QED
    BY <1>2, <1>3, <2>1, <2>3
<1>12. CASE EndTasks
  <2> HIDE DEF Waits
  <2>1. handling = None
    BY <1>4, <1>12 DEF EndTasks
  <2>2. Rest'
    BY <1>1, <1>4, <1>12, <2>1 DEF EndTasks
  <2>3. QED
    BY <1>2, <1>3, <1>12, <2>2 DEF EndTasks
<1>13. CASE QueueEstablished
  <2>1. accepting \in Conn /\ Lives(Now', accepting)
    BY <1>1, <1>4, <1>13 DEF QueueEstablished
  <2>2. Waits(tasks')
    BY <1>5, <1>13, <2>1 DEF QueueEstablished, Op
  <2> HIDE DEF Waits
  <2>3. handling # None => handling.conn \in Conn
    BY <1>4
  <2>4. Rest'
    BY <1>1, <1>4, <1>13, <2>3 DEF QueueEstablished
  <2>5. QED
    BY <1>2, <1>3, <1>13, <2>2, <2>4 DEF QueueEstablished
<1>14. CASE \E op \in AppOps, c \in Conn : CallFromOutside(op, c)
  <2>1. PICK op \in AppOps, c \in Conn : CallFromOutside(op, c)
    BY <1>14
  <2>2. Lives(Now, c)
    BY <2>1 DEF CallFromOutside, Lives, Now
  <2>3. Waits(tasks')
    BY <1>1, <1>5, <2>1, <2>2, OpsAreOps DEF CallFromOutside
  <2> HIDE DEF Waits
  <2>4. handling # None => handling.conn \in Conn
    BY <1>4
  <2>5. Rest'
    BY <1>1, <1>4, <2>1, <2>4 DEF CallFromOutside
  <2>6. QED
    BY <1>2, <1>3, <2>1, <2>3, <2>5 DEF CallFromOutside
<1>15. CASE \E c \in Conn, f \in Fd : AcceptInBaseLoop(c, f)
  <2>1. PICK c \in Conn, f \in Fd : AcceptInBaseLoop(c, f)
    BY <1>15
  <2>2. Lives(Now', c)
    BY <2>1, AcceptInBaseLoopKeeps DEF Accepts
  <2>3. Waits(tasks')
    <3>1. CASE Inactive
      BY <1>5, <2>1, <2>2, <3>1 DEF AcceptInBaseLoop, Op
    <3>2. CASE ~Inactive
      BY <1>2, <2>1, <3>2 DEF AcceptInBaseLoop
    <3>3. QED
      BY <3>1, <3>2
  <2> HIDE DEF Waits
  <2>4. handling # None => handling.conn \in Conn
    BY <1>4
  <2>5. Rest'
    BY <1>1, <1>4, <2>1, <2>2, <2>4 DEF AcceptInBaseLoop
  <2>6. QED
    BY <1>2, <1>3, <2>1, <2>3, <2>5 DEF AcceptInBaseLoop
<1>16. QED
  <2>1. CASE \/ \E c \in Conn : ExpireTimer(c) \/ Peer(c) \/ PeerReads(c)
             \/ \E c \in Conn, f \in Fd : AcceptInLoop(c, f)
             \/ \E f \in Fd : TakeElsewhere(f) \/ CloseElsewhere(f)
             \/ \E o \in others : EndOther(o)
             \/ UNCHANGED vars
    <3>1. UNCHANGED <<tasks, functor, actives, handling, accepting, loc>>
      BY <2>1 DEF ExpireTimer, Peer, PeerReads, AcceptInLoop, TakeElsewhere, CloseElsewhere,
                  EndOther, vars, loopVars
    <3>2. QED
      BY <1>9, <3>1
  <2>2. QED
    BY <1>6, <1>7, <1>8, <1>10, <1>11, <1>12, <1>13, <1>14, <1>15, <2>1 DEF Next, LoopStep

(* What holds between the steps of a round, whatever handlers, closures and *)
(* calls of the application came before: connections, channels and the      *)
(* kernel's descriptors refer to each other, and nothing a round has yet to *)
(* handle refers to a connection that was never accepted (Connection.hpp,   *)
(* Poller.hpp, EventLoop.hpp).                                              *)
THEOREM ConnectionInductive == Spec => []ConnInv
<1>1. Init => ConnInv
  BY SoundInit
<1>2. ConnInv /\ [Next]_vars => ConnInv'
  <2>1. SUFFICES ASSUME ConnInv, [Next]_vars PROVE ConnInv'
    OBVIOUS
  <2>2. Sound(Now)'
    BY <2>1, SoundStep
  <2>3. QED
    BY <2>1, <2>2, RoundStep DEF ConnInv
<1>3. QED
  BY <1>1, <1>2, PTL DEF Spec

(* For every number of connections and descriptors, whatever the            *)
(* application calls and with or without a pool, the poller keeps no        *)
(* channel, and the kernel no watch, of a descriptor given away             *)
(* (Poller::RemoveEvent, Connection::ReleaseInLoop).                        *)
THEOREM ChannelsAreOfOwners == Spec => []NoStaleChannel
<1>1. ConnInv => NoStaleChannel
  BY DEF ConnInv, Sound, Linked, Now, NoStaleChannel
<1>2. QED
  BY <1>1, ConnectionInductive, PTL

(* SendInLoop, ShutdownInLoop and HandleWrite agree on EPOLLOUT: pending    *)
(* output of an open connection is always being asked for, and one that is  *)
(* shutting down has some.                                                  *)
THEOREM PendingOutputIsAskedFor == Spec => []OutputIsWatched
<1>1. ConnInv => OutputIsWatched
  BY DEF ConnInv, Sound, Watching, NotIdle, Now, OutputIsWatched
<1>2. QED
  BY <1>1, ConnectionInductive, PTL

-------------------------------------------------------------------------------
(* The inactivity timer.  While the application enables none itself, a      *)
(* timer is armed only by NewConnection, and ReleaseInLoop cancels it: the  *)
(* closure that arms it must still find the connection as it was accepted.  *)

Fresh(c) ==
  /\ conn[c].statu = "CONNECTING" /\ conn[c].timer = "none"
  /\ \A f \in Fd : channels[f] # c
  /\ actives[c] = {}
  /\ handling # None => handling.conn # c

Foremost(q, i, c) == \A j \in DOMAIN q : j < i => q[j][2] # c

FrontInv ==
  \A c \in Conn :
    /\ \A i \in DOMAIN functor : functor[i] = <<"enable", c>> =>
         Fresh(c) /\ Foremost(functor, i, c)
    /\ \A i \in DOMAIN tasks : tasks[i] = <<"enable", c>> =>
         /\ Fresh(c) /\ Foremost(tasks, i, c)
         /\ \A j \in DOMAIN functor : functor[j][2] # c

ArmedInv == \A c \in Conn : conn[c].timer = "armed" => Has(Now, c)

TimerInv == ArmedInv /\ FrontInv

(* Another connection keeps its socket through an operation on c.           *)
LEMMA OthersKeep ==
  ASSUME NEW w, Linked(w), NEW c \in Conn, Lives(w, c), NEW v, Touches(w, v, c),
         NEW d \in Conn \ {c}, Lives(w, d)
  PROVE  v.conn[d] = w.conn[d] /\ (Has(v, d) <=> Has(w, d))
<1>1. w.conn[d].fd \in Fd /\ None # d /\ v.conn[d] = w.conn[d]
  BY LoopAssumption DEF Linked, Touches
<1>2. QED
  BY <1>1 DEF Touches, Has

LEMMA ArmedInit == ASSUME Init PROVE TimerInv
BY DEF Init, TimerInv, ArmedInv, FrontInv, Unborn

(* Whoever has an armed timer has a socket.                                 *)
LEMMA ArmedStep ==
  ASSUME ConnInv, TimerInv, [Next]_vars
  PROVE  \A c \in Conn : conn'[c].timer = "armed" => Has(Now', c)
<1>1. Sound(Now) /\ Linked(Now) /\ Now.conn = conn /\ Now'.conn = conn'
  BY DEF ConnInv, Sound, Now
<1>2. \A d \in Conn : conn[d].timer = "armed" => Lives(Now, d) /\ Has(Now, d)
  BY <1>1 DEF TimerInv, ArmedInv, Linked, Unborn
<1>3. ASSUME NEW c \in Conn, Lives(Now, c), Kept(Now, Now', c),
             NEW d \in Conn, conn'[d].timer = "armed"
      PROVE  Has(Now', d)
  <2>1. CASE d = c
    <3>1. conn[c].timer = "armed" /\ Now'.owner[conn[c].fd] = Now.owner[conn[c].fd]
      BY <1>1, <1>3, <2>1 DEF Kept, ArmsNothing
    <3>2. Now'.conn[c].fd = conn[c].fd
      BY <1>1, <1>3 DEF Kept, Touches
    <3>3. QED
      BY <1>1, <1>2, <2>1, <3>1, <3>2 DEF Has
  <2>2. CASE d # c
    <3>1. conn'[d] = conn[d]
      BY <1>1, <1>3, <2>2 DEF Kept, Touches
    <3>2. Lives(Now, d) /\ Has(Now, d)
      BY <1>2, <1>3, <3>1
    <3>3. QED
      BY <1>1, <1>3, <2>2, <3>2, OthersKeep DEF Kept
  <2>3. QED
    BY <2>1, <2>2
<1>4. CASE Bookkeeping
  BY <1>1, <1>2, <1>4, BookkeepingIs
<1>5. CASE HandleRead
  BY <1>3, <1>5, HandleReadKeeps
<1>6. CASE HandleWrite
  BY <1>3, <1>6, HandleWriteKeeps
<1>7. CASE HandleClose
  BY <1>3, <1>7, HandleCloseKeeps
<1>8. CASE \E c \in Conn : ExpireTimer(c)
  BY <1>3, <1>8, ExpireTimerKeeps
<1>9. CASE RunTask
  <2> DEFINE op == Head(functor)[1]
             c  == Head(functor)[2]
  <2>1. /\ op \in Op /\ c \in Conn /\ Lives(Now, c)
        /\ Now' = Perform(op, Now, c)
        /\ Sound(Now') /\ Touches(Now, Now', c)
    BY <1>9, RunTaskKeeps
  <2>2. CASE op # "enable"
    <3> HIDE DEF op, c
    <3>1. Kept(Now, Perform(op, Now, c), c)
      BY <1>1, <2>1, <2>2, PerformKeeps
    <3>2. QED
      BY <1>3, <2>1, <3>1
  <2>3. CASE op = "enable"
    <3>1. functor \in Seq(Op \X Conn) /\ functor # <<>>
      BY <1>9 DEF RunTask, ConnInv, RoundInv
    <3>2. functor[1] = Head(functor) /\ 1 \in DOMAIN functor
      BY <3>1
    <3>3. conn[c].statu = "CONNECTING"
      BY <2>1, <2>3, <3>1, <3>2 DEF TimerInv, FrontInv, Fresh
    <3> HIDE DEF op, c
    <3>4. Now'.conn[c].statu = "CONNECTING"
      BY <1>1, <2>1, <2>3, <3>3, EnableKeeps DEF Perform
    <3>5. Has(Now', c)
      BY <2>1, <3>4 DEF Sound, Attached
    <3>6. ASSUME NEW d \in Conn \ {c}, conn'[d].timer = "armed" PROVE Has(Now', d)
      <4>1. conn'[d] = conn[d]
        BY <1>1, <2>1 DEF Touches
      <4>2. QED
        BY <1>1, <1>2, <2>1, <3>6, <4>1, OthersKeep
    <3>7. QED
      BY <3>5, <3>6
  <2>4. QED
    BY <2>2, <2>3
<1>10. ASSUME NEW c \in Conn, NEW f \in Fd, Accepts(Now, Now', c, f),
              conn'[c].timer = "armed" => Has(Now', c)
       PROVE  \A d \in Conn : conn'[d].timer = "armed" => Has(Now', d)
  <2>1. ASSUME NEW d \in Conn \ {c}, conn'[d].timer = "armed" PROVE Has(Now', d)
    <3>1. Now'.conn[d] = conn[d] /\ Lives(Now, d) /\ Has(Now, d)
      BY <1>1, <1>2, <1>10, <2>1 DEF Accepts
    <3>2. conn[d].fd \in Fd /\ None # d
      BY <1>1, <3>1, LoopAssumption DEF Linked
    <3>3. QED
      BY <1>1, <1>10, <3>1, <3>2 DEF Accepts, Has
  <2>2. QED
    BY <1>10, <2>1
<1>11. CASE \E c \in Conn, f \in Fd : AcceptInBaseLoop(c, f)
  BY <1>10, <1>11, AcceptInBaseLoopKeeps
<1>12. CASE \E c \in Conn, f \in Fd : AcceptInLoop(c, f)
  BY <1>10, <1>12, AcceptInLoopKeeps
<1>13. CASE \E f \in Fd : TakeElsewhere(f) \/ CloseElsewhere(f)
  <2>1. conn' = conn /\ \A c \in Conn : Lives(Now, c) => Has(Now', c) = Has(Now, c)
    BY <1>13, ElsewhereKeeps
  <2>2. QED
    BY <1>2, <2>1
<1>14. QED
  BY <1>4, <1>5, <1>6, <1>7, <1>8, <1>9, <1>11, <1>12, <1>13, StepIs

(* Until its own closures run, nothing happens to a fresh connection.       *)
LEMMA FreshStep ==
  ASSUME ConnInv, [Next]_vars, NEW c \in Conn, Fresh(c),
         RunTask => Head(functor)[2] # c
  PROVE  Fresh(c)'
<1>1. /\ Sound(Now) /\ Linked(Now) /\ Now.conn = conn /\ Now'.conn = conn'
      /\ Now.channels = channels /\ Now'.channels = channels'
  BY DEF ConnInv, Sound, Now
<1>2. Lives(Now, c) /\ conn[c].fd \in Fd /\ c # None
  BY <1>1, LoopAssumption DEF Fresh, Lives, Linked
<1>3. ASSUME NEW d \in Conn \ {c}, Lives(Now, d), Touches(Now, Now', d)
      PROVE  conn'[c] = conn[c] /\ \A f \in Fd : channels'[f] # c
  BY <1>1, <1>2, <1>3 DEF Fresh, Touches
<1>4. ASSUME conn'[c] = conn[c], \A f \in Fd : channels'[f] # c,
             UNCHANGED actives, handling' # None => handling # None /\ handling'.conn = handling.conn
      PROVE  Fresh(c)'
  BY <1>4 DEF Fresh
<1>5. CASE Bookkeeping
  <2>1. conn' = conn /\ channels' = channels
    BY <1>5, BookkeepingIs DEF Unchanged
  <2>2. CASE Poll
    <3>1. {g \in Fd : channels[g] = c} = {}
      BY DEF Fresh
    <3>2. actives'[c] = {} /\ handling' = handling
      BY <2>2, <3>1 DEF Poll
    <3>3. QED
      BY <2>1, <3>2 DEF Fresh
  <2>3. CASE \E d \in Conn : BeginChannel(d)
    <3>1. PICK d \in Conn : BeginChannel(d)
      BY <2>3
    <3>2. d # c /\ actives' = [actives EXCEPT ![d] = {}] /\ handling'.conn = d
      BY <3>1 DEF BeginChannel, Fresh
    <3>3. actives \in [Conn -> SUBSET Revents]
      BY DEF ConnInv, RoundInv
    <3>4. actives'[c] = {}
      BY <3>2, <3>3 DEF Fresh
    <3>5. QED
      BY <2>1, <3>2, <3>4 DEF Fresh
  <2>4. CASE EndChannel
    BY <1>4, <2>1, <2>4 DEF EndChannel, Fresh
  <2>5. CASE UNCHANGED <<actives, handling>>
    BY <1>4, <2>1, <2>5 DEF Fresh
  <2>6. QED
    BY <1>5, <2>2, <2>3, <2>4, <2>5
       DEF Bookkeeping, EndOther, SwapTasks, EndTasks, QueueEstablished, CallFromOutside,
           Peer, PeerReads, vars, loopVars
<1>6. CASE HandleRead \/ HandleWrite \/ HandleClose
  <2>1. /\ Current \in Conn /\ Lives(Now, Current) /\ handling # None
        /\ Touches(Now, Now', Current)
    BY <1>6, HandleReadKeeps, HandleWriteKeeps, HandleCloseKeeps DEF Kept
  <2>2. Current # c
    BY <2>1 DEF Fresh, Current
  <2>3. /\ UNCHANGED actives
        /\ handling' # None => handling # None /\ handling'.conn = handling.conn
    <3>1. handling \in [conn : Conn, revents : SUBSET Revents]
      BY <2>1 DEF ConnInv, RoundInv
    <3>2. QED
      BY <1>6, <3>1 DEF HandleRead, HandleWrite, HandleClose, Handled
  <2>4. QED
    BY <1>3, <1>4, <2>1, <2>2, <2>3
<1>7. CASE RunTask
  <2>1. PICK d \in Conn : Lives(Now, d) /\ Touches(Now, Now', d) /\ d = Head(functor)[2]
    BY <1>7, RunTaskKeeps
  <2>2. UNCHANGED <<actives, handling>>
    BY <1>7 DEF RunTask
  <2>3. QED
    BY <1>3, <1>4, <1>7, <2>1, <2>2
<1>8. CASE \E d \in Conn : ExpireTimer(d)
  <2>1. PICK d \in Conn : ExpireTimer(d)
    BY <1>8
  <2>2. d # c /\ Lives(Now, d) /\ Touches(Now, Now', d)
    BY <2>1, ExpireTimerKeeps DEF ExpireTimer, Fresh, Kept
  <2>3. UNCHANGED <<actives, handling>>
    BY <2>1 DEF ExpireTimer, loopVars
  <2>4. QED
    BY <1>3, <1>4, <2>2, <2>3
<1>9. ASSUME NEW d \in Conn, NEW f \in Fd, Accepts(Now, Now', d, f)
      PROVE  conn'[c] = conn[c] /\ \A g \in Fd : channels'[g] # c
  <2>1. d # c
    BY <1>2, <1>9 DEF Accepts
  <2>2. QED
    BY <1>1, <1>2, <1>9, <2>1 DEF Accepts, Fresh
<1>10. CASE \E d \in Conn, f \in Fd : AcceptInBaseLoop(d, f) \/ AcceptInLoop(d, f)
  <2>1. PICK d \in Conn, f \in Fd : AcceptInBaseLoop(d, f) \/ AcceptInLoop(d, f)
    BY <1>10
  <2>2. Accepts(Now, Now', d, f)
    BY <2>1, AcceptInBaseLoopKeeps, AcceptInLoopKeeps
  <2>3. UNCHANGED <<actives, handling>>
    BY <2>1 DEF AcceptInBaseLoop, AcceptInLoop
  <2>4. QED
    BY <1>4, <1>9, <2>2, <2>3
<1>11. CASE \E f \in Fd : TakeElsewhere(f) \/ CloseElsewhere(f)
  <2>1. UNCHANGED <<conn, channels, actives, handling>>
    BY <1>11 DEF TakeElsewhere, CloseElsewhere, loopVars
  <2>2. QED
    BY <1>4, <2>1 DEF Fresh
<1>12. QED
  BY <1>5, <1>6, <1>7, <1>8, <1>10, <1>11, StepIs

(* The closures that arm a timer stay in front of the others.               *)
LEMMA FrontStep ==
  ASSUME "enable" \notin AppOps, ConnInv, TimerInv, [Next]_vars
  PROVE  FrontInv'
<1>1. /\ tasks \in Seq(Op \X Conn) /\ functor \in Seq(Op \X Conn)
      /\ \A i \in DOMAIN tasks : tasks[i][2] \in Conn /\ Lives(Now, tasks[i][2])
      /\ \A i \in DOMAIN functor : functor[i][2] \in Conn /\ Lives(Now, functor[i][2])
  BY DEF ConnInv, RoundInv
<1>2. SUFFICES ASSUME NEW c \in Conn
      PROVE  /\ \A i \in DOMAIN functor' : functor'[i] = <<"enable", c>> =>
                  Fresh(c)' /\ Foremost(functor', i, c)
             /\ \A i \in DOMAIN tasks' : tasks'[i] = <<"enable", c>> =>
                  /\ Fresh(c)' /\ Foremost(tasks', i, c)
                  /\ \A j \in DOMAIN functor' : functor'[j][2] # c
  BY DEF FrontInv, Foremost
<1>3. /\ \A i \in DOMAIN functor : functor[i] = <<"enable", c>> =>
           Fresh(c) /\ Foremost(functor, i, c)
      /\ \A i \in DOMAIN tasks : tasks[i] = <<"enable", c>> =>
           /\ Fresh(c) /\ Foremost(tasks, i, c)
           /\ \A j \in DOMAIN functor : functor[j][2] # c
  BY DEF TimerInv, FrontInv
<1>4. Fresh(c) /\ (RunTask => Head(functor)[2] # c) => Fresh(c)'
  BY FreshStep
<1>5. Fresh(c) => Lives(Now, c)
  BY DEF Fresh, Lives, Now
<1>6. CASE RunTask
  <2>1. functor # <<>> /\ functor' = Tail(functor) /\ tasks' = tasks
    BY <1>6 DEF RunTask
  <2>2. 1 \in DOMAIN functor /\ Head(functor) = functor[1]
    BY <1>1, <2>1
  <2>3. \A i \in DOMAIN functor' :
          i \in Nat /\ i + 1 \in DOMAIN functor /\ 1 < i + 1 /\ functor'[i] = functor[i + 1]
    BY <1>1, <2>1
  <2>4. ASSUME NEW i \in DOMAIN functor', functor'[i] = <<"enable", c>>
        PROVE  Fresh(c)' /\ Foremost(functor', i, c)
    <3>1. i + 1 \in DOMAIN functor /\ functor[i + 1] = <<"enable", c>> /\ 1 < i + 1 /\ i \in Nat
      BY <2>3, <2>4
    <3>2. Fresh(c) /\ Foremost(functor, i + 1, c)
      BY <1>3, <3>1
    <3>3. functor[1][2] # c
      BY <2>2, <3>1, <3>2 DEF Foremost
    <3>4. ASSUME NEW j \in DOMAIN functor', j < i PROVE functor'[j][2] # c
      BY <2>3, <3>1, <3>2, <3>4 DEF Foremost
    <3>5. QED
      BY <1>4, <2>2, <3>2, <3>3, <3>4 DEF Foremost
  <2>5. ASSUME NEW i \in DOMAIN tasks', tasks'[i] = <<"enable", c>>
        PROVE  /\ Fresh(c)' /\ Foremost(tasks', i, c)
               /\ \A j \in DOMAIN functor' : functor'[j][2] # c
    <3>1. /\ Fresh(c) /\ Foremost(tasks, i, c)
          /\ \A j \in DOMAIN functor : functor[j][2] # c
      BY <1>3, <2>1, <2>5
    <3>2. QED
      BY <1>4, <2>1, <2>2, <2>3, <3>1
  <2>6. QED
    BY <2>4, <2>5
<1>7. CASE ~RunTask
  <2>1. Fresh(c) => Fresh(c)'
    BY <1>4, <1>7
  <2>2. CASE UNCHANGED <<tasks, functor>>
    BY <1>3, <2>1, <2>2
  <2>3. CASE SwapTasks
    <3>1. functor' = tasks /\ tasks' = <<>>
      BY <2>3 DEF SwapTasks
    <3>2. QED
      BY <1>3, <2>1, <3>1
  <2>4. ASSUME functor' = functor, NEW op \in Op, NEW d \in Conn,
               tasks' = Append(tasks, <<op, d>>),
               op = "enable" /\ d = c => Fresh(c)' /\ ~Lives(Now, c)
        PROVE  /\ \A i \in DOMAIN functor' : functor'[i] = <<"enable", c>> =>
                    Fresh(c)' /\ Foremost(functor', i, c)
               /\ \A i \in DOMAIN tasks' : tasks'[i] = <<"enable", c>> =>
                    /\ Fresh(c)' /\ Foremost(tasks', i, c)
                    /\ \A j \in DOMAIN functor' : functor'[j][2] # c
    <3>1. \A i \in DOMAIN tasks' :
            \/ i \in DOMAIN tasks /\ tasks'[i] = tasks[i]
            \/ i = Len(tasks) + 1 /\ tasks'[i] = <<op, d>>
      BY <1>1, <2>4, AppendIs
    <3>2. \A i \in DOMAIN tasks : i \in Nat /\ i < Len(tasks) + 1
      BY <1>1
    <3>3. \A i \in DOMAIN functor' : functor'[i] = <<"enable", c>> =>
            Fresh(c)' /\ Foremost(functor', i, c)
      BY <1>3, <2>1, <2>4
    <3>4. ASSUME NEW i \in DOMAIN tasks', tasks'[i] = <<"enable", c>>
          PROVE  /\ Fresh(c)' /\ Foremost(tasks', i, c)
                 /\ \A j \in DOMAIN functor' : functor'[j][2] # c
      <4>1. CASE i \in DOMAIN tasks /\ tasks'[i] = tasks[i]
        <5>1. /\ Fresh(c) /\ Foremost(tasks, i, c)
              /\ \A j \in DOMAIN functor : functor[j][2] # c
          BY <1>3, <3>4, <4>1
        <5>2. ASSUME NEW j \in DOMAIN tasks', j < i PROVE tasks'[j][2] # c
          <6>1. i \in Nat /\ i < Len(tasks) + 1 /\ Len(tasks) \in Nat
            BY <1>1, <3>2, <4>1
          <6>2. j # Len(tasks) + 1
            BY <5>2, <6>1
          <6>3. j \in DOMAIN tasks /\ tasks'[j] = tasks[j]
            BY <3>1, <6>2
          <6>4. QED
            BY <5>1, <5>2, <6>3 DEF Foremost
        <5>3. QED
          BY <2>1, <2>4, <5>1, <5>2 DEF Foremost
      <4>2. CASE i = Len(tasks) + 1 /\ tasks'[i] = <<op, d>>
        <5>1. op = "enable" /\ d = c
          BY <3>4, <4>2
        <5>2. Fresh(c)' /\ ~Lives(Now, c)
          BY <2>4, <5>1
        <5>3. /\ \A j \in DOMAIN tasks : tasks[j][2] # c
              /\ \A j \in DOMAIN functor : functor[j][2] # c
          BY <1>1, <5>2
        <5>4. ASSUME NEW j \in DOMAIN tasks', j < i PROVE tasks'[j][2] # c
          <6>1. j # Len(tasks) + 1
            BY <1>1, <4>2, <5>4
          <6>2. QED
            BY <3>1, <5>3, <6>1
        <5>5. QED
          BY <2>4, <5>2, <5>3, <5>4 DEF Foremost
      <4>3. QED
        BY <3>1, <4>1, <4>2
    <3>5. QED
      BY <3>3, <3>4
  <2>5. CASE QueueEstablished
    <3>1. /\ accepting \in Conn /\ functor' = functor
          /\ tasks' = Append(tasks, <<"established", accepting>>)
      BY <2>5 DEF QueueEstablished, ConnInv, RoundInv
    <3>2. QED
      BY <2>4, <3>1 DEF Op
  <2>6. CASE \E op \in AppOps, d \in Conn : CallFromOutside(op, d)
    <3>1. PICK op \in AppOps, d \in Conn : CallFromOutside(op, d)
      BY <2>6
    <3>2. op \in Op /\ op # "enable"
      BY OpsAreOps
    <3>3. QED
      BY <2>4, <3>1, <3>2 DEF CallFromOutside
  <2>7. CASE \E d \in Conn, f \in Fd : AcceptInBaseLoop(d, f)
    <3>1. PICK d \in Conn, f \in Fd : AcceptInBaseLoop(d, f)
      BY <2>7
    <3>2. CASE ~Inactive
      BY <2>2, <3>1, <3>2 DEF AcceptInBaseLoop
    <3>3. CASE Inactive
      <4>1. functor' = functor /\ tasks' = Append(tasks, <<"enable", d>>)
        BY <3>1, <3>3 DEF AcceptInBaseLoop
      <4>2. d = c => Fresh(c)' /\ ~Lives(Now, c)
        <5>1. SUFFICES ASSUME d = c PROVE Fresh(c)' /\ ~Lives(Now, c)
          OBVIOUS
        <5>2. /\ ~Lives(Now, c) /\ channels' = channels
              /\ conn'[c].statu = "CONNECTING" /\ conn'[c].timer = "none"
          BY <3>1, <5>1, AcceptInBaseLoopKeeps DEF Accepts
        <5>3. \A f1 \in Fd : channels[f1] # c
          BY <5>2, LoopAssumption DEF ConnInv, Sound, Linked, Now
        <5>4. actives' = actives /\ handling' = handling
          BY <3>1 DEF AcceptInBaseLoop
        <5>5. actives[c] = {} /\ (handling # None => handling.conn # c)
          BY <5>2 DEF ConnInv, RoundInv
        <5>6. QED
          BY <5>2, <5>3, <5>4, <5>5 DEF Fresh
      <4>3. QED
        BY <2>4, <4>1, <4>2 DEF Op
    <3>4. QED
      BY <3>2, <3>3
  <2>8. QED
    <3>1. \/ UNCHANGED <<tasks, functor>>
          \/ SwapTasks \/ QueueEstablished
          \/ \E op \in AppOps, d \in Conn : CallFromOutside(op, d)
          \/ \E d \in Conn, f \in Fd : AcceptInBaseLoop(d, f)
      BY <1>7 DEF Next, LoopStep, Poll, BeginChannel, HandleRead, HandleWrite, HandleClose,
                  EndChannel, EndOther, EndTasks, Handled, ExpireTimer, AcceptInLoop,
                  TakeElsewhere, CloseElsewhere, Peer, PeerReads, vars, loopVars
    <3>2. QED
      BY <2>2, <2>3, <2>5, <2>6, <2>7, <3>1
<1>8. QED
  BY <1>6, <1>7

(* Unless the application itself enables the inactivity release of a        *)
(* connection, possibly one already released, ReleaseInLoop leaves no armed *)
(* timer behind, whichever way the release comes and whatever is queued.    *)
THEOREM ReleasedHasNoTimer ==
  ASSUME "enable" \notin AppOps
  PROVE  Spec => []NoTimerOnReleased
<1>1. Init => ConnInv /\ TimerInv
  BY SoundInit, ArmedInit
<1>2. ConnInv /\ TimerInv /\ [Next]_vars => (ConnInv /\ TimerInv)'
  <2>1. SUFFICES ASSUME ConnInv, TimerInv, [Next]_vars PROVE (ConnInv /\ TimerInv)'
    OBVIOUS
  <2>2. ArmedInv'
    BY <2>1, ArmedStep DEF ArmedInv
  <2>3. FrontInv'
    BY <2>1, FrontStep
  <2>4. Sound(Now)'
    BY <2>1, SoundStep
  <2>5. QED
    BY <2>1, <2>2, <2>3, <2>4, RoundStep DEF ConnInv, TimerInv
<1>3. ConnInv /\ TimerInv => NoTimerOnReleased
  BY DEF ConnInv, Sound, Attached, TimerInv, ArmedInv, NoTimerOnReleased, Now
<1>4. QED
  BY <1>1, <1>2, <1>3, PTL DEF Spec

-------------------------------------------------------------------------------
(* The watches of a worker's connections.  Within a round the poller gains  *)
(* no channel in the place of one that is active: what was closed in this   *)
(* round leaves its descriptor without a channel until the tasks run.       *)

Clear(w, c) ==
  w.channels[w.conn[c].fd] = IF Has(w, c) THEN c ELSE None

WatchInv ==
  /\ \A c \in Conn : Lives(Now, c) => Watched(Now, c)
  /\ \A c \in Conn : actives[c] # {} => Clear(Now, c)
  /\ handling # None => Clear(Now, handling.conn)
  /\ "listen" \notin others
  /\ \A i \in DOMAIN functor : functor[i][1] \notin {"shutdown", "release"}
  /\ \A i \in DOMAIN tasks : tasks[i][1] \notin {"shutdown", "release"}

(* The other connections stay watched if c, when it has no socket, finds no *)
(* channel at its descriptor or leaves it alone.                            *)
LEMMA WatchedByOthers ==
  ASSUME NEW w, Sound(w), NEW c \in Conn, Lives(w, c), NEW v, Sound(v), Touches(w, v, c),
         Watched(w, c) => Watched(v, c),
         ~Has(w, c) => w.channels[w.conn[c].fd] = None
                         \/ (v.channels = w.channels /\ v.epoll = w.epoll),
         \A d \in Conn : Lives(w, d) => Watched(w, d),
         NEW e \in Conn, Lives(v, e)
  PROVE  Watched(v, e)
<1>1. Linked(w) /\ Linked(v) /\ None \notin Conn
  BY LoopAssumption DEF Sound
<1>2. CASE e = c
  BY <1>2
<1>3. CASE e # c
  <2>1. v.conn[e] = w.conn[e] /\ Lives(w, e) /\ w.conn[e].fd \in Fd /\ Watched(w, e)
    <3>1. v.conn[e] = w.conn[e]
      BY <1>3 DEF Touches
    <3>2. Lives(w, e)
      BY <3>1 DEF Lives
    <3>3. QED
      BY <1>1, <3>1, <3>2 DEF Linked
  <2>2. Has(v, e) <=> Has(w, e)
    BY <1>1, <1>3, <2>1, OthersKeep
  <2>3. CASE w.conn[e].fd # w.conn[c].fd
    BY <2>1, <2>2, <2>3 DEF Watched, Touches
  <2>4. CASE w.conn[e].fd = w.conn[c].fd /\ Has(w, e)
    <3>1. ~Has(w, c)
      BY <1>3, <2>4 DEF Has
    <3>2. CASE w.channels[w.conn[c].fd] = None
      <4>1. v.channels[w.conn[c].fd] = None
        BY <3>1, <3>2 DEF Touches
      <4>2. ~(w.conn[e].statu \in {"CONNECTED", "DISCONNECTING"} \/ "out" \in w.conn[e].events)
        BY <1>1, <2>1, <2>4, <3>2 DEF Watched
      <4>3. QED
        BY <1>1, <2>1, <2>4, <4>1, <4>2 DEF Watched
    <3>3. CASE v.channels = w.channels /\ v.epoll = w.epoll
      BY <2>1, <2>2, <3>3 DEF Watched
    <3>4. QED
      BY <3>1, <3>2, <3>3
  <2>5. CASE ~Has(w, e)
    BY <2>2, <2>5 DEF Watched
  <2>6. QED
    BY <2>3, <2>4, <2>5
<1>4. QED
  BY <1>2, <1>3

(* An active channel that is clear stays so while another one is handled.   *)
LEMMA ClearedByOthers ==
  ASSUME NEW w, Linked(w), NEW c \in Conn, Lives(w, c), NEW v, Touches(w, v, c),
         \/ Clear(w, c)
         \/ Has(w, c) /\ v.channels[w.conn[c].fd] = None
         \/ v.channels = w.channels,
         NEW d \in Conn \ {c}, Lives(w, d), Clear(w, d)
  PROVE  Clear(v, d)
<1>1. v.conn[d] = w.conn[d] /\ (Has(v, d) <=> Has(w, d))
  BY OthersKeep
<1>2. w.conn[d].fd \in Fd /\ w.conn[c].fd \in Fd /\ None # d /\ None # c
  BY LoopAssumption DEF Linked
<1>3. CASE w.conn[d].fd # w.conn[c].fd
  BY <1>1, <1>2, <1>3 DEF Touches, Clear
<1>4. CASE w.conn[d].fd = w.conn[c].fd /\ v.channels # w.channels
  <2>1. CASE Has(w, c)
    <3>1. ~Has(w, d)
      BY <1>4, <2>1 DEF Has
    <3>2. w.channels[w.conn[c].fd] = None
      BY <1>4, <3>1 DEF Clear
    <3>3. v.channels[w.conn[c].fd] = None
      BY <1>2, <1>4, <2>1, <3>2 DEF Clear
    <3>4. QED
      BY <1>1, <1>4, <3>1, <3>3 DEF Clear
  <2>2. CASE ~Has(w, c)
    <3>1. v.channels[w.conn[c].fd] \in {None, w.channels[w.conn[c].fd]}
      BY <2>2 DEF Touches
    <3>2. QED
      BY <1>1, <1>2, <1>4, <2>2, <3>1 DEF Clear
  <2>3. QED
    BY <2>1, <2>2
<1>5. CASE v.channels = w.channels
  BY <1>1, <1>5 DEF Clear
<1>6. QED
  BY <1>3, <1>4, <1>5

LEMMA ClearedItself ==
  ASSUME NEW w, Linked(w), NEW c \in Conn, Lives(w, c), NEW v, Kept(w, v, c), Clear(w, c)
  PROVE  Clear(v, c)
<1> DEFINE f == w.conn[c].fd
<1>1. f \in Fd /\ v.conn[c].fd = f /\ None # c /\ Linked(v)
  BY LoopAssumption DEF Linked, Kept, Touches, Sound
<1>2. CASE Has(v, c)
  <2>1. Has(w, c)
    BY <1>1, <1>2 DEF Kept, Touches, Has
  <2>2. QED
    BY <1>1, <1>2, <2>1 DEF Kept, Clear
<1>3. CASE ~Has(v, c)
  <2>1. v.channels[f] \in {None, c}
    BY <1>1 DEF Kept, Touches, Clear
  <2>2. v.channels[f] # c
    BY <1>1, <1>3 DEF Linked, Has
  <2>3. QED
    BY <1>1, <1>3, <2>1, <2>2 DEF Clear
<1>4. QED
  BY <1>2, <1>3

Quiet == AppOps \cap {"enable", "shutdown", "release"} = {}

LEMMA WatchInit == ASSUME Init PROVE WatchInv
BY DEF Init, WatchInv, Lives, Now, Unborn, Idle

(* Handling one channel, or expiring one timer.                             *)
LEMMA WatchHandled ==
  ASSUME ConnInv, WatchInv, NEW c \in Conn, Lives(Now, c), Kept(Now, Now', c),
         \/ Clear(Now, c)
         \/ Has(Now, c) /\ Now'.channels[Now.conn[c].fd] = None
         \/ Now'.channels = Now.channels /\ Now'.epoll = Now.epoll,
         UNCHANGED <<actives, tasks, functor>>, others' = others,
         handling' # None => handling # None /\ handling'.conn = handling.conn
  PROVE  WatchInv'
<1>1. /\ Sound(Now) /\ Sound(Now') /\ Linked(Now) /\ Touches(Now, Now', c)
      /\ Watched(Now, c) => Watched(Now', c)
  BY DEF ConnInv, Sound, Kept
<1>2. ASSUME NEW e \in Conn, Lives(Now', e) PROVE Watched(Now', e)
  <2>1. ~Has(Now, c) => Now.channels[Now.conn[c].fd] = None
                          \/ (Now'.channels = Now.channels /\ Now'.epoll = Now.epoll)
    BY DEF Clear
  <2>2. QED
    BY <1>1, <1>2, <2>1, WatchedByOthers DEF WatchInv
<1>3. ASSUME NEW d \in Conn, Lives(Now, d), Clear(Now, d) PROVE Clear(Now', d)
  <2>1. CASE d = c
    BY <1>1, <1>3, <2>1, ClearedItself
  <2>2. CASE d # c
    BY <1>1, <1>3, <2>2, ClearedByOthers
  <2>3. QED
    BY <2>1, <2>2
<1>4. ASSUME NEW d \in Conn, actives'[d] # {} PROVE Clear(Now', d)
  BY <1>3, <1>4 DEF WatchInv, ConnInv, RoundInv
<1>5. ASSUME handling' # None PROVE Clear(Now', handling'.conn)
  <2>1. handling # None /\ handling'.conn = handling.conn /\ handling.conn \in Conn
    BY <1>5 DEF ConnInv, RoundInv
  <2>2. QED
    BY <1>3, <2>1 DEF WatchInv, ConnInv, RoundInv
<1>6. QED
  BY <1>2, <1>4, <1>5 DEF WatchInv

LEMMA WatchBookkeeping ==
  ASSUME Quiet, pooled, ConnInv, WatchInv, Bookkeeping
  PROVE  WatchInv'
<1>1. Now' = Now /\ Linked(Now)
  BY BookkeepingIs DEF ConnInv, Sound
<1>2. /\ tasks \in Seq(Op \X Conn) /\ functor \in Seq(Op \X Conn)
      /\ actives \in [Conn -> SUBSET Revents]
  BY DEF ConnInv, RoundInv
<1>3. CASE Poll
  <2>1. ASSUME NEW c \in Conn, actives'[c] # {} PROVE Clear(Now, c)
    <3>1. PICK f \in Fd : channels[f] = c
      BY <1>3, <2>1 DEF Poll
    <3>2. Now.owner[f] = c /\ Now.conn[c].fd = f
      BY <1>1, <3>1, LoopAssumption DEF Linked, Now
    <3>3. QED
      BY <3>1, <3>2 DEF Clear, Has, Now
  <2>2. handling' = handling /\ UNCHANGED <<tasks, functor>> /\ "listen" \notin others'
    BY <1>3 DEF Poll
  <2>3. QED
    BY <1>1, <2>1, <2>2 DEF WatchInv
<1>4. CASE \E c \in Conn : BeginChannel(c)
  <2>1. PICK c \in Conn : BeginChannel(c)
    BY <1>4
  <2>2. handling'.conn = c /\ Clear(Now, c) /\ UNCHANGED <<tasks, functor, others>>
    BY <2>1 DEF BeginChannel, WatchInv
  <2>3. \A d \in Conn : actives'[d] # {} => actives[d] # {}
    BY <1>2, <2>1 DEF BeginChannel
  <2>4. QED
    BY <1>1, <2>2, <2>3 DEF WatchInv
<1>5. ASSUME NEW op \in Op, NEW d \in Conn, op \notin {"shutdown", "release"},
             tasks' = Append(tasks, <<op, d>>), UNCHANGED <<functor, actives, handling, others>>
      PROVE  WatchInv'
  <2>1. \A i \in DOMAIN tasks' : tasks'[i][1] \notin {"shutdown", "release"}
    <3>1. \A i \in DOMAIN tasks' :
            \/ i \in DOMAIN tasks /\ tasks'[i] = tasks[i]
            \/ i = Len(tasks) + 1 /\ tasks'[i] = <<op, d>>
      BY <1>2, <1>5, AppendIs
    <3>2. QED
      BY <1>5, <3>1 DEF WatchInv
  <2>2. QED
    BY <1>1, <1>5, <2>1 DEF WatchInv
<1>6. CASE QueueEstablished
  <2>1. accepting \in Conn
    BY <1>6 DEF QueueEstablished, ConnInv, RoundInv
  <2>2. QED
    BY <1>5, <1>6, <2>1 DEF QueueEstablished, Op
<1>7. CASE \E op \in AppOps, c \in Conn : CallFromOutside(op, c)
  <2>1. PICK op \in AppOps, c \in Conn : CallFromOutside(op, c)
    BY <1>7
  <2>2. op \in Op /\ op \notin {"shutdown", "release"}
    BY OpsAreOps DEF Quiet
  <2>3. QED
    BY <1>5, <2>1, <2>2 DEF CallFromOutside
<1>8. CASE SwapTasks
  <2>1. functor' = tasks /\ tasks' = <<>> /\ UNCHANGED <<actives, handling, others>>
    BY <1>8 DEF SwapTasks
  <2>2. QED
    BY <1>1, <2>1 DEF WatchInv
<1>9. CASE EndChannel
  <2>1. handling' = None /\ UNCHANGED <<tasks, functor, actives, others>>
    BY <1>9 DEF EndChannel
  <2>2. QED
    BY <1>1, <2>1 DEF WatchInv
<1>10. CASE \/ \E o \in others : EndOther(o)
            \/ EndTasks \/ (\E c \in Conn : Peer(c) \/ PeerReads(c)) \/ UNCHANGED vars
  <2>1. UNCHANGED <<tasks, functor, actives, handling>> /\ others' \subseteq others
    BY <1>10 DEF EndOther, EndTasks, Peer, PeerReads, vars, loopVars
  <2>2. QED
    BY <1>1, <2>1 DEF WatchInv
<1>11. QED
  BY <1>3, <1>4, <1>6, <1>7, <1>8, <1>9, <1>10 DEF Bookkeeping

LEMMA WatchStep ==
  ASSUME Quiet, pooled, ConnInv, TimerInv, WatchInv, [Next]_vars
  PROVE  WatchInv'
<1>1. Sound(Now) /\ Linked(Now) /\ Sound(Now') /\ None \notin Conn
  BY SoundStep, LoopAssumption DEF ConnInv, Sound
<1>2. CASE Bookkeeping
  BY <1>2, WatchBookkeeping
<1>3. CASE HandleRead \/ HandleWrite \/ HandleClose
  <2>1. /\ Current \in Conn /\ Lives(Now, Current) /\ handling # None
        /\ Kept(Now, Now', Current)
    BY <1>3, HandleReadKeeps, HandleWriteKeeps, HandleCloseKeeps
  <2>2. Clear(Now, Current)
    BY <2>1 DEF WatchInv, Current
  <2>3. /\ UNCHANGED <<actives, tasks, functor>> /\ others' = others
        /\ handling' # None => handling # None /\ handling'.conn = handling.conn
    <3>1. handling \in [conn : Conn, revents : SUBSET Revents]
      BY <2>1 DEF ConnInv, RoundInv
    <3>2. QED
      BY <1>3, <3>1 DEF HandleRead, HandleWrite, HandleClose, Handled
  <2>4. QED
    BY <2>1, <2>2, <2>3, WatchHandled
<1>4. CASE \E c \in Conn : ExpireTimer(c)
  <2>1. PICK c \in Conn : ExpireTimer(c)
    BY <1>4
  <2>2. /\ Lives(Now, c) /\ Kept(Now, Now', c)
        /\ conn[c].timer = "armed" => Now'.channels[conn[c].fd] = None
        /\ conn[c].timer = "armed" \/ (channels' = channels /\ epoll' = epoll)
    BY <2>1, ExpireTimerKeeps
  <2>3. conn[c].timer = "armed" => Has(Now, c)
    BY DEF TimerInv, ArmedInv
  <2>4. /\ UNCHANGED <<actives, tasks, functor>> /\ others' = others
        /\ handling' = handling
    BY <2>1 DEF ExpireTimer, loopVars
  <2>5. /\ Now.conn = conn /\ Now.channels = channels /\ Now'.channels = channels'
        /\ Now.epoll = epoll /\ Now'.epoll = epoll'
    BY DEF Now
  <2>6. QED
    BY <2>2, <2>3, <2>4, <2>5, WatchHandled
<1>5. CASE RunTask
  <2> DEFINE op == Head(functor)[1]
             c  == Head(functor)[2]
             v  == Perform(op, Now, c)
  <2>1. /\ op \in Op /\ c \in Conn /\ Lives(Now, c) /\ Now' = v
        /\ Sound(Now') /\ Touches(Now, Now', c)
    BY <1>5, RunTaskKeeps
  <2>2. /\ functor \in Seq(Op \X Conn) /\ functor # <<>> /\ functor' = Tail(functor)
        /\ loc = "tasks" /\ UNCHANGED <<tasks, actives, others, handling>>
    BY <1>5 DEF RunTask, ConnInv, RoundInv
  <2>3. 1 \in DOMAIN functor /\ Head(functor) = functor[1]
    BY <2>2
  <2>4. op \in {"established", "enable", "cancel", "send"}
    BY <2>1, <2>3 DEF Op, WatchInv
  <2>5. actives = Idle /\ handling = None
    BY <2>2 DEF ConnInv, RoundInv
  <2>6. \A i \in DOMAIN functor' : functor'[i][1] \notin {"shutdown", "release"}
    BY <2>2, TailIs DEF WatchInv
  <2> HIDE DEF op, c
  <2>7. /\ Watched(Now, c) => Watched(v, c)
        /\ ~Has(Now, c) => v.channels = Now.channels /\ v.epoll = Now.epoll
    BY <1>1, <2>1, <2>4, PerformKeeps
  <2> HIDE DEF v
  <2>8. ASSUME NEW e \in Conn, Lives(v, e) PROVE Watched(v, e)
    BY <1>1, <2>1, <2>7, <2>8, WatchedByOthers DEF WatchInv
  <2>9. QED
    BY <2>1, <2>2, <2>5, <2>6, <2>8 DEF WatchInv, Idle
<1>6. ASSUME NEW c \in Conn, NEW f \in Fd, AcceptInBaseLoop(c, f)
      PROVE  WatchInv'
  <2>1. Accepts(Now, Now', c, f) /\ channels' = channels
    BY <1>6, AcceptInBaseLoopKeeps
  <2>2. ASSUME NEW e \in Conn \ {c}, Lives(Now, e)
        PROVE  Now'.conn[e] = Now.conn[e] /\ (Has(Now', e) <=> Has(Now, e))
    <3>1. Now.conn[e].fd \in Fd /\ Now'.conn[e] = Now.conn[e]
      BY <1>1, <2>1, <2>2 DEF Linked, Accepts
    <3>2. QED
      BY <1>1, <2>1, <2>2, <3>1 DEF Accepts, Has
  <2>3. ASSUME NEW e \in Conn, Lives(Now', e) PROVE Watched(Now', e)
    <3>1. CASE e = c
      BY <2>1, <3>1 DEF Accepts
    <3>2. CASE e # c
      <4>1. Now'.conn[e] = Now.conn[e] /\ Lives(Now, e)
        BY <2>1, <2>3, <3>2 DEF Accepts, Lives
      <4>2. Has(Now', e) <=> Has(Now, e)
        BY <2>2, <3>2, <4>1
      <4>3. Now'.channels = Now.channels
        BY <2>1 DEF Now
      <4>4. Has(Now, e) => Now'.epoll[Now.conn[e].fd] = Now.epoll[Now.conn[e].fd]
        BY <1>1, <2>1, <4>1 DEF Accepts, Has, Linked
      <4>5. Watched(Now, e)
        BY <4>1 DEF WatchInv
      <4>6. QED
        BY <4>1, <4>2, <4>3, <4>4, <4>5 DEF Watched
    <3>3. QED
      BY <3>1, <3>2
  <2>4. ASSUME NEW d \in Conn, Lives(Now, d), Clear(Now, d) PROVE Clear(Now', d)
    <3>1. d # c
      BY <2>1, <2>4 DEF Accepts
    <3>2. Now'.channels = Now.channels
      BY <2>1 DEF Now
    <3>3. QED
      BY <2>2, <2>4, <3>1, <3>2 DEF Clear
  <2>5. /\ UNCHANGED <<functor, actives, others, handling>>
        /\ tasks' = tasks \/ tasks' = Append(tasks, <<"enable", c>>)
    BY <1>6 DEF AcceptInBaseLoop
  <2>6. \A i \in DOMAIN tasks' : tasks'[i][1] \notin {"shutdown", "release"}
    <3>1. CASE tasks' = tasks
      BY <3>1 DEF WatchInv
    <3>2. CASE tasks' = Append(tasks, <<"enable", c>>)
      <4>1. <<"enable", c>> \in Op \X Conn /\ tasks \in Seq(Op \X Conn)
        BY DEF Op, ConnInv, RoundInv
      <4>2. \A i \in DOMAIN tasks' :
              \/ i \in DOMAIN tasks /\ tasks'[i] = tasks[i]
              \/ i = Len(tasks) + 1 /\ tasks'[i] = <<"enable", c>>
        BY <3>2, <4>1, AppendIs
      <4>3. QED
        BY <4>2 DEF WatchInv
    <3>3. QED
      BY <2>5, <3>1, <3>2
  <2>7. handling # None => handling.conn \in Conn /\ Lives(Now, handling.conn)
    BY DEF ConnInv, RoundInv
  <2>8. \A d \in Conn : actives[d] # {} => Lives(Now, d)
    BY DEF ConnInv, RoundInv
  <2>9. QED
    BY <2>3, <2>4, <2>5, <2>6, <2>7, <2>8 DEF WatchInv
<1>7. CASE \E c \in Conn, f \in Fd : AcceptInLoop(c, f)
  BY <1>7 DEF AcceptInLoop, WatchInv
<1>8. CASE \E f \in Fd : TakeElsewhere(f) \/ CloseElsewhere(f)
  <2>1. PICK f \in Fd : TakeElsewhere(f) \/ CloseElsewhere(f)
    BY <1>8
  <2>2. /\ conn' = conn /\ channels' = channels
        /\ owner[f] \notin Conn /\ owner'[f] \notin Conn
        /\ \A g \in Fd \ {f} : owner'[g] = owner[g] /\ epoll'[g] = epoll[g]
        /\ \A c \in Conn : Lives(Now, c) => Has(Now', c) = Has(Now, c)
    BY <2>1, ElsewhereKeeps
  <2>3. UNCHANGED <<tasks, functor, actives, others, handling>>
    BY <2>1 DEF TakeElsewhere, CloseElsewhere, loopVars
  <2>4. ASSUME NEW e \in Conn, Lives(Now', e) PROVE Watched(Now', e)
    <3>1. Lives(Now, e) /\ Watched(Now, e) /\ Has(Now', e) = Has(Now, e)
      BY <2>2, <2>4 DEF Lives, Now, WatchInv
    <3>2. conn[e].fd \in Fd
      BY <1>1, <3>1 DEF Linked, Now
    <3>3. Has(Now, e) => epoll'[conn[e].fd] = epoll[conn[e].fd]
      BY <2>2, <3>2 DEF Has, Now
    <3>4. QED
      BY <2>2, <3>1, <3>3 DEF Watched, Now
  <2>5. ASSUME NEW d \in Conn, Lives(Now, d), Clear(Now, d) PROVE Clear(Now', d)
    BY <2>2, <2>5 DEF Clear, Now
  <2>6. handling # None => handling.conn \in Conn /\ Lives(Now, handling.conn)
    BY DEF ConnInv, RoundInv
  <2>7. \A d \in Conn : actives[d] # {} => Lives(Now, d)
    BY DEF ConnInv, RoundInv
  <2>8. QED
    BY <2>3, <2>4, <2>5, <2>6, <2>7 DEF WatchInv
<1>9. QED
  BY <1>2, <1>3, <1>4, <1>5, <1>6, <1>7, <1>8, StepIs

(* In a pool, while other threads of the application only send and cancel,  *)
(* every established connection of a worker is found under its descriptor   *)
(* and watched for exactly what its channel asks for, however descriptor    *)
(* numbers are used again.                                                  *)
THEOREM PooledConnectionsAreWatched ==
  ASSUME AppOps \cap {"enable", "shutdown", "release"} = {}
  PROVE  Spec => []WorkersWatchOwn
<1> DEFINE PoolInv == pooled => WatchInv
           Inv == ConnInv /\ TimerInv /\ PoolInv
<1>1. Quiet /\ "enable" \notin AppOps
  BY DEF Quiet
<1>2. Init => Inv
  BY SoundInit, ArmedInit, WatchInit
<1>3. Inv /\ [Next]_vars => Inv'
  <2>1. SUFFICES ASSUME ConnInv, TimerInv, PoolInv, [Next]_vars
                 PROVE  ConnInv' /\ TimerInv' /\ PoolInv'
    OBVIOUS
  <2>2. ConnInv'
    <3>1. Sound(Now)'
      BY <2>1, SoundStep
    <3>2. QED
      BY <2>1, <3>1, RoundStep DEF ConnInv
  <2>3. ArmedInv'
    BY <2>1, ArmedStep DEF ArmedInv
  <2>4. TimerInv'
    BY <1>1, <2>1, <2>3, FrontStep DEF TimerInv
  <2>5. pooled' = pooled
    BY <2>1 DEF Next, LoopStep, Poll, BeginChannel, HandleRead, HandleWrite, HandleClose,
                EndChannel, EndOther, SwapTasks, RunTask, EndTasks, Handled, ExpireTimer,
                AcceptInBaseLoop, AcceptInLoop, QueueEstablished, TakeElsewhere,
                CloseElsewhere, CallFromOutside, Peer, PeerReads, vars, loopVars
  <2>6. PoolInv'
    BY <1>1, <2>1, <2>5, WatchStep
  <2>7. QED
    BY <2>2, <2>4, <2>6
<1>4. Inv => WorkersWatchOwn
  <2>1. SUFFICES ASSUME WatchInv, NEW c \in Conn, Open(c)
                 PROVE  channels[conn[c].fd] = c /\ epoll[conn[c].fd] = conn[c].events
    BY DEF WorkersWatchOwn, WatchesOwnConnections
  <2>2. Lives(Now, c) /\ Has(Now, c) /\ conn[c].statu \in {"CONNECTED", "DISCONNECTING"}
    BY <2>1 DEF Open, HasSocket, Lives, Has, Now
  <2>3. QED
    BY <2>1, <2>2 DEF WatchInv, Watched, Now
<1>5. QED
  BY <1>2, <1>3, <1>4, PTL DEF Spec

-------------------------------------------------------------------------------
(* Nothing but the peer's reset, a timer or the application's own call      *)
(* releases a connection that has output left.                              *)

Socket == [rcv : {0, 1}, sent : Nat, peer : {"open", "eof", "reset"}, full : BOOLEAN]

(* A hang-up in hand is a reset, and nothing waits that would release early.*)
SendInv ==
  /\ socket \in [Conn -> Socket]
  /\ \A c \in Conn : conn[c].timer # "armed"
  /\ \A c \in Conn : "hup" \in actives[c] => Reset(c)
  /\ handling # None /\ "hup" \in handling.revents => Reset(handling.conn)
  /\ \A i \in DOMAIN functor : functor[i][1] \notin {"enable", "release"}
  /\ \A i \in DOMAIN tasks : tasks[i][1] \notin {"enable", "release"}

LEMMA SendInit == ASSUME Init PROVE SendInv
BY DEF Init, SendInv, Socket, Unborn, Idle

(* What the peer has reset stays so.                                        *)
LEMMA SocketStep ==
  ASSUME ConnInv, socket \in [Conn -> Socket], [Next]_vars
  PROVE  /\ socket' \in [Conn -> Socket]
         /\ \A c \in Conn : Reset(c) => Reset(c)'
<1>1. CASE UNCHANGED socket
  BY <1>1 DEF Reset
<1>2. ASSUME NEW d \in Conn, NEW s \in Socket, socket' = [socket EXCEPT ![d] = s],
             socket[d].peer = "reset" => s.peer = "reset"
      PROVE  /\ socket' \in [Conn -> Socket]
             /\ \A c \in Conn : Reset(c) => Reset(c)'
  BY <1>2 DEF Reset
<1>3. CASE HandleRead \/ HandleWrite
  <2>1. Current \in Conn /\ socket[Current] \in Socket
    BY <1>3, HandleReadKeeps, HandleWriteKeeps
  <2>2. CASE socket' = [socket EXCEPT ![Current].rcv = 0]
    <3> DEFINE s == [socket[Current] EXCEPT !.rcv = 0]
    <3>1. s \in Socket /\ s.peer = socket[Current].peer
      BY <2>1 DEF Socket
    <3>2. socket' = [socket EXCEPT ![Current] = s]
      BY <2>2
    <3> HIDE DEF s
    <3>3. QED
      BY <1>2, <2>1, <3>1, <3>2
  <2>3. CASE \E full \in BOOLEAN : socket' = [socket EXCEPT ![Current].full = full]
    <3>1. PICK full \in BOOLEAN : socket' = [socket EXCEPT ![Current].full = full]
      BY <2>3
    <3> DEFINE s == [socket[Current] EXCEPT !.full = full]
    <3>2. s \in Socket /\ s.peer = socket[Current].peer
      BY <2>1 DEF Socket
    <3>3. socket' = [socket EXCEPT ![Current] = s]
      BY <3>1
    <3> HIDE DEF s
    <3>4. QED
      BY <1>2, <2>1, <3>2, <3>3
  <2>4. QED
    BY <1>1, <1>3, <2>2, <2>3 DEF HandleRead, HandleWrite
<1>4. CASE \E c \in Conn : Peer(c)
  <2>1. PICK c \in Conn : Peer(c)
    BY <1>4
  <2>2. socket[c] \in Socket
    OBVIOUS
  <2>3. \E s \in Socket : /\ socket' = [socket EXCEPT ![c] = s]
                          /\ socket[c].peer = "reset" => s.peer = "reset"
    <3>1. CASE socket' = [socket EXCEPT ![c].rcv = 1, ![c].sent = @ + 1] /\ socket[c].peer = "open"
      <4> DEFINE n == socket[c].sent + 1
                 s == [socket[c] EXCEPT !.rcv = 1, !.sent = n]
      <4>1. s \in Socket
        <5>1. n \in Nat
          BY <2>2 DEF Socket
        <5> HIDE DEF n
        <5>2. QED
          BY <2>2, <5>1 DEF Socket
      <4>2. socket' = [socket EXCEPT ![c] = s]
        BY <2>2, <3>1
      <4> HIDE DEF s
      <4>3. QED
        BY <3>1, <4>1, <4>2
    <3>2. CASE socket' = [socket EXCEPT ![c].peer = "eof"] /\ socket[c].peer = "open"
      <4> DEFINE s == [socket[c] EXCEPT !.peer = "eof"]
      <4>1. s \in Socket
        BY <2>2 DEF Socket
      <4>2. socket' = [socket EXCEPT ![c] = s]
        BY <3>2
      <4> HIDE DEF s
      <4>3. QED
        BY <3>2, <4>1, <4>2
    <3>3. CASE socket' = [socket EXCEPT ![c].peer = "reset"]
      <4> DEFINE s == [socket[c] EXCEPT !.peer = "reset"]
      <4>1. s \in Socket /\ s.peer = "reset"
        BY <2>2 DEF Socket
      <4>2. socket' = [socket EXCEPT ![c] = s]
        BY <3>3
      <4> HIDE DEF s
      <4>3. QED
        BY <4>1, <4>2
    <3>4. QED
      BY <2>1, <3>1, <3>2, <3>3 DEF Peer
  <2>4. QED
    BY <1>2, <2>3
<1>5. CASE \E c \in Conn : PeerReads(c)
  <2>1. PICK c \in Conn : PeerReads(c)
    BY <1>5
  <2> DEFINE s == [socket[c] EXCEPT !.full = FALSE]
  <2>2. socket[c] \in Socket
    OBVIOUS
  <2>3. s \in Socket /\ s.peer = socket[c].peer
    BY <2>2 DEF Socket
  <2>4. socket' = [socket EXCEPT ![c] = s]
    BY <2>1 DEF PeerReads
  <2> HIDE DEF s
  <2>5. QED
    BY <1>2, <2>3, <2>4
<1>6. QED
  BY <1>1, <1>3, <1>4, <1>5
     DEF Next, LoopStep, Poll, BeginChannel, HandleClose, EndChannel, EndOther, SwapTasks,
         RunTask, EndTasks, ExpireTimer, AcceptInBaseLoop, AcceptInLoop, QueueEstablished,
         TakeElsewhere, CloseElsewhere, CallFromOutside, vars

LEMMA SendStep ==
  ASSUME Inactive = FALSE, AppOps \subseteq {"send", "shutdown", "cancel"},
         ConnInv, SendInv, [Next]_vars
  PROVE  /\ SendInv'
         /\ \A c \in Conn : Open(c) /\ ~Reset(c) /\ conn'[c].statu = "DISCONNECTED"
                              => conn'[c].out = 0
<1> DEFINE Safe(c) == Open(c) /\ ~Reset(c) /\ conn'[c].statu = "DISCONNECTED" => conn'[c].out = 0
           Unarmed == \A c \in Conn : conn[c].timer # "armed"
           Hup == /\ \A c \in Conn : "hup" \in actives[c] => Reset(c)
                  /\ handling # None /\ "hup" \in handling.revents => Reset(handling.conn)
           Calm(q) == \A i \in DOMAIN q : q[i][1] \notin {"enable", "release"}
<1>1. /\ Sound(Now) /\ Linked(Now) /\ Now.conn = conn /\ Now'.conn = conn'
      /\ Unarmed /\ Hup /\ Calm(tasks) /\ Calm(functor)
  BY DEF ConnInv, Sound, Now, SendInv
<1>2. socket' \in [Conn -> Socket] /\ \A c \in Conn : Reset(c) => Reset(c)'
  BY SocketStep DEF SendInv
<1>3. /\ tasks \in Seq(Op \X Conn) /\ functor \in Seq(Op \X Conn)
      /\ actives \in [Conn -> SUBSET Revents]
      /\ handling \in {None} \cup [conn : Conn, revents : SUBSET Revents]
  BY DEF ConnInv, RoundInv
<1>4. SUFFICES Unarmed' /\ Hup' /\ Calm(tasks') /\ Calm(functor') /\ \A c \in Conn : Safe(c)
  BY <1>2 DEF SendInv
<1>5. Calm(tasks') /\ Calm(functor')
  <2>1. ASSUME NEW op \in Op, NEW d \in Conn, op \notin {"enable", "release"},
               tasks' = Append(tasks, <<op, d>>)
        PROVE  Calm(tasks')
    <3>1. \A i \in DOMAIN tasks' :
            \/ i \in DOMAIN tasks /\ tasks'[i] = tasks[i]
            \/ i = Len(tasks) + 1 /\ tasks'[i] = <<op, d>>
      BY <1>3, <2>1, AppendIs
    <3>2. QED
      BY <1>1, <2>1, <3>1
  <2>2. CASE RunTask
    BY <1>1, <1>3, <2>2, TailIs DEF RunTask
  <2>3. CASE SwapTasks
    <3>1. functor' = tasks /\ tasks' = <<>>
      BY <2>3 DEF SwapTasks
    <3>2. QED
      BY <1>1, <3>1
  <2>4. CASE QueueEstablished
    <3>1. accepting \in Conn /\ functor' = functor /\ tasks' = Append(tasks, <<"established", accepting>>)
      BY <2>4 DEF QueueEstablished, ConnInv, RoundInv
    <3>2. QED
      BY <1>1, <2>1, <3>1 DEF Op
  <2>5. CASE \E op \in AppOps, d \in Conn : CallFromOutside(op, d)
    <3>1. PICK op \in AppOps, d \in Conn : CallFromOutside(op, d)
      BY <2>5
    <3>2. op \in Op /\ op \notin {"enable", "release"}
      BY OpsAreOps
    <3>3. tasks' = Append(tasks, <<op, d>>) /\ functor' = functor
      BY <3>1 DEF CallFromOutside
    <3>4. QED
      BY <1>1, <2>1, <3>2, <3>3
  <2>6. CASE UNCHANGED <<tasks, functor>>
    BY <1>1, <2>6
  <2>7. QED
    BY <2>2, <2>3, <2>4, <2>5, <2>6
       DEF Next, LoopStep, Poll, BeginChannel, HandleRead, HandleWrite, HandleClose,
           EndChannel, EndOther, EndTasks, Handled, ExpireTimer, AcceptInBaseLoop, AcceptInLoop,
           TakeElsewhere, CloseElsewhere, Peer, PeerReads, vars, loopVars
<1>6. Hup'
  <2>1. CASE Poll
    <3>1. ASSUME NEW c \in Conn, "hup" \in actives'[c] PROVE Reset(c)
      <4>1. PICK f \in Fd : channels[f] = c /\ "hup" \in Ready(f)
        BY <2>1, <3>1 DEF Poll
      <4>2. owner[f] = c
        BY <1>1, <4>1, LoopAssumption DEF Linked, Now
      <4>3. QED
        BY <4>1, <4>2 DEF Ready, Reset
    <3>2. handling' = handling /\ UNCHANGED socket
      BY <2>1 DEF Poll
    <3>3. QED
      BY <1>1, <3>1, <3>2 DEF Reset
  <2>2. CASE \E c \in Conn : BeginChannel(c)
    <3>1. PICK c \in Conn : BeginChannel(c)
      BY <2>2
    <3>2. /\ handling'.conn = c /\ handling'.revents = actives[c] /\ UNCHANGED socket
          /\ \A d \in Conn : actives'[d] \subseteq actives[d]
      BY <1>3, <3>1 DEF BeginChannel
    <3>3. QED
      BY <1>1, <3>2 DEF Reset
  <2>3. CASE HandleRead \/ HandleWrite \/ HandleClose \/ EndChannel
    <3>1. handling \in [conn : Conn, revents : SUBSET Revents]
      BY <1>3, <2>3 DEF HandleRead, HandleWrite, HandleClose, EndChannel
    <3>2. /\ UNCHANGED actives
          /\ handling' # None => /\ handling # None /\ handling'.conn = handling.conn
                                 /\ handling'.revents \subseteq handling.revents
      BY <2>3, <3>1 DEF HandleRead, HandleWrite, HandleClose, EndChannel, Handled
    <3>3. handling.conn \in Conn
      BY <3>1
    <3>4. QED
      BY <1>1, <1>2, <3>2, <3>3
  <2>4. CASE UNCHANGED <<actives, handling>>
    <3>1. handling # None => handling.conn \in Conn
      BY <1>3
    <3>2. QED
      BY <1>1, <1>2, <2>4, <3>1
  <2>5. QED
    BY <2>1, <2>2, <2>3, <2>4
       DEF Next, LoopStep, EndOther, SwapTasks, RunTask, EndTasks, ExpireTimer,
           AcceptInBaseLoop, AcceptInLoop, QueueEstablished, TakeElsewhere, CloseElsewhere,
           CallFromOutside, Peer, PeerReads, vars, loopVars
<1>7. ASSUME NEW c \in Conn, Lives(Now, c), Kept(Now, Now', c),
             AllSent(Now, Now', c) \/ Reset(c) \/ ~HasSocket(c)
      PROVE  Unarmed' /\ \A d \in Conn : Safe(d)
  <2>1. \A d \in Conn \ {c} : conn'[d] = conn[d]
    BY <1>1, <1>7 DEF Kept, Touches
  <2>2. Unarmed'
    BY <1>1, <1>7, <2>1 DEF Kept, ArmsNothing
  <2>3. Safe(c)
    BY <1>1, <1>7 DEF AllSent, Open
  <2>4. \A d \in Conn \ {c} : Safe(d)
    BY <2>1 DEF Open
  <2>5. QED
    BY <2>2, <2>3, <2>4
<1>8. CASE conn' = conn
  BY <1>1, <1>5, <1>6, <1>8 DEF Open
<1>9. CASE HandleRead
  BY <1>5, <1>6, <1>7, <1>9, HandleReadKeeps
<1>10. CASE HandleWrite
  BY <1>5, <1>6, <1>7, <1>10, HandleWriteKeeps
<1>11. CASE HandleClose
  <2>1. /\ Current \in Conn /\ Lives(Now, Current) /\ Kept(Now, Now', Current)
    BY <1>11, HandleCloseKeeps
  <2>2. Reset(Current)
    BY <1>1, <1>11 DEF HandleClose, Current
  <2>3. QED
    BY <1>5, <1>6, <1>7, <2>1, <2>2
<1>12. CASE \E c \in Conn : ExpireTimer(c)
  <2>1. PICK c \in Conn : ExpireTimer(c)
    BY <1>12
  <2>2. /\ Lives(Now, c) /\ Kept(Now, Now', c) /\ conn'[c].statu = conn[c].statu
    BY <1>1, <2>1, ExpireTimerKeeps
  <2>3. AllSent(Now, Now', c)
    BY <1>1, <2>2 DEF AllSent
  <2>4. QED
    BY <1>5, <1>6, <1>7, <2>2, <2>3
<1>13. CASE RunTask
  <2> DEFINE op == Head(functor)[1]
             c  == Head(functor)[2]
             v  == Perform(op, Now, c)
  <2>1. /\ op \in Op /\ c \in Conn /\ Lives(Now, c) /\ Now' = v
    BY <1>13, RunTaskKeeps
  <2>2. op \notin {"enable", "release"}
    <3>1. 1 \in DOMAIN functor /\ Head(functor) = functor[1]
      BY <1>3, <1>13 DEF RunTask
    <3>2. QED
      BY <1>1, <3>1
  <2> HIDE DEF op, c
  <2>3. Kept(Now, v, c) /\ AllSent(Now, v, c)
    BY <1>1, <2>1, <2>2, PerformKeeps
  <2> HIDE DEF v
  <2>4. QED
    BY <1>5, <1>6, <1>7, <2>1, <2>3
<1>14. ASSUME NEW c \in Conn, NEW f \in Fd, Accepts(Now, Now', c, f), conn'[c].timer # "armed"
       PROVE  Unarmed' /\ \A d \in Conn : Safe(d)
  <2>1. \A d \in Conn \ {c} : conn'[d] = conn[d]
    BY <1>1, <1>14 DEF Accepts
  <2>2. ~Open(c)
    BY <1>1, <1>14 DEF Accepts, Lives, Open
  <2>3. QED
    BY <1>1, <1>14, <2>1, <2>2 DEF Open
<1>15. CASE \E c \in Conn, f \in Fd : AcceptInBaseLoop(c, f) \/ AcceptInLoop(c, f)
  <2>1. PICK c \in Conn, f \in Fd : AcceptInBaseLoop(c, f) \/ AcceptInLoop(c, f)
    BY <1>15
  <2>2. Accepts(Now, Now', c, f) /\ conn'[c].timer # "armed"
    BY <2>1, AcceptInBaseLoopKeeps, AcceptInLoopKeeps
  <2>3. QED
    BY <1>5, <1>6, <1>14, <2>2
<1>16. CASE Bookkeeping \/ \E f \in Fd : TakeElsewhere(f) \/ CloseElsewhere(f)
  <2>1. conn' = conn
    BY <1>16, BookkeepingIs DEF Unchanged, TakeElsewhere, CloseElsewhere
  <2>2. QED
    BY <1>8, <2>1
<1>17. QED
  BY <1>9, <1>10, <1>11, <1>12, <1>13, <1>15, <1>16, StepIs

(* With no inactivity timers, and whatever other threads send or shut down, *)
(* a connection whose peer has not reset it is released only when every     *)
(* response has been sent.                                                  *)
THEOREM ReleasedWhenSent ==
  ASSUME Inactive = FALSE, AppOps \subseteq {"send", "shutdown", "cancel"}
  PROVE  Spec => ReleaseSendsAll
<1>1. Init => ConnInv /\ SendInv
  BY SoundInit, SendInit
<1>2. ConnInv /\ SendInv /\ [Next]_vars => (ConnInv /\ SendInv)'
  <2>1. SUFFICES ASSUME ConnInv, SendInv, [Next]_vars PROVE ConnInv' /\ SendInv'
    OBVIOUS
  <2>2. Sound(Now)'
    BY <2>1, SoundStep
  <2>3. QED
    BY <2>1, <2>2, RoundStep, SendStep DEF ConnInv
<1>3. ConnInv /\ SendInv /\ [Next]_vars =>
        [\A c \in Conn : Open(c) /\ ~Reset(c) /\ conn'[c].statu = "DISCONNECTED"
                           => conn'[c].out = 0]_vars
  BY SendStep
<1>4. QED
  BY <1>1, <1>2, <1>3, PTL DEF Spec, ReleaseSendsAll

====
