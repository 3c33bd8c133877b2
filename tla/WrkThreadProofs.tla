---------------------------- MODULE WrkThreadProofs ----------------------------
(***************************************************************************)
(* Proofs about WrkThread, for any connections, descriptors, scripts and    *)
(* servers.                                                                 *)
(***************************************************************************)
EXTENDS WrkThread, FiniteSetTheorems, SequenceTheorems, WellFoundedInduction, TLAPS

-------------------------------------------------------------------------------
(* What the members are.                                                    *)
Mask   == {"R", "W"}
Parser == {"start", "until", "dead"}
Token  == {"end", "last", "until", "junk"}
Net    == {"none", "connecting", "up", "broken"}

ConnOf ==
  [fd : Fd \cup {0}, delayed : BOOLEAN, written : Nat, pending : Int,
   parser : Parser, lost : BOOLEAN, opened : BOOLEAN]

EventOf ==
  [mask : SUBSET Mask, r : {"none", "connected", "readable"},
   w : {"none", "connected", "writeable"}, data : Conn \cup {None}]

SocketOf ==
  [owner : Conn \cup {None}, net : Net, in : Seq(Token), fin : BOOLEAN,
   closing : BOOLEAN, owed : Int, used : BOOLEAN, early : BOOLEAN, haunted : BOOLEAN]

(* A procedure is set for what is asked for.                                *)
Armed(e) ==
  /\ "R" \in e.mask => e.r # "none"
  /\ "W" \in e.mask => e.w # "none"
  /\ e.mask # {} => e.data \in Conn

Members ==
  {s \in [conn : [Conn -> ConnOf], events : [Fd -> EventOf], socket : [Fd -> SocketOf],
          timers : Seq(Conn \cup {Rate}), crossed : BOOLEAN] :
     \A f \in Fd : Armed(s.events[f])}

(* A callback is armed on a socket its connection has, a socket belongs to  *)
(* the connection that has its number, a timer is of a connection that was  *)
(* opened, and a connection that was not lost has its socket.               *)
HasSocket(s, c) ==
  s.conn[c].opened /\ ~s.conn[c].lost =>
    Open(s, s.conn[c].fd) /\ s.socket[s.conn[c].fd].owner = c

Linked(s) ==
  /\ \A f \in Fd : s.events[f].mask # {} => s.socket[f].owner = s.events[f].data
  /\ \A f \in Fd : s.socket[f].owner # None =>
       LET c == s.socket[f].owner
       IN  s.conn[c].fd = f /\ s.conn[c].opened /\ ~s.conn[c].lost
  /\ \A i \in 1 .. Len(s.timers) : s.timers[i] \in Conn => s.conn[s.timers[i]].opened

Wired(s) == Linked(s) /\ \A c \in Conn : HasSocket(s, c)

(* Inside a callback of c its number is not another's.                      *)
Held(s, c) ==
  /\ Wired(s)
  /\ s.conn[c].opened
  /\ Open(s, s.conn[c].fd) => s.socket[s.conn[c].fd].owner = c

(* What a call inside a callback of c does to the members.                  *)
Kept(s, t, c) ==
  /\ t \in Members
  /\ t.crossed = s.crossed
  /\ Held(s, c) => Held(t, c)

LEMMA KeptAgain ==
  ASSUME NEW s, NEW t, NEW u, NEW c, Kept(s, t, c), Kept(t, u, c)
  PROVE  Kept(s, u, c)
  BY DEF Kept

LEMMA KeptSame ==
  ASSUME NEW s \in Members, NEW c
  PROVE  Kept(s, s, c)
  BY DEF Kept

(* What does not concern who has which socket.                              *)
SameWiring(s, t) ==
  /\ \A d \in Conn : /\ t.conn[d].fd = s.conn[d].fd
                     /\ t.conn[d].lost = s.conn[d].lost
                     /\ t.conn[d].opened = s.conn[d].opened
  /\ \A f \in Fd : t.socket[f].owner = s.socket[f].owner
  /\ \A f \in Fd : /\ t.events[f].mask \subseteq s.events[f].mask
                   /\ t.events[f].data = s.events[f].data
  /\ t.timers = s.timers
  /\ t.crossed = s.crossed

LEMMA SameIsWired ==
  ASSUME NEW s \in Members, NEW t \in Members, SameWiring(s, t), Wired(s)
  PROVE  Wired(t)
<1>1. \A f : Open(t, f) <=> Open(s, f)
  BY DEF Open, SameWiring
<1>2. \A f \in Fd : s.socket[f].owner \in Conn \cup {None}
  BY DEF Members, SocketOf
<1>3. \A f \in Fd : t.events[f].mask # {} => t.socket[f].owner = t.events[f].data
  BY DEF SameWiring, Wired, Linked
<1>4. ASSUME NEW f \in Fd, t.socket[f].owner # None
      PROVE  /\ t.conn[t.socket[f].owner].fd = f
             /\ t.conn[t.socket[f].owner].opened
             /\ ~t.conn[t.socket[f].owner].lost
  <2>1. PICK d \in Conn : d = t.socket[f].owner /\ d = s.socket[f].owner
    BY <1>2, <1>4 DEF SameWiring
  <2>2. s.conn[d].fd = f /\ s.conn[d].opened /\ ~s.conn[d].lost
    BY <1>4, <2>1 DEF Wired, Linked
  <2>3. QED
    BY <2>1, <2>2 DEF SameWiring
<1>5. \A d \in Conn : HasSocket(t, d)
  BY <1>1 DEF SameWiring, Wired, HasSocket, Open
<1>6. \A i \in 1 .. Len(t.timers) : t.timers[i] \in Conn => t.conn[t.timers[i]].opened
  BY DEF SameWiring, Wired, Linked
<1>7. QED
  BY <1>3, <1>4, <1>5, <1>6 DEF Wired, Linked

LEMMA SameIsKept ==
  ASSUME NEW s \in Members, NEW t \in Members, NEW c \in Conn, SameWiring(s, t)
  PROVE  Kept(s, t, c)
<1>1. SUFFICES ASSUME Held(s, c) PROVE Held(t, c)
  BY DEF Kept, SameWiring
<1>2. \A f : Open(t, f) <=> Open(s, f)
  BY DEF Open, SameWiring
<1>3. t.conn[c].opened /\ (Open(t, t.conn[c].fd) => t.socket[t.conn[c].fd].owner = c)
  BY <1>1, <1>2 DEF SameWiring, Held, Open
<1>4. QED
  BY <1>1, <1>3, SameIsWired DEF Held

-------------------------------------------------------------------------------
(* The calls inside a callback.                                             *)
LEMMA ConnBecomes ==
  ASSUME NEW s \in Members, NEW c \in Conn, NEW k \in ConnOf
  PROVE  [s EXCEPT !.conn[c] = k] \in Members
<1>1. PICK t : t = [s EXCEPT !.conn[c] = k]
  OBVIOUS
<1>2. t \in [conn : [Conn -> ConnOf], events : [Fd -> EventOf], socket : [Fd -> SocketOf],
             timers : Seq(Conn \cup {Rate}), crossed : BOOLEAN]
  BY <1>1 DEF Members
<1>3. t.events = s.events
  BY <1>1 DEF Members
<1>4. QED
  BY <1>1, <1>2, <1>3 DEF Members

LEMMA ConnSets ==
  ASSUME NEW s \in Members, NEW c \in Conn, NEW k \in ConnOf, NEW t,
         t = [s EXCEPT !.conn[c] = k],
         k.fd = s.conn[c].fd, k.lost = s.conn[c].lost, k.opened = s.conn[c].opened
  PROVE  Kept(s, t, c)
<1>1. t \in Members
  BY ConnBecomes
<1>2. SameWiring(s, t)
  BY DEF SameWiring, Members
<1>3. QED
  BY <1>1, <1>2, SameIsKept

LEMMA SetParser ==
  ASSUME NEW s \in Members, NEW c \in Conn, NEW p \in Parser
  PROVE  Kept(s, [s EXCEPT !.conn[c].parser = p], c)
<1>1. PICK k : k = [s.conn[c] EXCEPT !.parser = p]
  OBVIOUS
<1>2. s.conn[c] \in ConnOf
  BY DEF Members
<1>3. k \in ConnOf /\ k.fd = s.conn[c].fd /\ k.lost = s.conn[c].lost
      /\ k.opened = s.conn[c].opened
  BY <1>1, <1>2 DEF ConnOf
<1>4. [s EXCEPT !.conn[c].parser = p] = [s EXCEPT !.conn[c] = k]
  BY <1>1
<1>5. QED
  BY <1>3, <1>4, ConnSets

LEMMA SetDelayed ==
  ASSUME NEW s \in Members, NEW c \in Conn, NEW b \in BOOLEAN
  PROVE  Kept(s, [s EXCEPT !.conn[c].delayed = b], c)
<1>1. PICK k : k = [s.conn[c] EXCEPT !.delayed = b]
  OBVIOUS
<1>2. s.conn[c] \in ConnOf
  BY DEF Members
<1>3. k \in ConnOf /\ k.fd = s.conn[c].fd /\ k.lost = s.conn[c].lost
      /\ k.opened = s.conn[c].opened
  BY <1>1, <1>2 DEF ConnOf
<1>4. [s EXCEPT !.conn[c].delayed = b] = [s EXCEPT !.conn[c] = k]
  BY <1>1
<1>5. QED
  BY <1>3, <1>4, ConnSets

LEMMA SetPending ==
  ASSUME NEW s \in Members, NEW c \in Conn, NEW n \in Int
  PROVE  Kept(s, [s EXCEPT !.conn[c].pending = n], c)
<1>1. PICK k : k = [s.conn[c] EXCEPT !.pending = n]
  OBVIOUS
<1>2. s.conn[c] \in ConnOf
  BY DEF Members
<1>3. k \in ConnOf /\ k.fd = s.conn[c].fd /\ k.lost = s.conn[c].lost
      /\ k.opened = s.conn[c].opened
  BY <1>1, <1>2 DEF ConnOf
<1>4. [s EXCEPT !.conn[c].pending = n] = [s EXCEPT !.conn[c] = k]
  BY <1>1
<1>5. QED
  BY <1>3, <1>4, ConnSets

LEMMA SetWritten ==
  ASSUME NEW s \in Members, NEW c \in Conn, NEW n \in Nat
  PROVE  Kept(s, [s EXCEPT !.conn[c].written = n], c)
<1>1. PICK k : k = [s.conn[c] EXCEPT !.written = n]
  OBVIOUS
<1>2. s.conn[c] \in ConnOf
  BY DEF Members
<1>3. k \in ConnOf /\ k.fd = s.conn[c].fd /\ k.lost = s.conn[c].lost
      /\ k.opened = s.conn[c].opened
  BY <1>1, <1>2 DEF ConnOf
<1>4. [s EXCEPT !.conn[c].written = n] = [s EXCEPT !.conn[c] = k]
  BY <1>1
<1>5. QED
  BY <1>3, <1>4, ConnSets

(* The events and the sockets of one descriptor.                            *)
LEMMA EventBecomes ==
  ASSUME NEW s \in Members, NEW f \in Fd, NEW e \in EventOf, Armed(e)
  PROVE  [s EXCEPT !.events[f] = e] \in Members
<1>1. PICK t : t = [s EXCEPT !.events[f] = e]
  OBVIOUS
<1>2. t \in [conn : [Conn -> ConnOf], events : [Fd -> EventOf], socket : [Fd -> SocketOf],
             timers : Seq(Conn \cup {Rate}), crossed : BOOLEAN]
  BY <1>1 DEF Members
<1>3. \A g \in Fd : t.events[g] = IF g = f THEN e ELSE s.events[g]
  BY <1>1 DEF Members
<1>4. \A g \in Fd : Armed(t.events[g])
  BY <1>3 DEF Members
<1>5. QED
  BY <1>1, <1>2, <1>4 DEF Members

LEMMA SocketBecomes ==
  ASSUME NEW s \in Members, NEW f \in Fd, NEW k \in SocketOf
  PROVE  [s EXCEPT !.socket[f] = k] \in Members
<1>1. PICK t : t = [s EXCEPT !.socket[f] = k]
  OBVIOUS
<1>2. t \in [conn : [Conn -> ConnOf], events : [Fd -> EventOf], socket : [Fd -> SocketOf],
             timers : Seq(Conn \cup {Rate}), crossed : BOOLEAN]
  BY <1>1 DEF Members
<1>3. t.events = s.events
  BY <1>1 DEF Members
<1>4. QED
  BY <1>1, <1>2, <1>3 DEF Members

LEMMA SocketSets ==
  ASSUME NEW s \in Members, NEW c \in Conn, NEW f \in Fd, NEW k \in SocketOf, NEW t,
         t = [s EXCEPT !.socket[f] = k], k.owner = s.socket[f].owner
  PROVE  Kept(s, t, c)
<1>1. t \in Members
  BY SocketBecomes
<1>2. SameWiring(s, t)
  BY DEF SameWiring, Members
<1>3. QED
  BY <1>1, <1>2, SameIsKept

LEMMA DeleteKept ==
  ASSUME NEW s \in Members, NEW c \in Conn, NEW f, NEW mask
  PROVE  Kept(s, aeDeleteFileEvent(s, f, mask), c)
<1>1. CASE f \notin Fd
  BY <1>1, KeptSame DEF aeDeleteFileEvent
<1>2. CASE f \in Fd
  <2>1. PICK e : e = [s.events[f] EXCEPT !.mask = @ \ mask]
    OBVIOUS
  <2>2. s.events[f] \in EventOf /\ Armed(s.events[f])
    BY <1>2 DEF Members
  <2>3. e \in EventOf /\ e.mask \subseteq s.events[f].mask /\ e.data = s.events[f].data
        /\ e.r = s.events[f].r /\ e.w = s.events[f].w
    BY <2>1, <2>2 DEF EventOf
  <2>4. Armed(e)
    BY <2>2, <2>3 DEF Armed
  <2>5. PICK t \in Members : t = [s EXCEPT !.events[f] = e]
    BY <1>2, <2>3, <2>4, EventBecomes
  <2>6. aeDeleteFileEvent(s, f, mask) = t
    BY <1>2, <2>1, <2>5 DEF aeDeleteFileEvent
  <2>7. SameWiring(s, t)
    BY <1>2, <2>3, <2>5 DEF SameWiring, Members
  <2>8. QED
    BY <2>6, <2>7, SameIsKept
<1>3. QED
  BY <1>1, <1>2

LEMMA CreateTyped ==
  ASSUME NEW s \in Members, NEW c \in Conn, NEW f, NEW mask \in SUBSET Mask, NEW proc,
         "R" \in mask => proc \in {"connected", "readable"},
         "W" \in mask => proc \in {"connected", "writeable"},
         NEW t, t = aeCreateFileEvent(s, f, mask, proc, c)
  PROVE  /\ t \in Members
         /\ t.conn = s.conn /\ t.socket = s.socket /\ t.timers = s.timers
         /\ t.crossed = s.crossed
<1>1. CASE ~Open(s, f)
  BY <1>1 DEF aeCreateFileEvent
<1>2. CASE Open(s, f)
  <2>1. PICK e : e = [mask |-> s.events[f].mask \cup mask,
                      r    |-> IF "R" \in mask THEN proc ELSE s.events[f].r,
                      w    |-> IF "W" \in mask THEN proc ELSE s.events[f].w,
                      data |-> c]
    OBVIOUS
  <2>2. f \in Fd /\ s.events[f] \in EventOf /\ Armed(s.events[f])
    BY <1>2 DEF Members, Open
  <2>3. e \in EventOf
    BY <2>1, <2>2 DEF EventOf
  <2>4. Armed(e)
    BY <2>1, <2>2 DEF Armed
  <2>5. t = [s EXCEPT !.events[f] = e]
    BY <1>2, <2>1 DEF aeCreateFileEvent
  <2>6. t \in Members
    BY <2>2, <2>3, <2>4, <2>5, EventBecomes
  <2>7. t.conn = s.conn /\ t.socket = s.socket /\ t.timers = s.timers /\ t.crossed = s.crossed
    BY <2>5 DEF Members
  <2>8. QED
    BY <2>6, <2>7
<1>3. QED
  BY <1>1, <1>2

(* A callback may arm what its connection has.                              *)
LEMMA CreateKept ==
  ASSUME NEW s \in Members, NEW c \in Conn, NEW mask \in SUBSET Mask, NEW proc,
         "R" \in mask => proc \in {"connected", "readable"},
         "W" \in mask => proc \in {"connected", "writeable"},
         NEW f, f = s.conn[c].fd
  PROVE  Kept(s, aeCreateFileEvent(s, f, mask, proc, c), c)
<1>1. PICK t : t = aeCreateFileEvent(s, f, mask, proc, c)
  OBVIOUS
<1>2. /\ t \in Members
      /\ t.conn = s.conn /\ t.socket = s.socket /\ t.timers = s.timers
      /\ t.crossed = s.crossed
  BY <1>1, CreateTyped
<1>3. CASE ~Open(s, f)
  BY <1>3, KeptSame DEF aeCreateFileEvent
<1>4. CASE Open(s, f)
  <2>1. ASSUME Held(s, c) PROVE Held(t, c)
    <3>1. s.socket[f].owner = c
      BY <1>4, <2>1 DEF Held
    <3>4. \A g \in Fd : t.events[g] = s.events[g] \/ (g = f /\ t.events[g].data = c)
      <4>1. PICK e : e = [mask |-> s.events[f].mask \cup mask,
                          r    |-> IF "R" \in mask THEN proc ELSE s.events[f].r,
                          w    |-> IF "W" \in mask THEN proc ELSE s.events[f].w,
                          data |-> c]
        OBVIOUS
      <4>2. t = [s EXCEPT !.events[f] = e]
        BY <1>1, <1>4, <4>1 DEF aeCreateFileEvent
      <4>3. \A g \in Fd : t.events[g] = IF g = f THEN e ELSE s.events[g]
        BY <4>2 DEF Members
      <4>4. QED
        BY <4>1, <4>3
    <3>2. \A g \in Fd : t.events[g].mask # {} => t.socket[g].owner = t.events[g].data
      BY <1>2, <2>1, <3>1, <3>4 DEF Held, Wired, Linked
    <3>3. QED
      BY <1>2, <2>1, <3>2 DEF Held, Wired, Linked, HasSocket, Open
  <2>2. QED
    BY <1>1, <1>2, <2>1 DEF Kept
<1>5. QED
  BY <1>3, <1>4

(* A connection that has no socket.                                         *)
Freed(s, c) ==
  /\ Linked(s)
  /\ \A d \in Conn \ {c} : HasSocket(s, d)
  /\ \A f \in Fd : s.socket[f].owner # c

LEMMA ClosedIs == Closed \in SocketOf /\ Closed.owner = None
  BY DEF Closed, SocketOf, Net

LEMMA ConnectKept ==
  ASSUME NEW s \in Members, NEW c \in Conn, NEW t \in connect_socket(s, c)
  PROVE  /\ t \in Members /\ t.crossed = s.crossed
         /\ Freed(s, c) => Wired(t)
         /\ Freed(s, c) /\ ~Open(s, s.conn[c].fd) => Held(t, c)
<1>1. s.conn[c] \in ConnOf
  BY DEF Members
<1>2. CASE t = [s EXCEPT !.conn[c].lost = TRUE, !.conn[c].opened = TRUE]
  <2>1. PICK k : k = [s.conn[c] EXCEPT !.lost = TRUE, !.opened = TRUE]
    OBVIOUS
  <2>2. k \in ConnOf /\ k.fd = s.conn[c].fd /\ k.lost /\ k.opened
    BY <1>1, <2>1 DEF ConnOf
  <2>3. t = [s EXCEPT !.conn[c] = k]
    BY <1>2, <2>1
  <2>4. t \in Members
    BY <2>2, <2>3, ConnBecomes
  <2>5. t.events = s.events /\ t.socket = s.socket /\ t.timers = s.timers /\ t.crossed = s.crossed
    BY <2>3 DEF Members
  <2>6. \A d \in Conn : t.conn[d] = IF d = c THEN k ELSE s.conn[d]
    BY <2>3 DEF Members
  <2>7. \A f \in Fd : s.socket[f].owner \in Conn \cup {None}
    BY DEF Members, SocketOf
  <2>8. ASSUME Freed(s, c) PROVE Wired(t)
    <3>1. \A f \in Fd : t.events[f].mask # {} => t.socket[f].owner = t.events[f].data
      BY <2>5, <2>8 DEF Freed, Linked
    <3>2. ASSUME NEW f \in Fd, t.socket[f].owner # None
          PROVE  /\ t.conn[t.socket[f].owner].fd = f
                 /\ t.conn[t.socket[f].owner].opened
                 /\ ~t.conn[t.socket[f].owner].lost
      BY <2>5, <2>6, <2>7, <2>8, <3>2 DEF Freed, Linked
    <3>3. ASSUME NEW d \in Conn PROVE HasSocket(t, d)
      BY <2>2, <2>5, <2>6, <2>8, <3>3 DEF Freed, HasSocket, Open
    <3>4. ASSUME NEW i \in 1 .. Len(t.timers), t.timers[i] \in Conn
          PROVE  t.conn[t.timers[i]].opened
      BY <2>2, <2>5, <2>6, <2>8, <3>4 DEF Freed, Linked
    <3>5. QED
      BY <3>1, <3>2, <3>3, <3>4 DEF Wired, Linked
  <2>9. ASSUME Freed(s, c), ~Open(s, s.conn[c].fd) PROVE Held(t, c)
    BY <2>2, <2>5, <2>6, <2>8, <2>9 DEF Held, Open
  <2>10. QED
    BY <2>4, <2>5, <2>8, <2>9
<1>3. CASE \E f \in Fd :
             /\ ~Open(s, f)
             /\ t = [aeCreateFileEvent(
                       [s EXCEPT !.socket[f] = [Closed EXCEPT !.owner = c, !.net = "connecting",
                                                              !.haunted = HasTimer(s, c)]],
                       f, {"R", "W"}, "connected", c)
                     EXCEPT !.conn[c].fd = f, !.conn[c].lost = FALSE, !.conn[c].opened = TRUE]
  <2>1. PICK f \in Fd :
             /\ ~Open(s, f)
             /\ t = [aeCreateFileEvent(
                       [s EXCEPT !.socket[f] = [Closed EXCEPT !.owner = c, !.net = "connecting",
                                                              !.haunted = HasTimer(s, c)]],
                       f, {"R", "W"}, "connected", c)
                     EXCEPT !.conn[c].fd = f, !.conn[c].lost = FALSE, !.conn[c].opened = TRUE]
    BY <1>3
  <2>2. PICK k : k = [Closed EXCEPT !.owner = c, !.net = "connecting",
                                    !.haunted = HasTimer(s, c)]
    OBVIOUS
  <2>3. k \in SocketOf /\ k.owner = c
    <3>1. HasTimer(s, c) \in BOOLEAN
      BY DEF HasTimer
    <3>2. PICK h \in BOOLEAN : h = HasTimer(s, c)
      BY <3>1
    <3>3. k = [owner |-> c, net |-> "connecting", in |-> <<>>, fin |-> FALSE, closing |-> FALSE,
               owed |-> 0, used |-> FALSE, early |-> FALSE, haunted |-> h]
      BY <2>2, <3>2 DEF Closed
    <3>4. QED
      BY <3>3 DEF SocketOf, Net
  <2>4. PICK u \in Members : u = [s EXCEPT !.socket[f] = k]
    BY <2>3, SocketBecomes
  <2>5. u.conn = s.conn /\ u.events = s.events /\ u.timers = s.timers /\ u.crossed = s.crossed
    BY <2>4 DEF Members
  <2>6. \A g \in Fd : u.socket[g] = IF g = f THEN k ELSE s.socket[g]
    BY <2>4 DEF Members
  <2>7. c # None
    BY WrkAssumption
  <2>8. PICK e : e = [mask |-> u.events[f].mask \cup {"R", "W"}, r |-> "connected",
                      w |-> "connected", data |-> c]
    OBVIOUS
  <2>9. e \in EventOf /\ Armed(e)
    <3>1. u.events[f] \in EventOf
      BY DEF Members
    <3>2. QED
      BY <2>8, <3>1 DEF EventOf, Armed, Mask
  <2>10. PICK v \in Members : v = [u EXCEPT !.events[f] = e]
    BY <2>9, EventBecomes
  <2>11. aeCreateFileEvent(u, f, {"R", "W"}, "connected", c) = v
    <3>1. Open(u, f)
      BY <2>3, <2>6, <2>7 DEF Open
    <3>2. QED
      BY <2>8, <2>10, <3>1 DEF aeCreateFileEvent
  <2>12. v.conn = s.conn /\ v.timers = s.timers /\ v.crossed = s.crossed /\ v.socket = u.socket
    BY <2>5, <2>10 DEF Members
  <2>13. \A g \in Fd : v.events[g] = IF g = f THEN e ELSE s.events[g]
    BY <2>5, <2>10 DEF Members
  <2>14. PICK m : m = [s.conn[c] EXCEPT !.fd = f, !.lost = FALSE, !.opened = TRUE]
    OBVIOUS
  <2>15. m \in ConnOf /\ m.fd = f /\ ~m.lost /\ m.opened
    BY <1>1, <2>14 DEF ConnOf
  <2>16. t = [v EXCEPT !.conn[c] = m]
    <3>1. t = [v EXCEPT !.conn[c].fd = f, !.conn[c].lost = FALSE, !.conn[c].opened = TRUE]
      BY <2>1, <2>2, <2>4, <2>11
    <3>2. QED
      BY <2>12, <2>14, <3>1
  <2>17. t \in Members
    BY <2>15, <2>16, ConnBecomes
  <2>18. t.events = v.events /\ t.socket = u.socket /\ t.timers = s.timers /\ t.crossed = s.crossed
    BY <2>12, <2>16 DEF Members
  <2>19. \A d \in Conn : t.conn[d] = IF d = c THEN m ELSE s.conn[d]
    BY <2>12, <2>16 DEF Members
  <2>20. ASSUME Freed(s, c) PROVE Wired(t)
    <3>1. s.socket[f].owner = None
      BY <2>1 DEF Open
    <3>2. s.events[f].mask = {}
      <4>1. s.events[f].mask # {} => s.events[f].data \in Conn
        BY DEF Members, Armed
      <4>2. QED
        BY <2>20, <3>1, <4>1, WrkAssumption DEF Freed, Linked
    <3>3. \A g \in Fd : t.events[g].mask # {} => t.socket[g].owner = t.events[g].data
      BY <2>3, <2>6, <2>8, <2>13, <2>18, <2>20 DEF Freed, Linked
    <3>4. \A g \in Fd : s.socket[g].owner \in Conn \cup {None}
      BY DEF Members, SocketOf
    <3>5. ASSUME NEW g \in Fd, t.socket[g].owner # None
          PROVE  /\ t.conn[t.socket[g].owner].fd = g
                 /\ t.conn[t.socket[g].owner].opened
                 /\ ~t.conn[t.socket[g].owner].lost
      <4>1. CASE g = f
        BY <2>3, <2>6, <2>15, <2>18, <2>19, <4>1
      <4>2. CASE g # f
        <5>1. PICK d \in Conn : d = s.socket[g].owner /\ d = t.socket[g].owner
          BY <2>6, <2>18, <3>4, <3>5, <4>2
        <5>2. d # c /\ d # None
          BY <2>20, <3>5, <5>1 DEF Freed
        <5>3. t.conn[d] = s.conn[d]
          BY <2>19, <5>2
        <5>4. s.conn[d].fd = g /\ s.conn[d].opened /\ ~s.conn[d].lost
          BY <2>20, <5>1, <5>2 DEF Freed, Linked
        <5>5. QED
          BY <5>1, <5>3, <5>4
      <4>3. QED
        BY <4>1, <4>2
    <3>6. ASSUME NEW d \in Conn PROVE HasSocket(t, d)
      <4>1. CASE d = c
        BY <2>3, <2>6, <2>7, <2>15, <2>18, <2>19, <4>1 DEF Open, HasSocket
      <4>2. CASE d # c
        <5>1. t.conn[d] = s.conn[d]
          BY <2>19, <4>2
        <5>2. SUFFICES ASSUME Open(s, s.conn[d].fd), s.socket[s.conn[d].fd].owner = d
                       PROVE  HasSocket(t, d)
          BY <2>20, <4>2, <5>1 DEF Freed, HasSocket
        <5>3. s.conn[d].fd # f
          BY <2>1, <5>2
        <5>4. t.socket[s.conn[d].fd] = s.socket[s.conn[d].fd]
          BY <2>6, <2>18, <5>2, <5>3 DEF Open
        <5>5. QED
          BY <5>1, <5>2, <5>4 DEF Open, HasSocket
      <4>3. QED
        BY <4>1, <4>2
    <3>7. ASSUME NEW i \in 1 .. Len(t.timers), t.timers[i] \in Conn
          PROVE  t.conn[t.timers[i]].opened
      BY <2>15, <2>18, <2>19, <2>20, <3>7 DEF Freed, Linked
    <3>8. QED
      BY <3>3, <3>5, <3>6, <3>7 DEF Wired, Linked
  <2>21. ASSUME Freed(s, c) PROVE Held(t, c)
    BY <2>3, <2>6, <2>15, <2>18, <2>19, <2>20, <2>21 DEF Held
  <2>22. QED
    BY <2>17, <2>18, <2>20, <2>21
<1>4. QED
  BY <1>2, <1>3 DEF connect_socket

LEMMA ReconnectKept ==
  ASSUME NEW s \in Members, NEW c \in Conn, NEW t \in reconnect_socket(s, c)
  PROVE  Kept(s, t, c)
<1>1. PICK f : f = s.conn[c].fd
  OBVIOUS
<1>2. PICK u \in Members : u = aeDeleteFileEvent(s, f, {"R", "W"}) /\ Kept(s, u, c)
  BY DeleteKept DEF Kept
<1>3. /\ u.conn = s.conn /\ u.socket = s.socket /\ u.timers = s.timers
      /\ f \in Fd => u.events[f].mask = {}
  <2>1. CASE f \in Fd
    <3>1. u = [s EXCEPT !.events[f].mask = @ \ {"R", "W"}]
      BY <1>2, <2>1 DEF aeDeleteFileEvent
    <3>2. s.events[f].mask \in SUBSET Mask
      BY <2>1 DEF Members, EventOf
    <3>3. u.events[f].mask = s.events[f].mask \ {"R", "W"}
      BY <2>1, <3>1 DEF Members, EventOf
    <3>4. QED
      BY <3>1, <3>2, <3>3 DEF Members, Mask
  <2>2. CASE f \notin Fd
    BY <1>2, <2>2 DEF aeDeleteFileEvent
  <2>3. QED
    BY <2>1, <2>2
<1>4. PICK v : v = close(u, f)
  OBVIOUS
<1>5. /\ v \in Members /\ v.crossed = u.crossed /\ v.conn = s.conn
      /\ Held(s, c) => Freed(v, c) /\ ~Open(v, f)
  <2>1. CASE ~Open(u, f)
    <3>1. v = u
      BY <1>4, <2>1 DEF close
    <3>2. ASSUME Held(s, c) PROVE Freed(u, c)
      <4>1. Wired(u)
        BY <1>2, <3>2 DEF Kept, Held
      <4>2. ASSUME NEW g \in Fd, u.socket[g].owner = c PROVE FALSE
        <5>1. u.conn[c].fd = g
          BY <4>1, <4>2, WrkAssumption DEF Wired, Linked
        <5>2. g = f
          BY <1>1, <1>3, <5>1
        <5>3. QED
          BY <2>1, <4>2, <5>2, WrkAssumption DEF Open
      <4>3. QED
        BY <4>1, <4>2 DEF Freed, Wired
    <3>3. QED
      BY <1>3, <2>1, <3>1, <3>2
  <2>2. CASE Open(u, f)
    <3>1. v = [u EXCEPT !.socket[f] = Closed] /\ f \in Fd
      BY <1>4, <2>2 DEF close, Open
    <3>2. v \in Members
      BY <3>1, ClosedIs, SocketBecomes
    <3>3. v.conn = u.conn /\ v.events = u.events /\ v.timers = u.timers /\ v.crossed = u.crossed
      BY <3>1 DEF Members
    <3>4. \A g \in Fd : v.socket[g] = IF g = f THEN Closed ELSE u.socket[g]
      BY <3>1 DEF Members
    <3>5. ~Open(v, f)
      BY <3>1, <3>4, ClosedIs DEF Open
    <3>6. ASSUME Held(s, c) PROVE Freed(v, c)
      <4>1. Wired(u) /\ u.socket[f].owner = c
        BY <1>1, <1>2, <1>3, <2>2, <3>6 DEF Kept, Held
      <4>2. \A g \in Fd : g # f => u.socket[g].owner # c
        BY <1>1, <1>3, <4>1, WrkAssumption DEF Wired, Linked
      <4>3. \A g \in Fd : v.socket[g].owner # c
        BY <3>4, <4>2, ClosedIs, WrkAssumption
      <4>4. ASSUME NEW d \in Conn \ {c} PROVE HasSocket(v, d)
        <5>1. SUFFICES ASSUME Open(u, u.conn[d].fd), u.socket[u.conn[d].fd].owner = d
                       PROVE  HasSocket(v, d)
          BY <3>3, <4>1 DEF Wired, HasSocket
        <5>2. u.conn[d].fd # f
          BY <4>1, <5>1
        <5>3. QED
          BY <3>3, <3>4, <5>1, <5>2 DEF HasSocket, Open
      <4>5. \A g \in Fd : v.events[g].mask # {} => v.socket[g].owner = v.events[g].data
        BY <1>3, <3>1, <3>3, <3>4, <4>1 DEF Wired, Linked
      <4>6. ASSUME NEW g \in Fd, v.socket[g].owner # None
            PROVE  /\ v.conn[v.socket[g].owner].fd = g
                   /\ v.conn[v.socket[g].owner].opened
                   /\ ~v.conn[v.socket[g].owner].lost
        BY <3>3, <3>4, <4>1, <4>6, ClosedIs DEF Wired, Linked
      <4>7. \A i \in 1 .. Len(v.timers) : v.timers[i] \in Conn => v.conn[v.timers[i]].opened
        BY <3>3, <4>1 DEF Wired, Linked
      <4>8. QED
        BY <4>3, <4>4, <4>5, <4>6, <4>7 DEF Freed, Linked
    <3>7. QED
      BY <1>3, <3>2, <3>3, <3>5, <3>6
  <2>3. QED
    BY <2>1, <2>2
<1>6. QED
  BY <1>1, <1>2, <1>4, <1>5, ConnectKept DEF reconnect_socket, Kept

-------------------------------------------------------------------------------
(* The request cycle.                                                       *)
LEMMA ConfigIs ==
  ASSUME cfg \in Configs
  PROVE  /\ cfg.delay \in BOOLEAN /\ cfg.pipeline \in Nat \ {0} /\ PendingMod \in Nat \ {0}
         /\ cfg.conns \subseteq Conn
  BY WrkAssumption

LEMMA CountedKept ==
  ASSUME cfg \in Configs, NEW s \in Members, NEW c \in Conn
  PROVE  Kept(s, Counted(s, c), c)
<1>1. s.conn[c] \in ConnOf
  BY DEF Members
<1>2. PICK p : p = (s.conn[c].pending + PendingMod - 1) % PendingMod
  OBVIOUS
<1>3. p \in Int
  BY <1>1, <1>2, ConfigIs DEF ConnOf
<1>4. PICK t \in Members : t = [s EXCEPT !.conn[c].pending = p] /\ Kept(s, t, c)
  BY <1>3, SetPending DEF Kept
<1>5. t = [s EXCEPT !.conn[c].pending = (@ + PendingMod - 1) % PendingMod]
  BY <1>2, <1>4
<1>6. PICK u \in Members : u = [t EXCEPT !.conn[c].delayed = cfg.delay] /\ Kept(t, u, c)
  BY ConfigIs, SetDelayed DEF Kept
<1>7. u.conn[c].fd = t.conn[c].fd
  BY <1>6 DEF Members, ConnOf
<1>8. Kept(u, aeCreateFileEvent(u, t.conn[c].fd, {"W"}, "writeable", c), c)
  BY <1>7, CreateKept DEF Mask
<1>9. Counted(s, c) = IF t.conn[c].pending # 0 THEN t
                      ELSE aeCreateFileEvent(u, t.conn[c].fd, {"W"}, "writeable", c)
  BY <1>5, <1>6 DEF Counted
<1>10. QED
  BY <1>4, <1>6, <1>8, <1>9, KeptAgain

LEMMA CompleteKept ==
  ASSUME cfg \in Configs, NEW s \in Members, NEW c \in Conn, NEW keepAlive \in BOOLEAN,
         NEW t \in response_complete(s, c, keepAlive)
  PROVE  Kept(s, t, c)
<1>1. PICK u \in Members : u = Counted(s, c) /\ Kept(s, u, c)
  BY CountedKept DEF Kept
<1>2. CASE keepAlive
  <2>1. t = [u EXCEPT !.conn[c].parser = "start"]
    BY <1>1, <1>2 DEF response_complete
  <2>2. Kept(u, t, c)
    BY <2>1, SetParser DEF Parser
  <2>3. QED
    BY <1>1, <2>2, KeptAgain
<1>3. CASE ~keepAlive
  <2>1. PICK v \in Members : v = [u EXCEPT !.conn[c].parser = "dead"] /\ Kept(u, v, c)
    <3>1. "dead" \in Parser
      BY DEF Parser
    <3>2. QED
      BY <3>1, SetParser DEF Kept
  <2>2. t \in reconnect_socket(v, c)
    BY <1>1, <1>3, <2>1 DEF response_complete
  <2>3. QED
    BY <1>1, <2>1, <2>2, ReconnectKept, KeptAgain
<1>4. QED
  BY <1>2, <1>3

Result == [s : Members, error : BOOLEAN]

LEMMA ParseKept ==
  ASSUME cfg \in Configs, NEW r \in Result, NEW c \in Conn, NEW token \in Token,
         NEW p \in Parse(r, c, token)
  PROVE  p \in Result /\ Kept(r.s, p.s, c)
<1>1. PICK s \in Members : s = r.s /\ Kept(s, s, c)
  BY KeptSame DEF Result
<1>2. s.conn[c].parser \in Parser
  BY DEF Members, ConnOf
<1>3. r.error \in BOOLEAN /\ r = [s |-> s, error |-> r.error]
  BY <1>1 DEF Result
<1>4. CASE r.error \/ s.conn[c].parser = "until"
  <2>1. p = r
    BY <1>1, <1>4 DEF Parse
  <2>2. QED
    BY <1>1, <2>1
<1>5. CASE ~r.error /\ s.conn[c].parser = "dead"
  <2>1. p = [r EXCEPT !.error = TRUE]
    BY <1>1, <1>5 DEF Parse
  <2>2. QED
    BY <1>1, <2>1 DEF Result
<1>6. CASE ~r.error /\ s.conn[c].parser = "start"
  <2>1. CASE token = "end"
    <3>1. PICK t \in response_complete(s, c, TRUE) : p = [s |-> t, error |-> FALSE]
      BY <1>1, <1>6, <2>1 DEF Parse
    <3>2. Kept(s, t, c)
      BY CompleteKept
    <3>3. QED
      BY <1>1, <3>1, <3>2 DEF Kept, Result
  <2>2. CASE token = "last"
    <3>1. PICK t \in response_complete(s, c, FALSE) : p = [s |-> t, error |-> FALSE]
      BY <1>1, <1>6, <2>2 DEF Parse
    <3>2. Kept(s, t, c)
      BY CompleteKept
    <3>3. QED
      BY <1>1, <3>1, <3>2 DEF Kept, Result
  <2>3. CASE token = "until"
    <3>1. PICK t : t = [s EXCEPT !.conn[c].parser = "until"] /\ p = [s |-> t, error |-> FALSE]
      BY <1>1, <1>6, <2>3 DEF Parse
    <3>2. Kept(s, t, c)
      BY <3>1, SetParser DEF Parser
    <3>3. QED
      BY <1>1, <3>1, <3>2 DEF Kept, Result
  <2>4. CASE token = "junk"
    <3>1. p = [r EXCEPT !.error = TRUE]
      BY <1>1, <1>6, <2>4 DEF Parse
    <3>2. QED
      BY <1>1, <3>1 DEF Result
  <2>5. QED
    BY <2>1, <2>2, <2>3, <2>4 DEF Token
<1>7. QED
  BY <1>2, <1>3, <1>4, <1>5, <1>6 DEF Parser

-------------------------------------------------------------------------------
(* Induction over a finite set, on the set of the subsets for which what is *)
(* to be proved holds.                                                      *)
LEMMA FromSubsets ==
  ASSUME NEW S, IsFiniteSet(S), NEW U \in SUBSET SUBSET S,
         \A T \in SUBSET S : (\A V \in SUBSET T : V # T => V \in U) => T \in U
  PROVE  U = SUBSET S
<1>1. SUFFICES ASSUME U # SUBSET S PROVE FALSE
  OBVIOUS
<1> DEFINE R == StrictSubsetOrdering(S)
           B == (SUBSET S) \ U
<1>2. B \subseteq FiniteSubsetsOf(S) /\ B # {}
  <2>1. ASSUME NEW T \in B PROVE IsFiniteSet(T)
    BY FS_Subset
  <2>2. QED
    BY <1>1, <2>1 DEF FiniteSubsetsOf
<1>3. PICK T \in B : \A V \in B : ~ (<<V, T>> \in R)
  <2>1. IsWellFoundedOn(R, FiniteSubsetsOf(S))
    BY FS_StrictSubsetOrderingWellFounded
  <2> HIDE DEF B, R
  <2>2. QED
    BY <1>2, <2>1, WFMin
<1>4. ASSUME NEW V \in SUBSET T, V # T PROVE V \in U
  BY <1>3, <1>4 DEF StrictSubsetOrdering
<1>5. QED
  BY <1>3, <1>4

LEMMA HasMax ==
  ASSUME NEW S, IsFiniteSet(S), S \subseteq Int, S # {}
  PROVE  \E m \in S : \A k \in S : k <= m
<1> DEFINE U == {T \in SUBSET S : T = {} \/ \E m \in T : \A k \in T : k <= m}
<1>1. ASSUME NEW T \in SUBSET S, \A V \in SUBSET T : V # T => V \in U
      PROVE  T \in U
  <2>1. SUFFICES ASSUME NEW x \in T PROVE \E m \in T : \A k \in T : k <= m
    OBVIOUS
  <2>2. CASE T \ {x} = {}
    BY <2>2
  <2>3. CASE T \ {x} # {}
    <3>1. T \ {x} \in U
      BY <1>1
    <3>2. PICK m \in T \ {x} : \A k \in T \ {x} : k <= m
      BY <2>3, <3>1
    <3>3. PICK p \in T : p = IF x <= m THEN m ELSE x
      OBVIOUS
    <3>4. \A k \in T : k <= p
      BY <3>2, <3>3
    <3>5. QED
      BY <3>4
  <2>4. QED
    BY <2>2, <2>3
<1>2. U \in SUBSET SUBSET S
  OBVIOUS
<1>3. U = SUBSET S
  <2> HIDE DEF U
  <2>1. QED
    BY <1>1, <1>2, FromSubsets
<1>4. S \in U
  BY <1>3
<1>5. QED
  BY <1>4

Positions(S) == IsFiniteSet(S) /\ S \subseteq Int

LEMMA SomePositions ==
  ASSUME NEW S, Positions(S), NEW T \in SUBSET S
  PROVE  Positions(T)
<1>1. IsFiniteSet(T)
  BY FS_Subset DEF Positions
<1>2. QED
  BY <1>1 DEF Positions

LEMMA MaxIn ==
  ASSUME NEW S, Positions(S), S # {}
  PROVE  Max(S) \in S
<1>1. \E m \in S : \A k \in S : m >= k
  <2>1. \E m \in S : \A k \in S : k <= m
    BY HasMax DEF Positions
  <2>2. QED
    BY <2>1 DEF Positions
<1>2. QED
  BY <1>1 DEF Max

-------------------------------------------------------------------------------
(* The parser takes one token after the other: a fold, a recursive function *)
(* over sets of positions.                                                  *)
Begun(s) == {[s |-> s, error |-> FALSE]}

After(R, c, token) == UNION {Parse(r, c, token) : r \in R}

Executes(s, c, seq, S, g) ==
  g = [D \in SUBSET S |-> IF D = {} THEN Begun(s)
                          ELSE LET x == Max(D) IN After(g[D \ {x}], c, seq[x])]

Outcome(s, c, seq, S) == (CHOOSE g : Executes(s, c, seq, S, g))[S]

LEMMA ExecuteIs ==
  ASSUME NEW s, NEW c, NEW seq
  PROVE  Execute(s, c, seq) = Outcome(s, c, seq, DOMAIN seq)
  BY DEF Execute, FoldLeft, MapThenFoldSet, Outcome, Executes, Begun, After

LastOf(g, D, c, seq) == After(g[D \ {Max(D)}], c, seq[Max(D)])

LEMMA ExecutesNone ==
  ASSUME NEW s, NEW c, NEW seq, NEW S, NEW g, Executes(s, c, seq, S, g)
  PROVE  g[{}] = Begun(s)
<1>1. {} \in SUBSET S
  OBVIOUS
<1>2. QED
  BY <1>1 DEF Executes

LEMMA ExecutesMore ==
  ASSUME NEW s, NEW c, NEW seq, NEW S, NEW g, Executes(s, c, seq, S, g),
         NEW D \in SUBSET S, D # {}
  PROVE  g[D] = LastOf(g, D, c, seq)
  BY DEF Executes, LastOf

LEMMA MeansExecutes ==
  ASSUME NEW s, NEW c, NEW seq, NEW S, NEW g, g = [D \in SUBSET S |-> g[D]],
         g[{}] = Begun(s), \A D \in SUBSET S : D # {} => g[D] = LastOf(g, D, c, seq)
  PROVE  Executes(s, c, seq, S, g)
<1>1. \A D \in SUBSET S : g[D] = IF D = {} THEN Begun(s)
                                 ELSE LET x == Max(D) IN After(g[D \ {x}], c, seq[x])
  BY DEF LastOf
<1>2. QED
  BY <1>1 DEF Executes

LEMMA ExecutesAgree ==
  ASSUME NEW s, NEW c, NEW seq, NEW S, Positions(S), NEW T \in SUBSET S,
         NEW g, NEW h, Executes(s, c, seq, S, g), Executes(s, c, seq, T, h)
  PROVE  \A D \in SUBSET T : g[D] = h[D]
<1> DEFINE U == {D \in SUBSET T : g[D] = h[D]}
<1>1. Positions(T) /\ IsFiniteSet(T)
  BY SomePositions DEF Positions
<1>2. ASSUME NEW D \in SUBSET T, \A V \in SUBSET D : V # D => V \in U
      PROVE  D \in U
  <2>1. CASE D = {}
    BY <2>1, ExecutesNone
  <2>2. CASE D # {}
    <3>1. Positions(D)
      BY <1>1, SomePositions
    <3>2. Max(D) \in D
      BY <2>2, <3>1, MaxIn
    <3>3. D \ {Max(D)} \in U
      BY <1>2, <3>2
    <3>4. D \in SUBSET S
      OBVIOUS
    <3>5. g[D] = LastOf(g, D, c, seq)
      BY <2>2, <3>4, ExecutesMore
    <3>6. h[D] = LastOf(h, D, c, seq)
      BY <2>2, ExecutesMore
    <3>7. QED
      BY <3>3, <3>5, <3>6 DEF LastOf
  <2>3. QED
    BY <2>1, <2>2
<1>3. U = SUBSET T
  <2> HIDE DEF U
  <2>1. U \in SUBSET SUBSET T
    BY DEF U
  <2>2. QED
    BY <1>1, <1>2, <2>1, FromSubsets
<1>4. QED
  BY <1>3

Executed(s, c, seq, S) == \E g : Executes(s, c, seq, S, g)

LEMMA OutcomeIs ==
  ASSUME NEW s, NEW c, NEW seq, NEW S, Positions(S), NEW T \in SUBSET S,
         NEW g, Executes(s, c, seq, S, g), Executed(s, c, seq, T)
  PROVE  Outcome(s, c, seq, T) = g[T]
<1>1. PICK h : Executes(s, c, seq, T, h) /\ Outcome(s, c, seq, T) = h[T]
  BY DEF Executed, Outcome
<1>2. T \in SUBSET T
  OBVIOUS
<1>3. QED
  BY <1>1, <1>2, ExecutesAgree

LEMMA AllExecuted ==
  ASSUME NEW s, NEW c, NEW seq, NEW S, Positions(S)
  PROVE  Executed(s, c, seq, S)
<1> DEFINE U == {T \in SUBSET S : Executed(s, c, seq, T)}
<1>1. ASSUME NEW T \in SUBSET S, \A V \in SUBSET T : V # T => V \in U
      PROVE  T \in U
  <2> DEFINE Rest(D) == Outcome(s, c, seq, D \ {Max(D)})
             h == [D \in SUBSET T |-> IF D = {} THEN Begun(s)
                                      ELSE After(Rest(D), c, seq[Max(D)])]
  <2>1. ASSUME NEW V \in SUBSET T, V # T PROVE Outcome(s, c, seq, V) = h[V]
    <3>1. Positions(V) /\ Executed(s, c, seq, V)
      BY <1>1, <2>1, SomePositions
    <3>2. PICK g : Executes(s, c, seq, V, g)
      BY <3>1 DEF Executed
    <3>3. V \in SUBSET V
      OBVIOUS
    <3>4. Outcome(s, c, seq, V) = g[V]
      BY <3>1, <3>2, <3>3, OutcomeIs
    <3>5. CASE V = {}
      BY <3>2, <3>4, <3>5, ExecutesNone
    <3>6. CASE V # {}
      <4>1. PICK m \in V : m = Max(V)
        BY <3>1, <3>6, MaxIn
      <4>2. PICK W \in SUBSET V : W = V \ {Max(V)} /\ W \in SUBSET T /\ W # T
        <5>1. V \ {m} \in SUBSET V /\ V \ {m} \in SUBSET T /\ m \in T /\ m \notin V \ {m}
          OBVIOUS
        <5>2. QED
          BY <4>1, <5>1
      <4>3. Executed(s, c, seq, W)
        BY <1>1, <4>2
      <4>4. Outcome(s, c, seq, W) = g[W]
        BY <3>1, <3>2, <4>3, OutcomeIs
      <4>5. g[V] = LastOf(g, V, c, seq)
        BY <3>2, <3>3, <3>6, ExecutesMore
      <4>6. QED
        BY <3>4, <3>6, <4>2, <4>4, <4>5 DEF LastOf
    <3>7. QED
      BY <3>5, <3>6
  <2>2. ASSUME NEW D \in SUBSET T, D # {} PROVE h[D] = LastOf(h, D, c, seq)
    <3>1. Positions(D)
      BY SomePositions
    <3>2. PICK m \in D : m = Max(D)
      BY <2>2, <3>1, MaxIn
    <3>3. PICK W \in SUBSET T : W = D \ {Max(D)} /\ W # T
      <4>1. D \ {m} \in SUBSET T /\ m \in T /\ m \notin D \ {m}
        OBVIOUS
      <4>2. QED
        BY <3>2, <4>1
    <3>4. Outcome(s, c, seq, W) = h[W]
      BY <2>1, <3>3
    <3>5. QED
      BY <2>2, <3>3, <3>4 DEF LastOf
  <2>3. h[{}] = Begun(s) /\ h = [D \in SUBSET T |-> h[D]]
    OBVIOUS
  <2>4. Executes(s, c, seq, T, h)
    <3> HIDE DEF h
    <3>1. QED
      BY <2>2, <2>3, MeansExecutes
  <2>5. QED
    BY <2>4 DEF Executed
<1>2. U \in SUBSET SUBSET S
  OBVIOUS
<1>3. U = SUBSET S
  <2> HIDE DEF U
  <2>1. QED
    BY <1>1, <1>2, FromSubsets DEF Positions
<1>4. QED
  BY <1>3

LEMMA ExecuteKept ==
  ASSUME cfg \in Configs, NEW s \in Members, NEW c \in Conn, NEW tokens \in Seq(Token),
         NEW r \in Execute(s, c, tokens)
  PROVE  r \in Result /\ Kept(s, r.s, c)
<1>1. PICK n \in Nat : n = Len(tokens)
  OBVIOUS
<1>2. PICK S : S = DOMAIN tokens /\ Positions(S) /\ IsFiniteSet(S)
  <2>1. DOMAIN tokens = 1 .. n
    BY <1>1
  <2>2. IsFiniteSet(1 .. n) /\ 1 .. n \subseteq Int
    BY FS_Interval
  <2>3. QED
    BY <2>1, <2>2 DEF Positions
<1>3. PICK g : Executes(s, c, tokens, S, g)
  BY <1>2, AllExecuted DEF Executed
<1> DEFINE Good(R) == \A q \in R : q \in Result /\ Kept(s, q.s, c)
           U == {D \in SUBSET S : Good(g[D])}
<1>4. ASSUME NEW D \in SUBSET S, \A V \in SUBSET D : V # D => V \in U
      PROVE  D \in U
  <2>1. CASE D = {}
    <3>1. Good(Begun(s))
      <4>1. [s |-> s, error |-> FALSE] \in Result
        BY DEF Result
      <4>2. PICK q : q = [s |-> s, error |-> FALSE]
        OBVIOUS
      <4>3. q \in Result /\ q.s = s /\ Kept(s, s, c)
        BY <4>1, <4>2, KeptSame
      <4>4. QED
        BY <4>2, <4>3 DEF Begun
    <3>2. QED
      BY <1>3, <2>1, <3>1, ExecutesNone
  <2>2. CASE D # {}
    <3>1. Positions(D)
      BY <1>2, SomePositions
    <3>2. PICK x \in D : x = Max(D)
      BY <2>2, <3>1, MaxIn
    <3>3. Good(g[D \ {x}])
      BY <1>4, <3>2
    <3>4. tokens[x] \in Token
      <4>1. x \in DOMAIN tokens
        BY <1>2
      <4>2. QED
        BY <4>1
    <3>5. g[D] = After(g[D \ {x}], c, tokens[x])
      BY <1>3, <2>2, <3>2, ExecutesMore DEF LastOf
    <3>6. ASSUME NEW q \in After(g[D \ {x}], c, tokens[x])
          PROVE  q \in Result /\ Kept(s, q.s, c)
      <4>1. PICK p \in g[D \ {x}] : q \in Parse(p, c, tokens[x])
        BY DEF After
      <4>2. p \in Result /\ Kept(s, p.s, c)
        BY <3>3
      <4>3. q \in Result /\ Kept(p.s, q.s, c)
        BY <3>4, <4>1, <4>2, ParseKept
      <4>4. QED
        BY <4>2, <4>3, KeptAgain
    <3>7. QED
      BY <3>5, <3>6
  <2>3. QED
    BY <2>1, <2>2
<1>5. U = SUBSET S
  <2> HIDE DEF U
  <2>1. U \in SUBSET SUBSET S
    BY DEF U
  <2>2. QED
    BY <1>2, <1>4, <2>1, FromSubsets
<1>6. S \in SUBSET S
  OBVIOUS
<1>7. Outcome(s, c, tokens, S) = g[S]
  BY <1>2, <1>3, <1>6, AllExecuted, OutcomeIs
<1>8. r \in g[S]
  BY <1>2, <1>7, ExecuteIs
<1>9. QED
  BY <1>5, <1>6, <1>8

-------------------------------------------------------------------------------
(* The callbacks.                                                           *)
LEMMA ReadableKept ==
  ASSUME cfg \in Configs, NEW s \in Members, NEW c \in Conn, NEW t \in socket_readable(s, c)
  PROVE  Kept(s, t, c)
<1> DEFINE f == s.conn[c].fd
           k == IF Open(s, f) THEN s.socket[f] ELSE Closed
           taken(n) == [s EXCEPT !.socket[f].in = SubSeq(@, n + 1, Len(@))]
           ends(r) == IF r.error THEN reconnect_socket(r.s, c) ELSE {r.s}
           read(n) == UNION {ends(r) : r \in Execute(taken(n), c, SubSeq(k.in, 1, n))}
<1>1. CASE k.in # <<>>
  <2>1. f \in Fd /\ k = s.socket[f] /\ k \in SocketOf
    BY <1>1 DEF Open, Closed, Members
  <2>2. t \in UNION {read(n) : n \in 1 .. Len(k.in)}
    BY <1>1 DEF socket_readable
  <2>13. PICK n \in 1 .. Len(k.in) : t \in read(n)
    <3> HIDE DEF read
    <3>1. QED
      BY <2>2
  <2>14. PICK u : u = taken(n)
    OBVIOUS
  <2>3. PICK r \in Execute(u, c, SubSeq(k.in, 1, n)) : t \in ends(r)
    <3> HIDE DEF ends, taken, k
    <3>1. QED
      BY <2>13, <2>14
  <2> HIDE DEF read, k, f
  <2>4. k.in \in Seq(Token)
    BY <2>1 DEF SocketOf
  <2>5. SubSeq(k.in, 1, n) \in Seq(Token) /\ SubSeq(k.in, n + 1, Len(k.in)) \in Seq(Token)
    <3>1. Len(k.in) \in Nat /\ n \in Nat /\ 1 <= n /\ n <= Len(k.in)
      BY <2>13, <2>4
    <3>2. \A i \in 1 .. Len(k.in) : k.in[i] \in Token
      BY <2>4
    <3>3. \A i \in 1 .. n : k.in[i] \in Token
      BY <3>1, <3>2
    <3>4. \A i \in n + 1 .. Len(k.in) : k.in[i] \in Token
      BY <3>1, <3>2
    <3>5. QED
      BY <2>4, <3>1, <3>3, <3>4, SubSeqProperties
  <2>6. PICK m : m = [k EXCEPT !.in = SubSeq(k.in, n + 1, Len(k.in))]
    OBVIOUS
  <2>7. m \in SocketOf /\ m.owner = k.owner
    BY <2>1, <2>5, <2>6 DEF SocketOf
  <2>8. u = [s EXCEPT !.socket[f] = m]
    BY <2>1, <2>14, <2>6
  <2>9. Kept(s, u, c) /\ u \in Members
    BY <2>1, <2>7, <2>8, SocketSets DEF Kept
  <2>10. r \in Result /\ Kept(u, r.s, c)
    BY <2>3, <2>5, <2>9, ExecuteKept
  <2>11. Kept(r.s, t, c)
    BY <2>3, <2>10, ReconnectKept, KeptSame DEF Result
  <2>12. QED
    BY <2>9, <2>10, <2>11, KeptAgain
<1>2. CASE k.in = <<>> /\ k.fin
  <2>1. PICK u \in ExecuteEof(s, c) : t \in reconnect_socket(u, c)
    BY <1>2 DEF socket_readable
  <2>2. Kept(s, u, c)
    BY <2>1, KeptSame, CompleteKept DEF ExecuteEof
  <2>3. Kept(u, t, c)
    BY <2>1, <2>2, ReconnectKept DEF Kept
  <2>4. QED
    BY <2>2, <2>3, KeptAgain
<1>3. CASE k.in = <<>> /\ ~k.fin
  <2>1. t \in {s} \cup reconnect_socket(s, c)
    BY <1>3 DEF socket_readable
  <2>2. QED
    BY <2>1, KeptSame, ReconnectKept
<1>4. QED
  BY <1>1, <1>2, <1>3

LEMMA BothKept ==
  ASSUME NEW s \in Members, NEW c \in Conn, NEW f, NEW t,
         t = aeCreateFileEvent(aeCreateFileEvent(s, f, {"R"}, "readable", c),
                               f, {"W"}, "writeable", c)
  PROVE  /\ t \in Members /\ t.crossed = s.crossed
         /\ f = s.conn[c].fd => Kept(s, t, c)
<1>1. PICK u : u = aeCreateFileEvent(s, f, {"R"}, "readable", c)
  OBVIOUS
<1>2. t = aeCreateFileEvent(u, f, {"W"}, "writeable", c)
  BY <1>1
<1>3. {"R"} \in SUBSET Mask /\ {"W"} \in SUBSET Mask
  BY DEF Mask
<1>4. u \in Members /\ u.conn = s.conn /\ u.crossed = s.crossed
  BY <1>1, <1>3, CreateTyped
<1>5. t \in Members /\ t.crossed = u.crossed
  <2>1. u \in Members /\ "R" \notin {"W"}
    BY <1>4
  <2>2. QED
    BY <1>2, <1>3, <2>1, CreateTyped
<1>6. ASSUME f = s.conn[c].fd PROVE Kept(s, t, c)
  <2>1. Kept(s, u, c)
    BY <1>1, <1>3, <1>6, CreateKept
  <2>2. Kept(u, t, c)
    BY <1>2, <1>3, <1>4, <1>6, CreateKept
  <2>3. QED
    BY <2>1, <2>2, KeptAgain
<1>7. QED
  BY <1>4, <1>5, <1>6

LEMMA ConnectedKept ==
  ASSUME NEW s \in Members, NEW c \in Conn, NEW f, Held(s, c) => f = s.conn[c].fd,
         NEW t \in socket_connected(s, c, f)
  PROVE  Kept(s, t, c)
<1>1. PICK u \in Members : u = [s EXCEPT !.conn[c].parser = "start"] /\ Kept(s, u, c)
  BY SetParser DEF Kept, Parser
<1>2. PICK v \in Members : v = [u EXCEPT !.conn[c].written = 0] /\ Kept(u, v, c)
  BY SetWritten DEF Kept
<1>3. v = [s EXCEPT !.conn[c].parser = "start", !.conn[c].written = 0]
  BY <1>1, <1>2
<1>4. v.conn[c].fd = s.conn[c].fd
  <2>1. u.conn[c].fd = s.conn[c].fd
    BY <1>1 DEF Members, ConnOf
  <2>2. v.conn[c].fd = u.conn[c].fd
    BY <1>2 DEF Members, ConnOf
  <2>3. QED
    BY <2>1, <2>2
<1>5. PICK x : x = aeCreateFileEvent(aeCreateFileEvent(v, f, {"R"}, "readable", c),
                                     f, {"W"}, "writeable", c)
  OBVIOUS
<1>6. x \in Members /\ x.crossed = v.crossed
  BY <1>5, BothKept
<1>7. ASSUME f = s.conn[c].fd PROVE Kept(v, x, c)
  BY <1>4, <1>5, <1>7, BothKept
<1>8. Kept(s, v, c)
  BY <1>1, <1>2, KeptAgain
<1>9. Kept(s, x, c)
  BY <1>6, <1>7, <1>8, KeptAgain DEF Kept
<1>10. t \in {x, s} \cup reconnect_socket(s, c)
  BY <1>3, <1>5 DEF socket_connected
<1>11. QED
  BY <1>9, <1>10, KeptSame, ReconnectKept

LEMMA TimerWired ==
  ASSUME NEW s \in Members, NEW x \in Conn \cup {Rate}, NEW t, t = aeCreateTimeEvent(s, x)
  PROVE  /\ t \in Members /\ t.crossed = s.crossed
         /\ t.conn = s.conn /\ t.socket = s.socket
         /\ Wired(s) /\ (x \in Conn => s.conn[x].opened) => Wired(t)
<1>1. s.timers \in Seq(Conn \cup {Rate})
  BY DEF Members
<1>2. PICK q : q = <<x>> \o s.timers
  OBVIOUS
<1>3. /\ q \in Seq(Conn \cup {Rate}) /\ Len(q) = Len(s.timers) + 1
      /\ \A i \in 1 .. Len(q) : q[i] = IF i = 1 THEN x ELSE s.timers[i - 1]
  <2>1. <<x>> \in Seq(Conn \cup {Rate}) /\ Len(<<x>>) = 1 /\ <<x>>[1] = x
    OBVIOUS
  <2>2. q \in Seq(Conn \cup {Rate}) /\ Len(q) = 1 + Len(s.timers)
    BY <1>1, <1>2, <2>1, ConcatProperties
  <2>3. \A i \in 1 .. Len(q) : q[i] = IF i <= 1 THEN <<x>>[i] ELSE s.timers[i - 1]
    BY <1>1, <1>2, <2>1, ConcatProperties
  <2>4. Len(s.timers) \in Nat
    BY <1>1
  <2>5. QED
    BY <2>1, <2>2, <2>3, <2>4
<1>4. t = [s EXCEPT !.timers = q]
  BY <1>2 DEF aeCreateTimeEvent
<1>5. t \in Members
  BY <1>3, <1>4 DEF Members
<1>6. t.conn = s.conn /\ t.events = s.events /\ t.socket = s.socket /\ t.timers = q
      /\ t.crossed = s.crossed
  BY <1>4 DEF Members
<1>7. ASSUME Wired(s), x \in Conn => s.conn[x].opened PROVE Wired(t)
  <2>1. ASSUME NEW i \in 1 .. Len(q), q[i] \in Conn PROVE s.conn[q[i]].opened
    <3>1. CASE i = 1
      BY <1>3, <1>7, <2>1, <3>1
    <3>2. CASE i # 1
      <4>1. i - 1 \in 1 .. Len(s.timers) /\ q[i] = s.timers[i - 1]
        BY <1>1, <1>3, <3>2
      <4>2. QED
        BY <1>7, <2>1, <4>1 DEF Wired, Linked
    <3>3. QED
      BY <3>1, <3>2
  <2>2. QED
    BY <1>6, <1>7, <2>1 DEF Wired, Linked, HasSocket, Open
<1>8. QED
  BY <1>5, <1>6, <1>7

LEMMA TimerKept ==
  ASSUME NEW s \in Members, NEW c \in Conn, NEW t, t = aeCreateTimeEvent(s, c)
  PROVE  Kept(s, t, c)
<1>1. /\ t \in Members /\ t.crossed = s.crossed
      /\ t.conn = s.conn /\ t.socket = s.socket
      /\ Wired(s) /\ s.conn[c].opened => Wired(t)
  BY TimerWired
<1>2. Held(s, c) => Held(t, c)
  BY <1>1 DEF Held, Open
<1>3. QED
  BY <1>1, <1>2 DEF Kept

LEMMA SentKept ==
  ASSUME NEW s \in Members, NEW c \in Conn, NEW f \in Fd, NEW n \in Nat
  PROVE  Kept(s, Sent(s, c, f, n), c)
<1>1. s.conn[c].written \in Nat /\ s.socket[f] \in SocketOf
  BY DEF Members, ConnOf
<1>2. PICK w \in Nat : w = s.conn[c].written
  BY <1>1
<1>3. PICK u \in Members : u = [s EXCEPT !.conn[c].written = w + n] /\ Kept(s, u, c)
  <2>1. w + n \in Nat
    BY <1>2
  <2>2. QED
    BY <2>1, SetWritten DEF Kept
<1>5. PICK k : k = [s.socket[f] EXCEPT !.used = TRUE, !.owed = @ + (w + n) \div 2 - w \div 2]
  OBVIOUS
<1>6. k \in SocketOf /\ k.owner = s.socket[f].owner
  <2>1. s.socket[f].owed \in Int
    BY <1>1 DEF SocketOf
  <2>2. PICK o \in Int : o = s.socket[f].owed + (w + n) \div 2 - w \div 2
    BY <2>1
  <2>3. k = [s.socket[f] EXCEPT !.used = TRUE, !.owed = o]
    BY <1>5, <2>2
  <2>4. QED
    BY <1>1, <2>3 DEF SocketOf
<1>7. u.socket = s.socket
  BY <1>3 DEF Members
<1>8. PICK t : t = [u EXCEPT !.socket[f] = k]
  OBVIOUS
<1>9. Sent(s, c, f, n) = t
  BY <1>2, <1>3, <1>5, <1>7, <1>8 DEF Sent
<1>10. Kept(u, t, c)
  BY <1>6, <1>7, <1>8, SocketSets
<1>11. QED
  BY <1>3, <1>9, <1>10, KeptAgain

LEMMA WriteableKept ==
  ASSUME cfg \in Configs, NEW s \in Members, NEW c \in Conn, NEW f,
         NEW t \in socket_writeable(s, c, f)
  PROVE  Kept(s, t, c)
<1>1. CASE s.conn[c].delayed
  <2>1. PICK u \in Members : u = aeDeleteFileEvent(s, f, {"W"}) /\ Kept(s, u, c)
    BY DeleteKept DEF Kept
  <2>2. t = aeCreateTimeEvent(u, c)
    BY <1>1, <2>1 DEF socket_writeable
  <2>3. QED
    BY <2>1, <2>2, TimerKept, KeptAgain
<1>2. CASE ~s.conn[c].delayed
  <2> DEFINE g == s.conn[c].fd
             begun == IF s.conn[c].written # 0 THEN s
                      ELSE [s EXCEPT !.conn[c].pending = cfg.pipeline]
             written(n) ==
               LET x == Sent(begun, c, g, n)
               IN  IF x.conn[c].written # Length THEN x
                   ELSE aeDeleteFileEvent([x EXCEPT !.conn[c].written = 0], f, {"W"})
  <2>1. PICK u \in Members : u = begun /\ Kept(s, u, c)
    <3>1. cfg.pipeline \in Int
      BY ConfigIs
    <3>2. QED
      BY <3>1, SetPending, KeptSame DEF Kept
  <2>2. s.conn[c].written \in Nat /\ Length \in Nat
    <3>1. cfg.pipeline \in Nat
      BY ConfigIs
    <3>2. QED
      BY <3>1 DEF Members, ConnOf, Length
  <2>3. CASE Open(s, g) /\ s.socket[g].net = "up"
    <3>1. t \in {begun} \cup {written(n) : n \in 1 .. (Length - s.conn[c].written)}
      BY <1>2, <2>3 DEF socket_writeable
    <3>2. CASE t = begun
      BY <2>1, <3>2
    <3>3. CASE t # begun
      <4>1. PICK n \in 1 .. (Length - s.conn[c].written) : t = written(n)
        <5> HIDE DEF written, begun
        <5>1. QED
          BY <3>1, <3>3
      <4>2. n \in Nat /\ g \in Fd
        BY <2>2, <2>3 DEF Open
      <4>3. PICK x \in Members : x = Sent(u, c, g, n) /\ Kept(u, x, c)
        BY <4>2, SentKept DEF Kept
      <4>4. PICK y \in Members : y = [x EXCEPT !.conn[c].written = 0] /\ Kept(x, y, c)
        BY SetWritten DEF Kept
      <4>5. t = x \/ t = aeDeleteFileEvent(y, f, {"W"})
        <5> HIDE DEF begun
        <5>1. QED
          BY <2>1, <4>1, <4>3, <4>4
      <4>6. Kept(y, aeDeleteFileEvent(y, f, {"W"}), c)
        BY DeleteKept
      <4>7. Kept(s, x, c)
        BY <2>1, <4>3, KeptAgain
      <4>8. Kept(x, aeDeleteFileEvent(y, f, {"W"}), c)
        BY <4>4, <4>6, KeptAgain
      <4>9. Kept(s, aeDeleteFileEvent(y, f, {"W"}), c)
        BY <4>7, <4>8, KeptAgain
      <4>10. QED
        BY <4>5, <4>7, <4>9
    <3>4. QED
      BY <3>2, <3>3
  <2>4. CASE Open(s, g) /\ s.socket[g].net = "connecting"
    <3>1. t = begun
      BY <1>2, <2>4 DEF socket_writeable
    <3>2. QED
      BY <2>1, <3>1
  <2>5. CASE ~(Open(s, g) /\ s.socket[g].net \in {"connecting", "up"})
    <3>1. t \in reconnect_socket(begun, c)
      BY <1>2, <2>5 DEF socket_writeable
    <3>2. QED
      BY <2>1, <3>1, ReconnectKept, KeptAgain
  <2>6. QED
    BY <2>3, <2>4, <2>5
<1>3. QED
  BY <1>1, <1>2

(* The timer may arm what its connection lost, and someone else has: then   *)
(* it is recorded in crossed.                                               *)
LEMMA DelayKept ==
  ASSUME NEW s \in Members, NEW c \in Conn, NEW t, t = delay_request(s, c)
  PROVE  /\ t \in Members /\ t.timers = s.timers
         /\ ~t.crossed => ~s.crossed
         /\ ~t.crossed /\ Wired(s) /\ s.conn[c].opened => Wired(t)
<1>1. PICK f : f = s.conn[c].fd
  OBVIOUS
<1>2. PICK u \in Members : u = [s EXCEPT !.conn[c].delayed = FALSE] /\ Kept(s, u, c)
  BY SetDelayed DEF Kept
<1>3. u.conn[c].fd = f /\ u.timers = s.timers /\ u.crossed = s.crossed
  BY <1>1, <1>2 DEF Members, ConnOf
<1>4. PICK v : v = aeCreateFileEvent(u, f, {"W"}, "writeable", c)
  OBVIOUS
<1>5. Kept(u, v, c) /\ v.timers = u.timers
  <2>1. {"W"} \in SUBSET Mask /\ ~("R" \in {"W"})
    BY DEF Mask
  <2>2. Kept(u, v, c)
    BY <1>3, <1>4, <2>1, CreateKept
  <2>3. v.timers = u.timers
    BY <1>4, <2>1, CreateTyped
  <2>4. QED
    BY <2>2, <2>3
<1>6. PICK b : b = (v.crossed \/ (s.conn[c].lost /\ Open(s, f)))
  OBVIOUS
<1>7. t = [v EXCEPT !.crossed = v.crossed \/ (s.conn[c].lost /\ Open(s, f))]
  BY <1>1, <1>2, <1>4 DEF delay_request
<1>8. (v.crossed \/ (s.conn[c].lost /\ Open(s, f))) \in BOOLEAN
  OBVIOUS
<1>9. /\ t \in Members
      /\ t.conn = v.conn /\ t.events = v.events /\ t.socket = v.socket /\ t.timers = v.timers
      /\ t.crossed = (v.crossed \/ (s.conn[c].lost /\ Open(s, f)))
  BY <1>5, <1>7, <1>8 DEF Members, Kept
<1>12. ASSUME ~t.crossed PROVE ~s.crossed
  BY <1>3, <1>5, <1>9, <1>12 DEF Kept
<1>10. ASSUME ~t.crossed, Wired(s), s.conn[c].opened PROVE Wired(t)
  <2>1. ~(s.conn[c].lost /\ Open(s, f))
    BY <1>9, <1>10
  <2>2. Held(s, c)
    BY <1>1, <1>10, <2>1 DEF Held, Wired, HasSocket
  <2>3. Wired(v)
    BY <1>2, <1>5, <2>2 DEF Kept, Held
  <2>4. Wired(t)
    BY <1>9, <2>3 DEF Wired, Linked, HasSocket, Open
  <2>5. QED
    BY <2>4
<1>11. QED
  BY <1>3, <1>5, <1>9, <1>10, <1>12

-------------------------------------------------------------------------------
(* The thread.                                                              *)
FiredOf == [fd : Fd, mask : SUBSET Mask, rfired : BOOLEAN]

(* No time event is visited twice in a round, and the sockets are wired     *)
(* until a timer has crossed them.                                          *)
ThreadInv ==
  /\ Now \in Members
  /\ cfg \in Configs
  /\ fired \in Seq(FiredOf)
  /\ left \in Nat
  /\ loc = "timers" => left <= Len(timers)
  /\ ~crossed => Wired(Now)

LEMMA NowIs ==
  /\ Now.conn = conn /\ Now.events = events /\ Now.socket = socket
  /\ Now.timers = timers /\ Now.crossed = crossed
  BY DEF Now

LEMMA ThreadBecomes ==
  ASSUME NEW t \in Members, Becomes(t), cfg \in Configs, cfg' = cfg,
         fired' \in Seq(FiredOf), left' \in Nat,
         loc' = "timers" => left' <= Len(t.timers), ~t.crossed => Wired(t)
  PROVE  ThreadInv'
<1>1. t = [conn |-> t.conn, events |-> t.events, socket |-> t.socket, timers |-> t.timers,
           crossed |-> t.crossed]
  BY DEF Members
<1>2. Now' = t
  BY <1>1 DEF Becomes, Now
<1>3. timers' = t.timers /\ crossed' = t.crossed
  BY DEF Becomes
<1>4. QED
  BY <1>2, <1>3 DEF ThreadInv

LEMMA ThreadStays ==
  ASSUME ThreadInv, UNCHANGED <<members, cfg>>, fired' \in Seq(FiredOf), left' \in Nat,
         loc' = "timers" => left' <= Len(timers)
  PROVE  ThreadInv'
<1>1. PICK t \in Members : t = Now
  BY DEF ThreadInv
<1>2. Becomes(t)
  BY <1>1, NowIs DEF members, Becomes
<1>3. QED
  BY <1>1, <1>2, NowIs, ThreadBecomes DEF ThreadInv

LEMMA InitIsWired == Init => ThreadInv
<1>1. SUFFICES ASSUME Init PROVE ThreadInv
  OBVIOUS
<1>2. cfg \in Configs /\ cfg.delay \in BOOLEAN
  BY <1>1, ConfigIs DEF Init
<1>3. Unopened \in ConnOf
  BY <1>2 DEF Unopened, ConnOf, Parser
<1>4. NoEvent \in EventOf /\ Armed(NoEvent)
  BY DEF NoEvent, EventOf, Armed
<1>5. conn \in [Conn -> ConnOf] /\ \A c \in Conn : ~conn[c].opened
  BY <1>1, <1>3 DEF Init, Unopened
<1>6. events \in [Fd -> EventOf] /\ \A f \in Fd : events[f].mask = {} /\ Armed(events[f])
  BY <1>1, <1>4 DEF Init, NoEvent
<1>7. socket \in [Fd -> SocketOf] /\ \A f \in Fd : socket[f].owner = None
  BY <1>1, ClosedIs DEF Init
<1>8. timers \in Seq(Conn \cup {Rate}) /\ Len(timers) = 0 /\ crossed = FALSE
  BY <1>1 DEF Init
<1>9. Now \in Members
  BY <1>5, <1>6, <1>7, <1>8, NowIs DEF Members, Now
<1>10. Wired(Now)
  BY <1>5, <1>6, <1>7, <1>8, NowIs DEF Wired, Linked, HasSocket
<1>11. fired \in Seq(FiredOf) /\ left = 0 /\ loc = "setup"
  BY <1>1 DEF Init
<1>12. QED
  BY <1>2, <1>9, <1>10, <1>11 DEF ThreadInv

LEMMA OpenConnectionKeeps ==
  ASSUME ThreadInv, NEW c \in Conn, OpenConnection(c)
  PROVE  ThreadInv'
<1>1. PICK s \in Members : s = Now
  BY DEF ThreadInv
<1>2. PICK t \in connect_socket(s, c) : Becomes(t)
  BY <1>1 DEF OpenConnection
<1>3. ~s.conn[c].opened
  BY <1>1, NowIs DEF OpenConnection
<1>4. ASSUME Wired(s) PROVE Freed(s, c)
  BY <1>3, <1>4, WrkAssumption DEF Wired, Linked, Freed
<1>5. t \in Members /\ t.crossed = s.crossed /\ (Freed(s, c) => Wired(t))
  BY ConnectKept
<1>6. ~t.crossed => Wired(t)
  BY <1>1, <1>4, <1>5, NowIs DEF ThreadInv
<1>7. /\ cfg \in Configs /\ cfg' = cfg /\ fired' \in Seq(FiredOf) /\ left' \in Nat
      /\ loc' # "timers"
  BY DEF ThreadInv, OpenConnection
<1>8. QED
  BY <1>2, <1>5, <1>6, <1>7, ThreadBecomes

LEMMA EnterLoopKeeps ==
  ASSUME ThreadInv, EnterLoop
  PROVE  ThreadInv'
<1>1. PICK s \in Members : s = Now
  BY DEF ThreadInv
<1>2. PICK t : t = aeCreateTimeEvent(s, Rate)
  OBVIOUS
<1>3. Becomes(t)
  BY <1>1, <1>2 DEF EnterLoop
<1>4. t \in Members /\ t.crossed = s.crossed /\ (Wired(s) => Wired(t))
  BY <1>2, TimerWired, WrkAssumption
<1>5. ~t.crossed => Wired(t)
  BY <1>1, <1>4, NowIs DEF ThreadInv
<1>6. /\ cfg \in Configs /\ cfg' = cfg /\ fired' \in Seq(FiredOf) /\ left' \in Nat
      /\ loc' # "timers"
  BY DEF ThreadInv, EnterLoop
<1>7. QED
  BY <1>3, <1>4, <1>5, <1>6, ThreadBecomes

LEMMA OrderIs ==
  ASSUME NEW S \in SUBSET Fd, NEW order \in SetToSeqs(S)
  PROVE  \E n \in Nat : order \in [1 .. n -> S]
<1>1. IsFiniteSet(S)
  BY FS_Subset, WrkAssumption
<1>2. Cardinality(S) \in Nat
  BY <1>1, FS_CardinalityType
<1>3. QED
  BY <1>2 DEF SetToSeqs

LEMMA PollKeeps ==
  ASSUME ThreadInv, Poll
  PROVE  ThreadInv'
<1>1. PICK order \in SetToSeqs({f \in Fd : Ready(f) # {}}) :
           fired' = [i \in DOMAIN order |->
                       [fd |-> order[i], mask |-> Ready(order[i]), rfired |-> FALSE]]
  BY DEF Poll
<1>2. PICK n \in Nat : order \in [1 .. n -> {f \in Fd : Ready(f) # {}}]
  BY OrderIs
<1>3. ASSUME NEW f \in Fd PROVE Ready(f) \in SUBSET Mask
  <2>1. Now \in Members
    BY DEF ThreadInv
  <2>2. events[f].mask \in SUBSET Mask
    BY <2>1, NowIs DEF Members, EventOf
  <2>3. QED
    BY <2>2 DEF Ready, Mask
<1>4. \A i \in 1 .. n : fired'[i] \in FiredOf
  BY <1>1, <1>2, <1>3 DEF FiredOf
<1>5. fired' = [i \in 1 .. n |-> fired'[i]]
  BY <1>1, <1>2
<1>6. fired' \in [1 .. n -> FiredOf]
  BY <1>4, <1>5
<1>7. fired' \in Seq(FiredOf)
  BY <1>2, <1>6, SeqDef
<1>8. UNCHANGED <<members, cfg>> /\ left' \in Nat /\ loc' # "timers"
  BY DEF Poll, ThreadInv
<1>9. QED
  BY <1>7, <1>8, ThreadStays

(* An event that is wanted is of the connection whose callback runs.        *)
LEMMA WantedIs ==
  ASSUME NEW s \in Members, NEW f \in Fd, s.events[f].mask # {},
         NEW c, c = s.events[f].data
  PROVE  /\ c \in Conn
         /\ Wired(s) => Held(s, c) /\ f = s.conn[c].fd
<1>1. c \in Conn /\ c # None
  BY WrkAssumption DEF Members, Armed
<1>2. ASSUME Wired(s) PROVE Held(s, c) /\ f = s.conn[c].fd
  <2>1. s.socket[f].owner = c
    BY <1>2 DEF Wired, Linked
  <2>2. s.conn[c].fd = f /\ s.conn[c].opened
    BY <1>1, <1>2, <2>1 DEF Wired, Linked
  <2>3. QED
    BY <1>2, <2>1, <2>2 DEF Held
<1>3. QED
  BY <1>1, <1>2

LEMMA CallbackKeeps ==
  ASSUME ThreadInv, NEW f \in Fd, events[f].mask # {}, NEW t, Becomes(t),
         Kept(Now, t, events[f].data), cfg' = cfg, fired' \in Seq(FiredOf), left' \in Nat,
         loc' # "timers"
  PROVE  ThreadInv'
<1>1. PICK s \in Members : s = Now
  BY DEF ThreadInv
<1>2. PICK c : c = s.events[f].data
  OBVIOUS
<1>3. Kept(s, t, c) /\ s.events[f].mask # {}
  BY <1>1, <1>2, NowIs
<1>4. Wired(s) => Held(s, c)
  BY <1>2, <1>3, WantedIs
<1>5. t \in Members /\ (~t.crossed => Wired(t))
  BY <1>1, <1>3, <1>4, NowIs DEF Kept, Held, ThreadInv
<1>6. QED
  BY <1>5, ThreadBecomes DEF ThreadInv

LEMMA HandleReadableKeeps ==
  ASSUME ThreadInv, HandleReadable
  PROVE  ThreadInv'
<1>1. PICK s \in Members : s = Now
  BY DEF ThreadInv
<1>2. PICK e : e = Head(fired)
  OBVIOUS
<1>3. e \in FiredOf /\ Tail(fired) \in Seq(FiredOf)
  BY <1>2, HeadTailProperties DEF ThreadInv, HandleReadable
<1>4. PICK f \in Fd : f = e.fd
  BY <1>3 DEF FiredOf
<1>5. PICK wanted \in BOOLEAN : wanted = ("R" \in events[f].mask)
  <2>1. ("R" \in events[f].mask) \in BOOLEAN
    OBVIOUS
  <2>2. QED
    BY <2>1
<1>6. fired' \in Seq(FiredOf)
  <2>1. PICK d : d = [e EXCEPT !.mask = @ \ {"R"}, !.rfired = wanted]
    OBVIOUS
  <2>2. d \in FiredOf
    BY <1>3, <2>1 DEF FiredOf
  <2>3. fired' = <<d>> \o Tail(fired)
    BY <1>2, <1>4, <1>5, <2>1 DEF HandleReadable
  <2>4. <<d>> \in Seq(FiredOf)
    BY <2>2
  <2>5. QED
    BY <1>3, <2>3, <2>4, ConcatProperties
<1>7. cfg' = cfg /\ cfg \in Configs /\ left' \in Nat /\ loc' # "timers" /\ UNCHANGED cfg
  BY DEF HandleReadable, ThreadInv
<1>8. PICK c : c = events[f].data
  OBVIOUS
<1>9. PICK t \in CASE ~wanted -> {s}
                   [] wanted /\ events[f].r = "connected" -> socket_connected(s, c, f)
                   [] wanted /\ events[f].r = "readable"  -> socket_readable(s, c) :
           Becomes(t)
  BY <1>1, <1>2, <1>4, <1>5, <1>8 DEF HandleReadable
<1>10. CASE ~wanted
  <2>1. t = s
    BY <1>9, <1>10
  <2>2. UNCHANGED <<members, cfg>>
    BY <1>1, <1>7, <1>9, <2>1, NowIs DEF Becomes, members
  <2>3. QED
    BY <1>6, <1>7, <2>2, ThreadStays
<1>11. CASE wanted
  <2>1. s.events[f].mask # {} /\ c = s.events[f].data
    BY <1>1, <1>5, <1>8, <1>11, NowIs
  <2>2. c \in Conn /\ (Held(s, c) => f = s.conn[c].fd)
    <3>1. c \in Conn /\ (Wired(s) => f = s.conn[c].fd)
      BY <1>1, <1>4, <2>1, WantedIs
    <3>2. QED
      BY <3>1 DEF Held
  <2>3. events[f].r \in {"connected", "readable"}
    <3>1. s.events[f] \in EventOf /\ Armed(s.events[f])
      BY DEF Members
    <3>2. QED
      BY <1>1, <1>5, <1>11, <3>1, NowIs DEF EventOf, Armed
  <2>4. CASE events[f].r = "connected"
    <3>1. t \in socket_connected(s, c, f)
      BY <1>9, <1>11, <2>4
    <3>2. Kept(s, t, c)
      BY <2>2, <3>1, ConnectedKept
    <3>3. Kept(Now, t, events[f].data) /\ events[f].mask # {}
      BY <1>1, <1>8, <2>1, <3>2, NowIs
    <3>4. QED
      BY <1>4, <1>6, <1>7, <1>9, <3>3, CallbackKeeps
  <2>5. CASE events[f].r = "readable"
    <3>1. t \in socket_readable(s, c)
      BY <1>9, <1>11, <2>5
    <3>2. Kept(s, t, c)
      BY <1>7, <2>2, <3>1, ReadableKept
    <3>3. Kept(Now, t, events[f].data) /\ events[f].mask # {}
      BY <1>1, <1>8, <2>1, <3>2, NowIs
    <3>4. QED
      BY <1>4, <1>6, <1>7, <1>9, <3>3, CallbackKeeps
  <2>6. QED
    BY <2>3, <2>4, <2>5
<1>12. QED
  BY <1>10, <1>11

LEMMA HandleWritableKeeps ==
  ASSUME ThreadInv, HandleWritable
  PROVE  ThreadInv'
<1>1. PICK s \in Members : s = Now
  BY DEF ThreadInv
<1>2. PICK e : e = Head(fired)
  OBVIOUS
<1>3. e \in FiredOf /\ Tail(fired) \in Seq(FiredOf)
  BY <1>2, HeadTailProperties DEF ThreadInv, HandleWritable
<1>4. PICK f \in Fd : f = e.fd
  BY <1>3 DEF FiredOf
<1>5. PICK wanted \in BOOLEAN :
           wanted = (/\ "W" \in e.mask /\ "W" \in events[f].mask
                     /\ ~e.rfired \/ events[f].w # events[f].r)
  OBVIOUS
<1>6. fired' \in Seq(FiredOf)
  BY <1>3 DEF HandleWritable
<1>7. cfg' = cfg /\ cfg \in Configs /\ left' \in Nat /\ loc' # "timers" /\ UNCHANGED cfg
  BY DEF HandleWritable, ThreadInv
<1>8. PICK c : c = events[f].data
  OBVIOUS
<1>9. PICK t \in CASE ~wanted -> {s}
                   [] wanted /\ events[f].w = "connected" -> socket_connected(s, c, f)
                   [] wanted /\ events[f].w = "writeable" -> socket_writeable(s, c, f) :
           Becomes(t)
  BY <1>1, <1>2, <1>4, <1>5, <1>8 DEF HandleWritable
<1>10. CASE ~wanted
  <2>1. t = s
    BY <1>9, <1>10
  <2>2. UNCHANGED <<members, cfg>>
    BY <1>1, <1>7, <1>9, <2>1, NowIs DEF Becomes, members
  <2>3. QED
    BY <1>6, <1>7, <2>2, ThreadStays
<1>11. CASE wanted
  <2>1. s.events[f].mask # {} /\ c = s.events[f].data
    BY <1>1, <1>5, <1>8, <1>11, NowIs
  <2>2. c \in Conn /\ (Held(s, c) => f = s.conn[c].fd)
    <3>1. c \in Conn /\ (Wired(s) => f = s.conn[c].fd)
      BY <1>1, <1>4, <2>1, WantedIs
    <3>2. QED
      BY <3>1 DEF Held
  <2>3. events[f].w \in {"connected", "writeable"}
    <3>1. s.events[f] \in EventOf /\ Armed(s.events[f])
      BY DEF Members
    <3>2. QED
      BY <1>1, <1>5, <1>11, <3>1, NowIs DEF EventOf, Armed
  <2>4. CASE events[f].w = "connected"
    <3>1. t \in socket_connected(s, c, f)
      BY <1>9, <1>11, <2>4
    <3>2. Kept(s, t, c)
      BY <2>2, <3>1, ConnectedKept
    <3>3. Kept(Now, t, events[f].data) /\ events[f].mask # {}
      BY <1>1, <1>8, <2>1, <3>2, NowIs
    <3>4. QED
      BY <1>4, <1>6, <1>7, <1>9, <3>3, CallbackKeeps
  <2>5. CASE events[f].w = "writeable"
    <3>1. t \in socket_writeable(s, c, f)
      BY <1>9, <1>11, <2>5
    <3>2. Kept(s, t, c)
      BY <1>7, <2>2, <3>1, WriteableKept
    <3>3. Kept(Now, t, events[f].data) /\ events[f].mask # {}
      BY <1>1, <1>8, <2>1, <3>2, NowIs
    <3>4. QED
      BY <1>4, <1>6, <1>7, <1>9, <3>3, CallbackKeeps
  <2>6. QED
    BY <2>3, <2>4, <2>5
<1>12. QED
  BY <1>10, <1>11

(* r is q without what is at i.                                             *)
Skip(i, j)        == IF j < i THEN j ELSE j + 1
Skips(r, q, i, m) == \A j \in 1 .. m : r[j] = q[Skip(i, j)]

LEMMA RemovedSkips ==
  ASSUME NEW S, NEW q \in Seq(S), NEW i \in 1 .. Len(q), NEW t, t = RemoveAt(q, i)
  PROVE  /\ t \in Seq(S) /\ Len(t) = Len(q) - 1
         /\ Skips(t, q, i, Len(t))
<1>1. PICK n \in Nat : n = Len(q) /\ i \in 1 .. n /\ \A k \in 1 .. n : q[k] \in S
  OBVIOUS
<1>2. PICK a : a = SubSeq(q, 1, i - 1)
  OBVIOUS
<1>3. PICK b : b = SubSeq(q, i + 1, n)
  OBVIOUS
<1>4. /\ a \in Seq(S) /\ Len(a) = i - 1
      /\ \A j \in 1 .. i - 1 : a[j] = q[j]
  <2>1. i - 1 \in Int /\ \A k \in 1 .. i - 1 : q[k] \in S
    BY <1>1
  <2>2. /\ a \in Seq(S) /\ Len(a) = IF 1 <= i - 1 THEN i - 1 - 1 + 1 ELSE 0
        /\ \A j \in 1 .. i - 1 - 1 + 1 : a[j] = q[1 + j - 1]
    BY <1>2, <2>1, SubSeqProperties
  <2>3. QED
    BY <1>1, <2>2
<1>5. /\ b \in Seq(S) /\ Len(b) = n - i
      /\ \A j \in 1 .. n - i : b[j] = q[i + j]
  <2>1. i + 1 \in Int /\ \A k \in i + 1 .. n : q[k] \in S
    BY <1>1
  <2>2. /\ b \in Seq(S) /\ Len(b) = IF i + 1 <= n THEN n - (i + 1) + 1 ELSE 0
        /\ \A j \in 1 .. n - (i + 1) + 1 : b[j] = q[i + 1 + j - 1]
    BY <1>1, <1>3, <2>1, SubSeqProperties
  <2>3. QED
    BY <1>1, <2>2
<1>6. t = a \o b
  BY <1>1, <1>2, <1>3 DEF RemoveAt
<1>7. /\ t \in Seq(S) /\ Len(t) = Len(a) + Len(b)
      /\ \A j \in 1 .. Len(a) + Len(b) : t[j] = IF j <= Len(a) THEN a[j] ELSE b[j - Len(a)]
  <2>1. a \in Seq(S) /\ b \in Seq(S)
    BY <1>4, <1>5
  <2>2. /\ a \o b \in Seq(S) /\ Len(a \o b) = Len(a) + Len(b)
        /\ \A j \in 1 .. Len(a) + Len(b) :
             (a \o b)[j] = IF j <= Len(a) THEN a[j] ELSE b[j - Len(a)]
    BY <2>1, ConcatProperties
  <2>3. QED
    BY <1>6, <2>2
<1>8. Len(t) = n - 1
  BY <1>1, <1>4, <1>5, <1>7
<1>9. ASSUME NEW j \in 1 .. Len(t) PROVE t[j] = q[Skip(i, j)]
  <2>1. j \in 1 .. n - 1
    BY <1>8
  <2>2. CASE j < i
    <3>1. j <= i - 1 /\ j \in 1 .. i - 1
      BY <1>1, <2>1, <2>2
    <3>2. t[j] = q[j]
      BY <1>1, <1>4, <1>5, <1>7, <2>1, <3>1
    <3>3. QED
      BY <2>2, <3>2 DEF Skip
  <2>3. CASE ~(j < i)
    <3>1. j - (i - 1) \in 1 .. n - i /\ t[j] = b[j - (i - 1)]
      BY <1>1, <1>4, <1>5, <1>7, <2>1, <2>3
    <3>2. b[j - (i - 1)] = q[i + (j - (i - 1))]
      BY <1>5, <3>1
    <3>3. i + (j - (i - 1)) = j + 1
      BY <1>1, <2>1
    <3>4. QED
      BY <2>3, <3>1, <3>2, <3>3 DEF Skip
  <2>4. QED
    BY <2>2, <2>3
<1>10. QED
  BY <1>1, <1>7, <1>8, <1>9 DEF Skips

LEMMA RemovedIs ==
  ASSUME NEW S, NEW q \in Seq(S), NEW i \in 1 .. Len(q), NEW t, t = RemoveAt(q, i)
  PROVE  /\ t \in Seq(S) /\ Len(t) = Len(q) - 1
         /\ \A j \in 1 .. Len(t) : \E k \in 1 .. Len(q) : t[j] = q[k]
<1>1. t \in Seq(S) /\ Len(t) = Len(q) - 1 /\ Skips(t, q, i, Len(t))
  BY RemovedSkips
<1>2. ASSUME NEW j \in 1 .. Len(t) PROVE \E k \in 1 .. Len(q) : t[j] = q[k]
  <2>1. PICK n \in Nat : n = Len(q) /\ i \in 1 .. n /\ j \in 1 .. n - 1
    BY <1>1
  <2>2. Skip(i, j) \in 1 .. n
    BY <2>1 DEF Skip
  <2>3. QED
    BY <1>1, <2>1, <2>2 DEF Skips
<1>3. QED
  BY <1>1, <1>2

LEMMA FireDelayKeeps ==
  ASSUME ThreadInv, FireDelay
  PROVE  ThreadInv'
<1>1. PICK s \in Members : s = Now
  BY DEF ThreadInv
<1>2. timers \in Seq(Conn \cup {Rate}) /\ timers = s.timers
  BY <1>1, NowIs DEF Members
<1>3. left \in Nat /\ left > 0 /\ left <= Len(timers)
  BY DEF ThreadInv, FireDelay
<1>4. PICK i \in 1 .. Len(timers) : i = At
  <2>1. PICK n \in Nat : n = Len(timers)
    BY <1>2
  <2>2. n - left + 1 \in 1 .. n
    BY <1>3, <2>1
  <2>3. QED
    BY <2>1, <2>2 DEF At
<1>5. PICK c \in Conn : c = timers[i]
  <2>1. timers[i] \in Conn \cup {Rate}
    BY <1>2
  <2>2. timers[i] # Rate
    BY <1>4 DEF FireDelay
  <2>3. QED
    BY <2>1, <2>2
<1>6. PICK d : d = delay_request(s, c)
  OBVIOUS
<1>7. /\ d \in Members /\ d.timers = timers
      /\ ~d.crossed => ~s.crossed
      /\ ~d.crossed /\ Wired(s) /\ s.conn[c].opened => Wired(d)
  BY <1>2, <1>6, DelayKept
<1>8. PICK q : q = RemoveAt(timers, i)
  OBVIOUS
<1>9. /\ q \in Seq(Conn \cup {Rate}) /\ Len(q) = Len(timers) - 1
      /\ \A j \in 1 .. Len(q) : \E k \in 1 .. Len(timers) : q[j] = timers[k]
  BY <1>2, <1>8, RemovedIs
<1>10. PICK t : t = [d EXCEPT !.timers = q]
  OBVIOUS
<1>11. Becomes(t)
  BY <1>1, <1>4, <1>5, <1>6, <1>8, <1>10 DEF FireDelay
<1>12. t \in Members
  BY <1>7, <1>9, <1>10 DEF Members
<1>13. t.conn = d.conn /\ t.events = d.events /\ t.socket = d.socket /\ t.timers = q
       /\ t.crossed = d.crossed
  BY <1>7, <1>10 DEF Members
<1>14. ASSUME ~t.crossed PROVE Wired(t)
  <2>1. ~crossed /\ Wired(s)
    BY <1>1, <1>7, <1>13, <1>14, NowIs DEF ThreadInv
  <2>2. s.conn[c].opened
    BY <1>2, <1>5, <2>1 DEF Wired, Linked
  <2>3. Wired(d)
    BY <1>7, <1>13, <1>14, <2>1, <2>2
  <2>4. ASSUME NEW j \in 1 .. Len(q), q[j] \in Conn PROVE d.conn[q[j]].opened
    <3>1. PICK k \in 1 .. Len(d.timers) : q[j] = d.timers[k]
      BY <1>7, <1>9
    <3>2. QED
      BY <2>3, <2>4, <3>1 DEF Wired, Linked
  <2>5. QED
    BY <1>13, <2>3, <2>4 DEF Wired, Linked, HasSocket, Open
<1>15. /\ cfg \in Configs /\ cfg' = cfg /\ fired' \in Seq(FiredOf)
       /\ left' \in Nat /\ left' <= Len(t.timers)
  BY <1>2, <1>3, <1>9, <1>13 DEF ThreadInv, FireDelay
<1>16. QED
  BY <1>11, <1>12, <1>14, <1>15, ThreadBecomes

(* What the server does to a socket leaves it with its connection.          *)
LEMMA PeerKeeps ==
  ASSUME ThreadInv, NEW f \in Fd, NEW k \in SocketOf, k.owner = socket[f].owner, Peer(f, k)
  PROVE  ThreadInv'
<1>1. PICK s \in Members : s = Now
  BY DEF ThreadInv
<1>2. PICK t : t = [s EXCEPT !.socket[f] = k]
  OBVIOUS
<1>3. t \in Members
  BY <1>2, SocketBecomes
<1>4. t.socket = [s.socket EXCEPT ![f] = k] /\ t.conn = s.conn /\ t.events = s.events
      /\ t.timers = s.timers /\ t.crossed = s.crossed
  BY <1>2 DEF Members
<1>5. Becomes(t)
  BY <1>1, <1>4, NowIs DEF Peer, Becomes
<1>6. SameWiring(s, t)
  <2>1. k.owner = s.socket[f].owner
    BY <1>1, NowIs
  <2>2. \A g \in Fd : t.socket[g].owner = s.socket[g].owner
    BY <1>4, <2>1 DEF Members
  <2>3. QED
    BY <1>4, <2>2 DEF SameWiring
<1>7. ~t.crossed => Wired(t)
  BY <1>1, <1>3, <1>4, <1>6, NowIs, SameIsWired DEF ThreadInv
<1>8. /\ cfg \in Configs /\ cfg' = cfg /\ fired' \in Seq(FiredOf) /\ left' \in Nat
      /\ loc' = "timers" => left' <= Len(t.timers)
  BY <1>1, <1>4, NowIs DEF ThreadInv, Peer
<1>9. QED
  BY <1>3, <1>5, <1>7, <1>8, ThreadBecomes

LEMMA ServerKeeps ==
  ASSUME ThreadInv, Server
  PROVE  ThreadInv'
<1>1. PICK f \in Fd : \/ Accepts(f) \/ Answers(f) \/ AnswersEarly(f)
                      \/ Finishes(f) \/ RefusesOrResets(f)
                      \/ \E token \in {"last", "until", "junk"} : AnswersLast(f, token)
  BY DEF Server
<1>2. PICK k \in SocketOf : k = socket[f]
  <2>1. Now \in Members
    BY DEF ThreadInv
  <2>2. QED
    BY <2>1, NowIs DEF Members
<1>3. k.in \in Seq(Token) /\ k.owed \in Int
  BY <1>2 DEF SocketOf
<1>4. \A token \in Token : Append(k.in, token) \in Seq(Token)
  BY <1>3
<1>5. CASE Accepts(f)
  <2>1. PICK m : m = [k EXCEPT !.net = "up"]
    OBVIOUS
  <2>2. m \in SocketOf /\ m.owner = k.owner
    BY <1>2, <2>1 DEF SocketOf, Net
  <2>3. Peer(f, m)
    BY <1>2, <1>5, <2>1 DEF Accepts
  <2>4. QED
    BY <1>2, <2>2, <2>3, PeerKeeps
<1>6. CASE Answers(f)
  <2>1. PICK m : m = [k EXCEPT !.in = Append(@, "end"), !.owed = @ - 1]
    OBVIOUS
  <2>2. m \in SocketOf /\ m.owner = k.owner
    <3>1. Append(k.in, "end") \in Seq(Token) /\ k.owed - 1 \in Int
      BY <1>3, <1>4 DEF Token
    <3>2. QED
      BY <1>2, <2>1, <3>1 DEF SocketOf
  <2>3. Peer(f, m)
    BY <1>2, <1>6, <2>1 DEF Answers
  <2>4. QED
    BY <1>2, <2>2, <2>3, PeerKeeps
<1>7. CASE AnswersEarly(f)
  <2>1. PICK m : m = [k EXCEPT !.in = Append(@, "end"), !.owed = @ - 1, !.early = TRUE]
    OBVIOUS
  <2>2. m \in SocketOf /\ m.owner = k.owner
    <3>1. Append(k.in, "end") \in Seq(Token) /\ k.owed - 1 \in Int
      BY <1>3, <1>4 DEF Token
    <3>2. QED
      BY <1>2, <2>1, <3>1 DEF SocketOf
  <2>3. Peer(f, m)
    BY <1>2, <1>7, <2>1 DEF AnswersEarly
  <2>4. QED
    BY <1>2, <2>2, <2>3, PeerKeeps
<1>8. CASE Finishes(f)
  <2>1. PICK m : m = [k EXCEPT !.fin = TRUE, !.closing = TRUE]
    OBVIOUS
  <2>2. m \in SocketOf /\ m.owner = k.owner
    BY <1>2, <2>1 DEF SocketOf
  <2>3. Peer(f, m)
    BY <1>2, <1>8, <2>1 DEF Finishes
  <2>4. QED
    BY <1>2, <2>2, <2>3, PeerKeeps
<1>9. CASE RefusesOrResets(f)
  <2>1. PICK m : m = [k EXCEPT !.net = "broken"]
    OBVIOUS
  <2>2. m \in SocketOf /\ m.owner = k.owner
    BY <1>2, <2>1 DEF SocketOf, Net
  <2>3. Peer(f, m)
    BY <1>2, <1>9, <2>1 DEF RefusesOrResets
  <2>4. QED
    BY <1>2, <2>2, <2>3, PeerKeeps
<1>10. ASSUME NEW token \in {"last", "until", "junk"}, AnswersLast(f, token)
       PROVE  ThreadInv'
  <2>1. PICK m : m = [k EXCEPT !.in = Append(@, token), !.closing = TRUE]
    OBVIOUS
  <2>2. m \in SocketOf /\ m.owner = k.owner
    <3>1. Append(k.in, token) \in Seq(Token)
      BY <1>4 DEF Token
    <3>2. QED
      BY <1>2, <2>1, <3>1 DEF SocketOf
  <2>3. Peer(f, m)
    BY <1>2, <1>10, <2>1 DEF AnswersLast
  <2>4. QED
    BY <1>2, <2>2, <2>3, PeerKeeps
<1>11. QED
  BY <1>1, <1>5, <1>6, <1>7, <1>8, <1>9, <1>10

LEMMA NextKeeps ==
  ASSUME ThreadInv, [Next]_vars
  PROVE  ThreadInv'
<1>1. ASSUME NEW c \in cfg.conns, OpenConnection(c) PROVE ThreadInv'
  <2>1. c \in Conn
    BY ConfigIs DEF ThreadInv
  <2>2. QED
    BY <1>1, <2>1, OpenConnectionKeeps
<1>2. CASE EnterLoop
  BY <1>2, EnterLoopKeeps
<1>3. CASE Poll
  BY <1>3, PollKeeps
<1>4. CASE HandleReadable
  BY <1>4, HandleReadableKeeps
<1>5. CASE HandleWritable
  BY <1>5, HandleWritableKeeps
<1>6. Len(timers) \in Nat
  <2>1. Now \in Members
    BY DEF ThreadInv
  <2>2. timers \in Seq(Conn \cup {Rate})
    BY <2>1, NowIs DEF Members
  <2>3. QED
    BY <2>2
<1>7. CASE BeginTimers
  BY <1>6, <1>7, ThreadStays DEF BeginTimers, ThreadInv
<1>8. CASE PassOver
  BY <1>6, <1>8, ThreadStays DEF PassOver, ThreadInv
<1>9. CASE FireDelay
  BY <1>9, FireDelayKeeps
<1>10. CASE record_rate
  BY <1>6, <1>10, ThreadStays DEF record_rate, ThreadInv
<1>11. CASE EndRound
  BY <1>11, ThreadStays DEF EndRound, ThreadInv
<1>12. CASE Server
  BY <1>12, ServerKeeps
<1>13. CASE SetStop
  BY <1>13, ThreadStays DEF SetStop, ThreadInv
<1>14. CASE UNCHANGED vars
  BY <1>14, ThreadStays DEF vars, ThreadInv
<1>15. QED
  BY <1>1, <1>2, <1>3, <1>4, <1>5, <1>7, <1>8, <1>9, <1>10, <1>11, <1>12, <1>13, <1>14
     DEF Next, Loop

(* What the members of a thread are, and how its sockets, events and timers *)
(* fit together, whatever the callbacks and the server do.                  *)
THEOREM ThreadInductive == Spec => []ThreadInv
  BY InitIsWired, NextKeeps, PTL DEF Spec

(* For any connections, scripts and servers, a callback is only armed on    *)
(* the socket its connection opened.                                        *)
THEOREM EventsAreOwn == Spec => []EventsFollowSockets
<1>1. ThreadInv => EventsFollowSockets
  <2>1. SUFFICES ASSUME ThreadInv, ~crossed, NEW f \in Fd, events[f].mask # {}
                 PROVE  /\ socket[f].owner = events[f].data
                        /\ conn[events[f].data].fd = f
    BY DEF EventsFollowSockets
  <2>2. PICK s \in Members : s = Now
    BY <2>1 DEF ThreadInv
  <2>3. Wired(s) /\ s.events[f].mask # {}
    BY <2>1, <2>2, NowIs DEF ThreadInv
  <2>4. s.socket[f].owner = s.events[f].data /\ s.conn[s.events[f].data].fd = f
    BY <2>3, WantedIs DEF Wired, Linked
  <2>5. QED
    BY <2>2, <2>4, NowIs
<1>2. QED
  BY <1>1, ThreadInductive, PTL

-------------------------------------------------------------------------------
(* What a connection waits for.                                             *)
(*                                                                          *)
(* The invariant of one connection speaks of its members n, its socket k,   *)
(* its events e, its delay timers, and the tokens a read has in hand: those *)
(* of q after the first j.                                                  *)
Enders == {"last", "until", "junk"}

Delays(s, c) ==
  IF ~HasTimer(s, c) THEN "none"
  ELSE IF \A i, j \in 1 .. Len(s.timers) : s.timers[i] = c /\ s.timers[j] = c => i = j
       THEN "one" ELSE "many"

(* Requests begun of which the second unit is still to be written.          *)
Outstanding(w) == IF w = 0 THEN 0 ELSE (Length - w + 1) \div 2

Due(n, k, q, j) == k.owed + Len(k.in) + (Len(q) - j) + Outstanding(n.written)

(* socket_connected has still to run.                                       *)
Connecting(k, e, delays) ==
  /\ e.mask = Mask /\ e.r = "connected" /\ e.w = "connected"
  /\ ~k.used /\ k.owed = 0 /\ k.in = <<>>
  /\ k.closing => k.fin
  /\ delays = "none"

(* What the server sent last ends the connection.                           *)
Ends(n, k, q, j) ==
  \/ k.fin
  \/ n.parser = "until"
  \/ k.in # <<>> /\ k.in[Len(k.in)] \in Enders
  \/ k.in = <<>> /\ j < Len(q) /\ q[Len(q)] \in Enders

(* Between two cycles: to write, or until a timer lets it.                  *)
Idle(n, k, e, delays, q, j) ==
  /\ Due(n, k, q, j) = 0
  /\ n.written = 0
  /\ n.delayed /\ k.used => n.pending = 0
  /\ \/ "W" \in e.mask /\ delays = "none"
     \/ "W" \notin e.mask /\ n.delayed /\ delays = "one"

(* In a cycle: c->pending is what is due, and what is left to write is      *)
(* asked for.                                                               *)
Busy(n, k, e, delays, q, j) ==
  /\ ~n.delayed /\ delays = "none" /\ k.used
  /\ n.pending = Due(n, k, q, j)
  /\ n.pending \in 1 .. cfg.pipeline
  /\ n.written # 0 <=> "W" \in e.mask

Counting(n, k, e, delays, q, j) ==
  /\ n.parser = "start"
  /\ \A i \in 1 .. Len(k.in) : k.in[i] = "end"
  /\ \A i \in j + 1 .. Len(q) : q[i] = "end"
  /\ n.written \in 0 .. Length - 1
  /\ k.owed >= 0
  /\ Idle(n, k, e, delays, q, j) \/ Busy(n, k, e, delays, q, j)

Cycling(n, k, e, delays, q, j) ==
  /\ "R" \in e.mask /\ e.r = "readable" /\ e.w = "writeable"
  /\ k.closing => Ends(n, k, q, j)
  /\ ~k.closing => Counting(n, k, e, delays, q, j)

Usual(k) == ~k.early /\ ~k.haunted

Living(s, c) == s.conn[c].opened /\ ~s.conn[c].lost

(* Outside a callback, and after each token of a read.                      *)
Cycle(s, c) ==
  LET f == s.conn[c].fd
  IN  Living(s, c) /\ Usual(s.socket[f]) =>
        \/ Connecting(s.socket[f], s.events[f], Delays(s, c))
        \/ Cycling(s.conn[c], s.socket[f], s.events[f], Delays(s, c), <<>>, 0)

Taking(s, c, q, j) ==
  LET f == s.conn[c].fd
  IN  Living(s, c) /\ Usual(s.socket[f]) =>
        \/ /\ Connecting(s.socket[f], s.events[f], Delays(s, c))
           /\ s.conn[c].parser = "dead"
        \/ Cycling(s.conn[c], s.socket[f], s.events[f], Delays(s, c), q, j)

-------------------------------------------------------------------------------
(* How the counts move.                                                     *)
LEMMA OutstandingIs ==
  ASSUME cfg \in Configs, NEW w \in 0 .. Length - 1
  PROVE  /\ Outstanding(w) \in 0 .. cfg.pipeline
         /\ Outstanding(w) = 0 <=> w = 0
<1>1. PICK p \in Nat \ {0} : p = cfg.pipeline
  BY ConfigIs
<1>2. Length = 2 * p
  BY <1>1 DEF Length
<1>3. w \in 0 .. 2 * p - 1
  BY <1>2
<1>4. CASE w = 0
  BY <1>1, <1>4 DEF Outstanding
<1>5. CASE w # 0
  <2>1. (2 * p - w + 1) \div 2 \in 1 .. p
    BY <1>3, <1>5
  <2>2. QED
    BY <1>1, <1>2, <1>5, <2>1 DEF Outstanding
<1>6. QED
  BY <1>4, <1>5

(* A write that is not the last of a cycle, and one that is.                *)
LEMMA WriteMoves ==
  ASSUME cfg \in Configs, NEW w \in 0 .. Length - 1, NEW i \in 1 .. Length - w
  PROVE  LET sent == (w + i) \div 2 - w \div 2
             was  == IF w = 0 THEN cfg.pipeline ELSE Outstanding(w)
         IN  /\ sent \in Nat
             /\ w + i # Length => /\ w + i \in 1 .. Length - 1
                                  /\ sent + Outstanding(w + i) = was
             /\ w + i = Length => sent = was
<1>1. PICK p \in Nat \ {0} : p = cfg.pipeline
  BY ConfigIs
<1>2. Length = 2 * p
  BY <1>1 DEF Length
<1>3. w \in 0 .. 2 * p - 1 /\ i \in 1 .. 2 * p - w
  BY <1>2
<1>4. (w + i) \div 2 - w \div 2 \in Nat
  BY <1>3
<1>5. ASSUME w + i # 2 * p
      PROVE  /\ w + i \in 1 .. 2 * p - 1
             /\ w = 0 => (w + i) \div 2 - w \div 2 + (2 * p - (w + i) + 1) \div 2 = p
             /\ w # 0 => (w + i) \div 2 - w \div 2 + (2 * p - (w + i) + 1) \div 2
                           = (2 * p - w + 1) \div 2
  BY <1>3, <1>5
<1>6. ASSUME w + i = 2 * p
      PROVE  /\ w = 0 => (w + i) \div 2 - w \div 2 = p
             /\ w # 0 => (w + i) \div 2 - w \div 2 = (2 * p - w + 1) \div 2
  BY <1>3, <1>6
<1>7. CASE w + i # 2 * p
  <2>1. w + i \in 1 .. 2 * p - 1 /\ w + i # 0
    BY <1>5, <1>7
  <2>2. Outstanding(w + i) = (2 * p - (w + i) + 1) \div 2
    BY <1>2, <2>1 DEF Outstanding
  <2>3. w # 0 => Outstanding(w) = (2 * p - w + 1) \div 2
    BY <1>2 DEF Outstanding
  <2>4. QED
    BY <1>1, <1>2, <1>4, <1>5, <1>7, <2>1, <2>2, <2>3
<1>8. CASE w + i = 2 * p
  <2>1. w # 0 => Outstanding(w) = (2 * p - w + 1) \div 2
    BY <1>2 DEF Outstanding
  <2>2. QED
    BY <1>1, <1>2, <1>4, <1>6, <1>8, <2>1
<1>9. QED
  BY <1>7, <1>8

LEMMA PendingFalls ==
  ASSUME NEW p \in 1 .. PendingMod - 1
  PROVE  (p + PendingMod - 1) % PendingMod = p - 1
<1>1. PendingMod \in Nat
  BY WrkAssumption
<1>2. QED
  BY <1>1

LEMMA SumOfFour ==
  ASSUME NEW a \in Nat, NEW b \in Nat, NEW d \in Nat, NEW o \in Nat
  PROVE  /\ a + b + d + o \in Nat
         /\ a + b + d + o >= a /\ a + b + d + o >= b /\ a + b + d + o >= d
         /\ a + b + d + o = 0 <=> a = 0 /\ b = 0 /\ d = 0 /\ o = 0
OBVIOUS

LEMMA DueIs ==
  ASSUME cfg \in Configs, NEW n \in ConnOf, n.written \in 0 .. Length - 1,
         NEW k \in SocketOf, k.owed >= 0,
         NEW q \in Seq(Token), NEW j \in 0 .. Len(q)
  PROVE  /\ Due(n, k, q, j) \in Nat /\ k.owed \in Nat /\ Len(k.in) \in Nat
         /\ Due(n, k, q, j) >= Len(q) - j
         /\ Due(n, k, q, j) >= Len(k.in)
         /\ Due(n, k, q, j) >= k.owed
         /\ Due(n, k, q, j) = 0 <=> /\ k.owed = 0 /\ Len(k.in) = 0 /\ j = Len(q)
                                    /\ n.written = 0
<1>1. k.owed \in Nat
  BY DEF SocketOf
<1>2. Len(k.in) \in Nat
  BY DEF SocketOf
<1>3. Len(q) - j \in Nat /\ (Len(q) - j = 0 <=> j = Len(q))
  OBVIOUS
<1>4. /\ Outstanding(n.written) \in Nat
      /\ Outstanding(n.written) = 0 <=> n.written = 0
  <2>1. cfg.pipeline \in Nat
    BY ConfigIs
  <2>2. QED
    BY <2>1, OutstandingIs
<1>5. PICK a \in Nat, b \in Nat, d \in Nat, o \in Nat :
        a = k.owed /\ b = Len(k.in) /\ d = Len(q) - j /\ o = Outstanding(n.written)
  BY <1>1, <1>2, <1>3, <1>4
<1>6. Due(n, k, q, j) = a + b + d + o
  BY <1>5 DEF Due
<1>7. /\ a + b + d + o \in Nat
      /\ a + b + d + o >= a /\ a + b + d + o >= b /\ a + b + d + o >= d
      /\ a + b + d + o = 0 <=> a = 0 /\ b = 0 /\ d = 0 /\ o = 0
  BY SumOfFour
<1>8. (d = 0 <=> j = Len(q)) /\ (o = 0 <=> n.written = 0)
  BY <1>3, <1>4, <1>5
<1>9. QED
  BY <1>1, <1>2, <1>5, <1>6, <1>7, <1>8

LEMMA OneTaken ==
  ASSUME NEW a \in Nat, NEW b \in Nat, NEW o \in Nat, NEW x \in Nat, NEW j \in Nat
  PROVE  a + b + (x - (j + 1)) + o = a + b + (x - j) + o - 1
OBVIOUS

(* An answer that keeps the connection: --c->pending, and the next cycle    *)
(* when it was the last.                                                    *)
LEMMA CountedCycles ==
  ASSUME cfg \in Configs, NEW n \in ConnOf, NEW m \in ConnOf, NEW k \in SocketOf,
         NEW e \in EventOf, NEW d \in EventOf, NEW delays,
         NEW q \in Seq(Token), NEW j \in 0 .. Len(q) - 1, q[j + 1] = "end",
         n.parser = "start", m.parser = "start",
         Cycling(n, k, e, delays, q, j),
         m.pending = (n.pending + PendingMod - 1) % PendingMod, m.written = n.written,
         m.pending # 0 => m.delayed = n.delayed /\ d = e,
         m.pending = 0 => /\ m.delayed = cfg.delay
                          /\ d.mask = e.mask \cup {"W"} /\ d.r = e.r /\ d.w = "writeable"
  PROVE  Cycling(m, k, d, delays, q, j + 1)
<1>1. /\ "R" \in d.mask /\ d.r = "readable" /\ d.w = "writeable"
  BY DEF Cycling
<1>2. ASSUME k.closing PROVE Ends(m, k, q, j + 1)
  <2>1. Ends(n, k, q, j)
    BY <1>2 DEF Cycling
  <2>2. ASSUME k.in = <<>>, j < Len(q), q[Len(q)] \in Enders PROVE j + 1 < Len(q)
    <3>1. j + 1 # Len(q)
      BY <2>2 DEF Enders
    <3>2. QED
      BY <3>1
  <2>3. QED
    BY <2>1, <2>2 DEF Ends
<1>3. ASSUME ~k.closing PROVE Counting(m, k, d, delays, q, j + 1)
  <2>1. Counting(n, k, e, delays, q, j)
    BY <1>3 DEF Cycling
  <2>2. /\ n.written \in 0 .. Length - 1 /\ k.owed >= 0
        /\ \A i \in 1 .. Len(k.in) : k.in[i] = "end"
        /\ \A i \in j + 1 .. Len(q) : q[i] = "end"
    BY <2>1 DEF Counting
  <2>3. Due(n, k, q, j) # 0
    BY <2>2, DueIs
  <2>4. Busy(n, k, e, delays, q, j)
    BY <2>1, <2>3 DEF Counting, Idle
  <2>5. /\ ~n.delayed /\ delays = "none" /\ k.used
        /\ n.pending = Due(n, k, q, j) /\ n.pending \in 1 .. cfg.pipeline
        /\ n.written # 0 <=> "W" \in e.mask
    BY <2>4 DEF Busy
  <2>6. cfg.pipeline \in Nat /\ cfg.pipeline < PendingMod /\ PendingMod \in Nat
    BY WrkAssumption
  <2>7. m.pending = n.pending - 1
    <3>1. n.pending \in 1 .. PendingMod - 1
      BY <2>5, <2>6
    <3>2. QED
      BY <3>1, PendingFalls
  <2>8. m.pending = Due(m, k, q, j + 1)
    <3>1. Due(n, k, q, j) \in Nat /\ k.owed \in Nat /\ Len(k.in) \in Nat
      BY <2>2, DueIs
    <3>2. Outstanding(n.written) \in Nat
      BY <2>2, <2>6, OutstandingIs
    <3>3. Outstanding(m.written) = Outstanding(n.written)
      OBVIOUS
    <3>4. PICK a \in Nat, b \in Nat, o \in Nat, x \in Nat :
              a = k.owed /\ b = Len(k.in) /\ o = Outstanding(n.written) /\ x = Len(q)
      BY <3>1, <3>2
    <3>5. Due(n, k, q, j) = a + b + (x - j) + o
      BY <3>4 DEF Due
    <3>6. Due(m, k, q, j + 1) = a + b + (x - (j + 1)) + o
      BY <3>3, <3>4 DEF Due
    <3>7. j \in Nat
      OBVIOUS
    <3>8. a + b + (x - (j + 1)) + o = a + b + (x - j) + o - 1
      BY <3>7, OneTaken
    <3>9. QED
      BY <2>5, <2>7, <3>5, <3>6, <3>8
  <2>9. \A i \in j + 1 + 1 .. Len(q) : q[i] = "end"
    BY <2>2
  <2>10. CASE m.pending # 0
    <3>1. m.pending \in 1 .. cfg.pipeline
      BY <2>5, <2>6, <2>7, <2>10
    <3>2. Busy(m, k, d, delays, q, j + 1)
      BY <2>5, <2>8, <2>10, <3>1 DEF Busy
    <3>3. QED
      BY <2>2, <2>9, <3>2 DEF Counting
  <2>11. CASE m.pending = 0
    <3>1. m.written = 0
      <4>1. j + 1 \in 0 .. Len(q)
        OBVIOUS
      <4>2. QED
        BY <2>2, <2>8, <2>11, <4>1, DueIs
    <3>2. Idle(m, k, d, delays, q, j + 1)
      BY <2>5, <2>8, <2>11, <3>1 DEF Idle
    <3>3. QED
      BY <2>2, <2>9, <3>2 DEF Counting
  <2>12. QED
    BY <2>10, <2>11
<1>4. QED
  BY <1>1, <1>2, <1>3 DEF Cycling

(* A read takes the first i tokens.                                         *)
LEMMA TakenCycles ==
  ASSUME cfg \in Configs, NEW n \in ConnOf, NEW k \in SocketOf, NEW l \in SocketOf,
         NEW e \in EventOf, NEW delays,
         Cycling(n, k, e, delays, <<>>, 0), NEW i \in 1 .. Len(k.in),
         l.in = SubSeq(k.in, i + 1, Len(k.in)),
         l.owed = k.owed, l.fin = k.fin, l.closing = k.closing, l.used = k.used
  PROVE  Cycling(n, l, e, delays, SubSeq(k.in, 1, i), 0)
<1>1. PICK z \in Seq(Token) : z = k.in
  BY DEF SocketOf
<1>2. PICK q : q = SubSeq(k.in, 1, i)
  OBVIOUS
<1>3. Len(z) \in Nat /\ i \in 1 .. Len(z) /\ \A a \in 1 .. Len(z) : z[a] \in Token
  BY <1>1
<1>4. /\ q \in Seq(Token) /\ Len(q) = i
      /\ \A a \in 1 .. i : q[a] = z[a]
  <2>1. /\ q \in Seq(Token) /\ Len(q) = IF 1 <= i THEN i - 1 + 1 ELSE 0
        /\ \A a \in 1 .. i - 1 + 1 : q[a] = z[1 + a - 1]
    <3>1. \A a \in 1 .. i : z[a] \in Token
      BY <1>3
    <3>2. QED
      BY <1>1, <1>2, <1>3, <3>1, SubSeqProperties
  <2>2. QED
    BY <1>3, <2>1
<1>10. PICK y \in Seq(Token) : y = l.in
  BY DEF SocketOf
<1>5. /\ Len(y) = Len(z) - i
      /\ \A a \in 1 .. Len(z) - i : y[a] = z[i + a]
  <2>3. y = SubSeq(z, i + 1, Len(z))
    BY <1>1, <1>10
  <2>1. /\ Len(y) = IF i + 1 <= Len(z) THEN Len(z) - (i + 1) + 1 ELSE 0
        /\ \A a \in 1 .. Len(z) - (i + 1) + 1 : y[a] = z[i + 1 + a - 1]
    <3>1. \A a \in i + 1 .. Len(z) : z[a] \in Token
      BY <1>3
    <3>2. i + 1 \in Int /\ Len(z) \in Int
      BY <1>3
    <3>3. QED
      BY <2>3, <3>1, <3>2, SubSeqProperties
  <2>2. Len(y) = Len(z) - i
    BY <1>3, <2>1
  <2>4. ASSUME NEW a \in 1 .. Len(z) - i PROVE y[a] = z[i + a]
    <3>1. a \in 1 .. Len(z) - (i + 1) + 1 /\ i + 1 + a - 1 = i + a
      BY <1>3
    <3>2. QED
      BY <2>1, <3>1
  <2>5. QED
    BY <2>2, <2>4
<1>6. Len(y) \in Nat /\ (y = <<>> <=> Len(y) = 0) /\ z # <<>>
  <2>1. Len(y) \in Nat /\ (y # <<>> => Len(y) # 0)
    BY <1>10, EmptySeq
  <2>2. z # <<>>
    BY <1>3, EmptySeq
  <2>3. QED
    BY <2>1, <2>2
<1>7. ASSUME l.closing PROVE Ends(n, l, q, 0)
  <2>1. k.fin \/ n.parser = "until" \/ z[Len(z)] \in Enders
    <3>1. Ends(n, k, <<>>, 0)
      BY <1>7 DEF Cycling
    <3>2. QED
      BY <1>1, <3>1 DEF Ends
  <2>2. CASE Len(y) = 0
    <3>1. Len(z) = i
      BY <1>3, <1>5, <2>2
    <3>2. q[Len(q)] = z[Len(z)] /\ 0 < Len(q)
      BY <1>3, <1>4, <3>1
    <3>3. QED
      BY <1>6, <1>10, <2>1, <2>2, <3>2 DEF Ends
  <2>3. CASE Len(y) # 0
    <3>1. y[Len(y)] = z[Len(z)]
      BY <1>3, <1>5, <2>3
    <3>2. QED
      BY <1>6, <1>10, <2>1, <2>3, <3>1 DEF Ends
  <2>4. QED
    BY <2>2, <2>3
<1>8. ASSUME ~l.closing PROVE Counting(n, l, e, delays, q, 0)
  <2>1. Counting(n, k, e, delays, <<>>, 0)
    BY <1>8 DEF Cycling
  <2>2. \A a \in 1 .. Len(z) : z[a] = "end"
    BY <1>1, <2>1 DEF Counting
  <2>3. \A a \in 1 .. Len(y) : y[a] = "end"
    BY <1>3, <1>5, <2>2
  <2>4. \A a \in 0 + 1 .. Len(q) : q[a] = "end"
    BY <1>3, <1>4, <2>2
  <2>5. Due(n, l, q, 0) = Due(n, k, <<>>, 0)
    <3>1. Len(y) + (Len(q) - 0) = Len(z) + (Len(<<>>) - 0)
      BY <1>3, <1>4, <1>5
    <3>2. k.owed \in Int /\ Outstanding(n.written) \in Int
      <4>1. n.written \in 0 .. Length - 1 /\ cfg.pipeline \in Nat
        BY <2>1, ConfigIs DEF Counting
      <4>2. QED
        BY <4>1, OutstandingIs DEF SocketOf
    <3>3. Len(y) \in Int /\ Len(q) \in Int /\ Len(z) \in Int
      BY <1>3, <1>4, <1>6
    <3>4. QED
      BY <1>1, <1>10, <3>1, <3>2, <3>3 DEF Due
  <2>6. QED
    BY <1>10, <2>1, <2>3, <2>4, <2>5 DEF Counting, Idle, Busy
<1>9. QED
  BY <1>2, <1>7, <1>8 DEF Cycling

(* The first write of a cycle sets c->pending, written or not.              *)
LEMMA BegunCycles ==
  ASSUME cfg \in Configs, NEW n \in ConnOf, NEW m \in ConnOf, NEW k \in SocketOf,
         NEW e \in EventOf, NEW delays,
         Cycling(n, k, e, delays, <<>>, 0), ~n.delayed, "W" \in e.mask,
         m.pending = IF n.written # 0 THEN n.pending ELSE cfg.pipeline,
         m.delayed = n.delayed, m.written = n.written, m.parser = n.parser
  PROVE  Cycling(m, k, e, delays, <<>>, 0)
<1>1. ASSUME k.closing PROVE Ends(m, k, <<>>, 0)
  BY <1>1 DEF Cycling, Ends
<1>2. ASSUME ~k.closing PROVE Counting(m, k, e, delays, <<>>, 0)
  <2>1. Counting(n, k, e, delays, <<>>, 0)
    BY <1>2 DEF Cycling
  <2>2. Due(m, k, <<>>, 0) = Due(n, k, <<>>, 0)
    BY DEF Due
  <2>3. CASE Idle(n, k, e, delays, <<>>, 0)
    <3>1. Idle(m, k, e, delays, <<>>, 0)
      BY <2>2, <2>3 DEF Idle
    <3>2. QED
      BY <2>1, <3>1 DEF Counting
  <2>4. CASE Busy(n, k, e, delays, <<>>, 0)
    <3>1. Busy(m, k, e, delays, <<>>, 0)
      BY <2>2, <2>4 DEF Busy
    <3>2. QED
      BY <2>1, <3>1 DEF Counting
  <2>5. QED
    BY <2>1, <2>3, <2>4 DEF Counting
<1>3. QED
  BY <1>1, <1>2 DEF Cycling

(* A write of i units.                                                      *)
LEMMA WrittenCycles ==
  ASSUME cfg \in Configs, NEW n \in ConnOf, NEW m \in ConnOf, NEW k \in SocketOf,
         NEW l \in SocketOf, NEW e \in EventOf, NEW d \in EventOf, NEW delays,
         Cycling(n, k, e, delays, <<>>, 0), ~n.delayed, "W" \in e.mask,
         NEW i \in 1 .. Length - n.written,
         m.pending = IF n.written # 0 THEN n.pending ELSE cfg.pipeline,
         m.delayed = n.delayed, m.parser = n.parser,
         m.written = IF n.written + i = Length THEN 0 ELSE n.written + i,
         l.owed = k.owed + ((n.written + i) \div 2 - n.written \div 2), l.used,
         l.in = k.in, l.fin = k.fin, l.closing = k.closing,
         d.mask = IF n.written + i = Length THEN e.mask \ {"W"} ELSE e.mask,
         d.r = e.r, d.w = e.w
  PROVE  Cycling(m, l, d, delays, <<>>, 0)
<1>1. "R" \in d.mask /\ d.r = "readable" /\ d.w = "writeable"
  BY DEF Cycling
<1>2. ASSUME l.closing PROVE Ends(m, l, <<>>, 0)
  BY <1>2 DEF Cycling, Ends
<1>3. ASSUME ~l.closing PROVE Counting(m, l, d, delays, <<>>, 0)
  <2>1. Counting(n, k, e, delays, <<>>, 0)
    BY <1>3 DEF Cycling
  <2>2. n.written \in 0 .. Length - 1 /\ k.owed >= 0
    BY <2>1 DEF Counting
  <2>3. PICK w \in 0 .. Length - 1 : w = n.written
    BY <2>2
  <2>4. PICK sent \in Nat : sent = (w + i) \div 2 - w \div 2
    BY <2>3, WriteMoves
  <2>5. PICK p \in Nat \ {0} : p = cfg.pipeline /\ Length = 2 * p
    BY ConfigIs DEF Length
  <2>6. k.owed \in Nat /\ Len(k.in) \in Nat
    BY <2>2 DEF SocketOf
  <2>7. Outstanding(w) \in Nat /\ Outstanding(m.written) \in Nat
    <3>1. w \in 0 .. 2 * p - 1 /\ i \in 1 .. 2 * p - w
      BY <2>3, <2>5
    <3>2. m.written = IF w + i = 2 * p THEN 0 ELSE w + i
      BY <2>3, <2>5
    <3>3. m.written \in 0 .. 2 * p - 1
      BY <3>1, <3>2
    <3>4. w \in 0 .. Length - 1 /\ m.written \in 0 .. Length - 1
      BY <2>5, <3>1, <3>3
    <3>5. QED
      BY <2>5, <3>4, OutstandingIs
  <2>8. sent + Outstanding(m.written) = IF w = 0 THEN p ELSE Outstanding(w)
    <3>1. CASE w + i = Length
      <4>1. Outstanding(m.written) = 0
        BY <2>3, <3>1 DEF Outstanding
      <4>2. sent = IF w = 0 THEN p ELSE Outstanding(w)
        BY <2>3, <2>4, <2>5, <3>1, WriteMoves
      <4>3. QED
        BY <2>4, <4>1, <4>2
    <3>2. CASE w + i # Length
      <4>1. m.written = w + i
        BY <2>3, <3>2
      <4>2. i \in 1 .. Length - w
        BY <2>3
      <4>3. (w + i) \div 2 - w \div 2 + Outstanding(w + i)
              = IF w = 0 THEN cfg.pipeline ELSE Outstanding(w)
        BY <3>2, <4>2, WriteMoves
      <4>4. QED
        BY <2>4, <2>5, <4>1, <4>3
    <3>3. QED
      BY <3>1, <3>2
  <2>9. Due(m, l, <<>>, 0) = k.owed + Len(k.in) + (IF w = 0 THEN p ELSE Outstanding(w))
    <3>1. Len(<<>>) = 0
      BY EmptySeq
    <3>2. l.owed = k.owed + sent /\ Len(l.in) = Len(k.in)
      BY <2>3, <2>4
    <3>3. QED
      BY <2>4, <2>6, <2>7, <2>8, <3>1, <3>2 DEF Due
  <2>10. Due(n, k, <<>>, 0) = k.owed + Len(k.in) + Outstanding(w)
    <3>1. Len(<<>>) = 0
      BY EmptySeq
    <3>2. QED
      BY <2>3, <2>6, <2>7, <3>1 DEF Due
  <2>11. delays = "none" /\ m.pending = Due(m, l, <<>>, 0) /\ m.pending \in 1 .. p
    <3>1. CASE w = 0
      <4>1. Idle(n, k, e, delays, <<>>, 0)
        BY <2>1, <2>3, <3>1 DEF Counting, Busy
      <4>2. k.owed = 0 /\ Len(k.in) = 0 /\ delays = "none"
        <5>1. Outstanding(w) = 0
          BY <3>1 DEF Outstanding
        <5>2. Due(n, k, <<>>, 0) = 0
          BY <4>1 DEF Idle
        <5>3. delays = "none"
          BY <4>1 DEF Idle
        <5>4. PICK a \in Nat : a = k.owed
          BY <2>6
        <5>5. PICK b \in Nat : b = Len(k.in)
          BY <2>6
        <5>6. a + b + 0 = 0
          BY <2>10, <5>1, <5>2, <5>4, <5>5
        <5>7. a = 0 /\ b = 0
          BY <5>6
        <5>8. QED
          BY <5>3, <5>4, <5>5, <5>7
      <4>3. QED
        BY <2>3, <2>5, <2>9, <3>1, <4>2
    <3>2. CASE w # 0
      <4>1. Busy(n, k, e, delays, <<>>, 0)
        BY <2>1, <2>3, <3>2 DEF Counting, Idle
      <4>2. delays = "none" /\ n.pending = Due(n, k, <<>>, 0) /\ n.pending \in 1 .. p
        BY <2>5, <4>1 DEF Busy
      <4>3. QED
        BY <2>3, <2>9, <2>10, <3>2, <4>2
    <3>3. QED
      BY <3>1, <3>2
  <2>12. m.written # 0 <=> "W" \in d.mask
    BY <2>3
  <2>13. Busy(m, l, d, delays, <<>>, 0)
    BY <2>5, <2>11, <2>12 DEF Busy
  <2>14. m.parser = "start" /\ \A a \in 1 .. Len(l.in) : l.in[a] = "end"
    BY <2>1 DEF Counting
  <2>15. \A a \in 0 + 1 .. Len(<<>>) : <<>>[a] = "end"
    BY <2>1 DEF Counting
  <2>16. m.written \in 0 .. Length - 1 /\ l.owed >= 0
    <3>1. w \in 0 .. 2 * p - 1 /\ i \in 1 .. 2 * p - w
      BY <2>3, <2>5
    <3>2. m.written = IF w + i = 2 * p THEN 0 ELSE w + i
      BY <2>3, <2>5
    <3>3. m.written \in 0 .. 2 * p - 1
      BY <3>1, <3>2
    <3>4. l.owed = k.owed + sent
      BY <2>3, <2>4
    <3>5. PICK a \in Nat : a = k.owed
      BY <2>6
    <3>6. a + sent >= 0
      BY <2>4
    <3>7. QED
      BY <2>5, <3>3, <3>4, <3>5, <3>6
  <2>17. QED
    BY <2>13, <2>14, <2>15, <2>16 DEF Counting
<1>4. QED
  BY <1>1, <1>2, <1>3 DEF Cycling

(* The delay begins, with a timer in place of the event.                    *)
LEMMA DelayCycles ==
  ASSUME NEW n \in ConnOf, NEW k \in SocketOf, NEW e \in EventOf, NEW d \in EventOf,
         NEW delays, NEW now,
         Cycling(n, k, e, delays, <<>>, 0), n.delayed, "W" \in e.mask,
         d.mask = e.mask \ {"W"}, d.r = e.r, d.w = e.w,
         delays = "none" => now = "one"
  PROVE  Cycling(n, k, d, now, <<>>, 0)
<1>1. ASSUME ~k.closing PROVE Counting(n, k, d, now, <<>>, 0)
  <2>1. Counting(n, k, e, delays, <<>>, 0)
    BY <1>1 DEF Cycling
  <2>2. Idle(n, k, e, delays, <<>>, 0)
    BY <2>1 DEF Counting, Busy
  <2>3. Idle(n, k, d, now, <<>>, 0)
    BY <2>2 DEF Idle
  <2>4. QED
    BY <2>1, <2>3 DEF Counting
<1>2. QED
  BY <1>1 DEF Cycling

(* The delay ends.                                                          *)
LEMMA DelayedCycles ==
  ASSUME NEW n \in ConnOf, NEW m \in ConnOf, NEW k \in SocketOf, NEW e \in EventOf,
         NEW d \in EventOf, NEW delays, NEW now,
         Cycling(n, k, e, delays, <<>>, 0), delays # "none", delays = "one" => now = "none",
         d.mask = e.mask \cup {"W"}, d.r = e.r, d.w = "writeable",
         ~m.delayed, m.parser = n.parser, m.written = n.written
  PROVE  Cycling(m, k, d, now, <<>>, 0)
<1>1. ASSUME ~k.closing PROVE Counting(m, k, d, now, <<>>, 0)
  <2>1. Counting(n, k, e, delays, <<>>, 0)
    BY <1>1 DEF Cycling
  <2>2. Idle(n, k, e, delays, <<>>, 0)
    BY <2>1 DEF Counting, Busy
  <2>3. Due(m, k, <<>>, 0) = Due(n, k, <<>>, 0)
    BY DEF Due
  <2>4. Idle(m, k, d, now, <<>>, 0)
    BY <2>2, <2>3 DEF Idle
  <2>5. QED
    BY <2>1, <2>4 DEF Counting
<1>2. ASSUME k.closing PROVE Ends(m, k, <<>>, 0)
  BY <1>2 DEF Cycling, Ends
<1>3. QED
  BY <1>1, <1>2 DEF Cycling

(* A connection is made.                                                    *)
LEMMA ConnectedCycles ==
  ASSUME cfg \in Configs, NEW m \in ConnOf, NEW k \in SocketOf, NEW e \in EventOf,
         NEW d \in EventOf, NEW delays,
         Connecting(k, e, delays), m.parser = "start", m.written = 0,
         d.mask = Mask, d.r = "readable", d.w = "writeable"
  PROVE  Cycling(m, k, d, delays, <<>>, 0)
<1>1. k.owed = 0 /\ Len(k.in) = 0 /\ ~k.used /\ delays = "none" /\ (k.closing => k.fin)
  BY EmptySeq DEF Connecting
<1>2. Len(<<>>) = 0
  BY EmptySeq
<1>3. Due(m, k, <<>>, 0) = 0
  BY <1>1, <1>2 DEF Due, Outstanding
<1>4. Idle(m, k, d, delays, <<>>, 0)
  BY <1>1, <1>3 DEF Idle, Mask
<1>5. 0 \in 0 .. Length - 1
  <2>1. PICK p \in Nat \ {0} : p = cfg.pipeline
    BY ConfigIs
  <2>2. QED
    BY <2>1 DEF Length
<1>6. Counting(m, k, d, delays, <<>>, 0)
  BY <1>1, <1>2, <1>4, <1>5 DEF Counting
<1>7. QED
  BY <1>1, <1>6 DEF Cycling, Ends, Mask

(* What the server does to a socket.                                        *)
LEMMA SameCycles ==
  ASSUME NEW n, NEW k, NEW l, NEW e, NEW delays, NEW q, NEW j,
         l.in = k.in, l.owed = k.owed, l.fin = k.fin, l.closing = k.closing, l.used = k.used
  PROVE  /\ Connecting(k, e, delays) => Connecting(l, e, delays)
         /\ Cycling(n, k, e, delays, q, j) => Cycling(n, l, e, delays, q, j)
<1>1. Due(n, l, q, j) = Due(n, k, q, j) /\ (Ends(n, k, q, j) => Ends(n, l, q, j))
  BY DEF Due, Ends
<1>2. Counting(n, k, e, delays, q, j) => Counting(n, l, e, delays, q, j)
  BY <1>1 DEF Counting, Idle, Busy
<1>3. QED
  BY <1>1, <1>2 DEF Connecting, Cycling

LEMMA AnswersCycles ==
  ASSUME cfg \in Configs, NEW n \in ConnOf, NEW k \in SocketOf, NEW l \in SocketOf,
         NEW e, NEW delays,
         Cycling(n, k, e, delays, <<>>, 0), ~k.closing, k.owed > 0,
         l.in = Append(k.in, "end"), l.owed = k.owed - 1,
         l.fin = k.fin, l.closing = k.closing, l.used = k.used
  PROVE  Cycling(n, l, e, delays, <<>>, 0)
<1>1. Counting(n, k, e, delays, <<>>, 0)
  BY DEF Cycling
<1>2. PICK y \in Seq(Token) : y = k.in
  BY DEF SocketOf
<1>3. PICK z \in Seq(Token) : z = l.in
  BY DEF SocketOf
<1>4. /\ Len(z) = Len(y) + 1 /\ Len(y) \in Nat
      /\ \A a \in 1 .. Len(y) : z[a] = y[a]
      /\ z[Len(y) + 1] = "end"
  <2>1. z = Append(y, "end")
    BY <1>2, <1>3
  <2>2. QED
    BY <1>2, <2>1, AppendProperties
<1>5. \A a \in 1 .. Len(z) : z[a] = "end"
  <2>1. \A a \in 1 .. Len(y) : y[a] = "end"
    BY <1>1, <1>2 DEF Counting
  <2>2. QED
    BY <1>4, <2>1
<1>6. n.written \in 0 .. Length - 1 /\ cfg.pipeline \in Nat
  BY <1>1, ConfigIs DEF Counting
<1>7. Outstanding(n.written) \in Nat
  BY <1>6, OutstandingIs
<1>8. k.owed \in Nat /\ k.owed - 1 \in Nat
  BY DEF SocketOf
<1>9. Due(n, l, <<>>, 0) = Due(n, k, <<>>, 0)
  <2>1. Len(<<>>) = 0
    BY EmptySeq
  <2>2. PICK a \in Nat : a = k.owed
    BY <1>8
  <2>3. l.owed + Len(z) + (Len(<<>>) - 0) + Outstanding(n.written)
          = k.owed + Len(y) + (Len(<<>>) - 0) + Outstanding(n.written)
    <3>1. l.owed = a - 1
      BY <2>2
    <3>2. a - 1 + (Len(y) + 1) = a + Len(y)
      BY <1>4
    <3>3. QED
      BY <1>4, <2>1, <2>2, <3>1, <3>2
  <2>4. QED
    BY <1>2, <1>3, <2>3 DEF Due
<1>10. Counting(n, l, e, delays, <<>>, 0)
  <2>1. Idle(n, k, e, delays, <<>>, 0) => Idle(n, l, e, delays, <<>>, 0)
    BY <1>9 DEF Idle
  <2>2. Busy(n, k, e, delays, <<>>, 0) => Busy(n, l, e, delays, <<>>, 0)
    BY <1>9 DEF Busy
  <2>3. l.owed >= 0
    BY <1>8
  <2>4. QED
    BY <1>1, <1>3, <1>5, <2>1, <2>2, <2>3 DEF Counting
<1>11. QED
  BY <1>10 DEF Cycling

LEMMA AnswersLastCycles ==
  ASSUME NEW n, NEW k \in SocketOf, NEW l \in SocketOf, NEW e, NEW delays, NEW token \in Enders,
         Cycling(n, k, e, delays, <<>>, 0), l.in = Append(k.in, token), l.closing
  PROVE  Cycling(n, l, e, delays, <<>>, 0)
<1>1. PICK y \in Seq(Token) : y = k.in
  BY DEF SocketOf
<1>2. token \in Token
  BY DEF Enders, Token
<1>3. PICK z : z = Append(y, token)
  OBVIOUS
<1>4. /\ z \in Seq(Token) /\ Len(z) = Len(y) + 1 /\ Len(y) \in Nat
      /\ z[Len(y) + 1] = token
  BY <1>1, <1>2, <1>3, AppendProperties
<1>5. z # <<>> /\ z[Len(z)] \in Enders
  BY <1>4, EmptySeq
<1>6. QED
  BY <1>1, <1>3, <1>5 DEF Cycling, Ends

LEMMA FinishesCycles ==
  ASSUME NEW n, NEW k, NEW l, NEW e, NEW delays,
         l.in = k.in, l.owed = k.owed, l.used = k.used, l.fin, l.closing
  PROVE  /\ Connecting(k, e, delays) => Connecting(l, e, delays)
         /\ Cycling(n, k, e, delays, <<>>, 0) => Cycling(n, l, e, delays, <<>>, 0)
  BY DEF Connecting, Cycling, Ends

-------------------------------------------------------------------------------
(* A callback of c leaves the other connections as they are.                *)
Apart(s, t, c) ==
  \A d \in Conn \ {c} :
    /\ t.conn[d] = s.conn[d]
    /\ Delays(t, d) = Delays(s, d)
    /\ Living(s, d) => /\ t.socket[s.conn[d].fd] = s.socket[s.conn[d].fd]
                       /\ t.events[s.conn[d].fd] = s.events[s.conn[d].fd]

LEMMA ApartAgain ==
  ASSUME NEW s, NEW t, NEW u, NEW c, Apart(s, t, c), Apart(t, u, c)
  PROVE  Apart(s, u, c)
<1>1. SUFFICES ASSUME NEW d \in Conn \ {c}
               PROVE  /\ u.conn[d] = s.conn[d]
                      /\ Delays(u, d) = Delays(s, d)
                      /\ Living(s, d) => /\ u.socket[s.conn[d].fd] = s.socket[s.conn[d].fd]
                                         /\ u.events[s.conn[d].fd] = s.events[s.conn[d].fd]
  BY DEF Apart
<1>2. /\ t.conn[d] = s.conn[d] /\ u.conn[d] = t.conn[d]
      /\ Delays(t, d) = Delays(s, d) /\ Delays(u, d) = Delays(t, d)
  BY DEF Apart
<1>3. Living(s, d) => Living(t, d)
  BY <1>2 DEF Living
<1>4. QED
  BY <1>2, <1>3 DEF Apart

LEMMA ApartCycles ==
  ASSUME NEW s, NEW t, NEW c, Apart(s, t, c), NEW d \in Conn \ {c}, Cycle(s, d)
  PROVE  Cycle(t, d)
<1>1. /\ t.conn[d] = s.conn[d]
      /\ Delays(t, d) = Delays(s, d)
      /\ Living(s, d) => /\ t.socket[s.conn[d].fd] = s.socket[s.conn[d].fd]
                         /\ t.events[s.conn[d].fd] = s.events[s.conn[d].fd]
  BY DEF Apart
<1>2. SUFFICES ASSUME Living(t, d), Usual(t.socket[t.conn[d].fd])
               PROVE  \/ Connecting(t.socket[t.conn[d].fd], t.events[t.conn[d].fd], Delays(t, d))
                      \/ Cycling(t.conn[d], t.socket[t.conn[d].fd], t.events[t.conn[d].fd],
                                 Delays(t, d), <<>>, 0)
  BY DEF Cycle
<1>3. Living(s, d)
  BY <1>1, <1>2 DEF Living
<1>4. Usual(s.socket[s.conn[d].fd])
  BY <1>1, <1>2, <1>3
<1>5. QED
  BY <1>1, <1>3, <1>4 DEF Cycle

(* A descriptor no other connection lives on.                               *)
Near(s, f, c) == \A d \in Conn \ {c} : Living(s, d) => s.conn[d].fd # f

LEMMA FreeIsNear ==
  ASSUME NEW s, NEW c, \A d \in Conn \ {c} : HasSocket(s, d), NEW f, ~Open(s, f)
  PROVE  Near(s, f, c)
  BY DEF Near, HasSocket, Living

LEMMA HeldIsNear ==
  ASSUME NEW s, NEW c, Held(s, c)
  PROVE  Near(s, s.conn[c].fd, c)
<1>1. SUFFICES ASSUME NEW d \in Conn \ {c}, Living(s, d), s.conn[d].fd = s.conn[c].fd
               PROVE  FALSE
  BY DEF Near
<1>2. Open(s, s.conn[d].fd) /\ s.socket[s.conn[d].fd].owner = d
  BY <1>1 DEF Held, Wired, HasSocket, Living
<1>3. QED
  BY <1>1, <1>2 DEF Held

(* A call that changes only the connection, its events and its socket.      *)
Local(s, t, c) ==
  /\ t \in Members /\ Kept(s, t, c)
  /\ t.timers = s.timers
  /\ \A d \in Conn \ {c} : t.conn[d] = s.conn[d]
  /\ t.conn[c].fd = s.conn[c].fd
  /\ t.conn[c].opened = s.conn[c].opened
  /\ t.conn[c].lost = s.conn[c].lost
  /\ \A f \in Fd \ {s.conn[c].fd} : t.socket[f] = s.socket[f] /\ t.events[f] = s.events[f]
  /\ \A f \in Fd : t.socket[f].owner = s.socket[f].owner

LEMMA LocalAgain ==
  ASSUME NEW s, NEW t, NEW u, NEW c, Local(s, t, c), Local(t, u, c)
  PROVE  Local(s, u, c)
<1>1. Kept(s, u, c)
  BY KeptAgain DEF Local
<1>2. QED
  BY <1>1 DEF Local

LEMMA LocalSame ==
  ASSUME NEW s \in Members, NEW c
  PROVE  Local(s, s, c)
  BY KeptSame DEF Local

LEMMA SameDelays ==
  ASSUME NEW s, NEW t, t.timers = s.timers, NEW c
  PROVE  Delays(t, c) = Delays(s, c)
  BY DEF Delays, HasTimer

LEMMA LocalIsApart ==
  ASSUME NEW s \in Members, NEW t, NEW c \in Conn, Local(s, t, c), Held(s, c)
  PROVE  Apart(s, t, c)
<1>1. SUFFICES ASSUME NEW d \in Conn \ {c}
               PROVE  /\ t.conn[d] = s.conn[d]
                      /\ Delays(t, d) = Delays(s, d)
                      /\ Living(s, d) => /\ t.socket[s.conn[d].fd] = s.socket[s.conn[d].fd]
                                         /\ t.events[s.conn[d].fd] = s.events[s.conn[d].fd]
  BY DEF Apart
<1>2. t.conn[d] = s.conn[d] /\ t.timers = s.timers
  BY DEF Local
<1>3. Delays(t, d) = Delays(s, d)
  BY <1>2, SameDelays
<1>4. ASSUME Living(s, d)
      PROVE  /\ t.socket[s.conn[d].fd] = s.socket[s.conn[d].fd]
             /\ t.events[s.conn[d].fd] = s.events[s.conn[d].fd]
  <2>1. s.conn[d].fd # s.conn[c].fd
    BY <1>4, HeldIsNear DEF Near
  <2>2. s.conn[d].fd \in Fd
    BY <1>4 DEF Held, Wired, HasSocket, Living, Open
  <2>3. QED
    BY <2>1, <2>2 DEF Local
<1>5. QED
  BY <1>2, <1>3, <1>4

(* The calls of that kind, and what they do.                                *)
WithConn(s, c, k)   == [s EXCEPT !.conn[c] = k]
WithEvent(s, f, e)  == [s EXCEPT !.events[f] = e]
WithSocket(s, f, k) == [s EXCEPT !.socket[f] = k]
WithParser(s, c, p) == [s EXCEPT !.conn[c].parser = p]

SameSocket(k, n) == k.fd = n.fd /\ k.lost = n.lost /\ k.opened = n.opened

LEMMA ConnLocal ==
  ASSUME NEW s \in Members, NEW c \in Conn, NEW k \in ConnOf, SameSocket(k, s.conn[c]),
         NEW t, t = WithConn(s, c, k)
  PROVE  /\ Local(s, t, c) /\ t.conn[c] = k
         /\ t.events = s.events /\ t.socket = s.socket
<1>1. t \in Members /\ Kept(s, t, c)
  BY ConnBecomes, ConnSets DEF SameSocket, WithConn
<1>2. /\ t.events = s.events /\ t.socket = s.socket /\ t.timers = s.timers
      /\ \A d \in Conn : t.conn[d] = IF d = c THEN k ELSE s.conn[d]
  BY DEF Members, WithConn
<1>3. QED
  BY <1>1, <1>2 DEF Local, SameSocket

LEMMA EventLocal ==
  ASSUME NEW s \in Members, NEW c \in Conn, NEW f \in Fd, f = s.conn[c].fd,
         NEW e \in EventOf, NEW t, t = WithEvent(s, f, e), Kept(s, t, c)
  PROVE  /\ Local(s, t, c) /\ t.events[f] = e
         /\ t.conn = s.conn /\ t.socket = s.socket
<1>1. t.conn = s.conn /\ t.socket = s.socket /\ t.timers = s.timers
  BY DEF Members, WithEvent
<1>2. \A g \in Fd : t.events[g] = IF g = f THEN e ELSE s.events[g]
  BY DEF Members, WithEvent
<1>3. QED
  BY <1>1, <1>2 DEF Local, Kept

LEMMA SocketLocal ==
  ASSUME NEW s \in Members, NEW c \in Conn, NEW f \in Fd, f = s.conn[c].fd,
         NEW k \in SocketOf, k.owner = s.socket[f].owner, NEW t, t = WithSocket(s, f, k)
  PROVE  /\ Local(s, t, c) /\ t.socket[f] = k
         /\ t.conn = s.conn /\ t.events = s.events
<1>1. t.conn = s.conn /\ t.events = s.events /\ t.timers = s.timers
  BY DEF Members, WithSocket
<1>2. \A g \in Fd : t.socket[g] = IF g = f THEN k ELSE s.socket[g]
  BY DEF Members, WithSocket
<1>3. Kept(s, t, c)
  BY SocketSets DEF WithSocket
<1>4. QED
  BY <1>1, <1>2, <1>3 DEF Local, Kept

SetsParser(s, t, c, p) ==
  /\ Local(s, t, c) /\ t.events = s.events /\ t.socket = s.socket
  /\ t.conn[c].parser = p
  /\ t.conn[c].written = s.conn[c].written
  /\ t.conn[c].pending = s.conn[c].pending
  /\ t.conn[c].delayed = s.conn[c].delayed

LEMMA ParserLocal ==
  ASSUME NEW s \in Members, NEW c \in Conn, NEW p \in Parser,
         NEW t, t = WithParser(s, c, p)
  PROVE  SetsParser(s, t, c, p)
<1>1. PICK k : k = [s.conn[c] EXCEPT !.parser = p]
  OBVIOUS
<1>2. s.conn[c] \in ConnOf
  BY DEF Members
<1>3. k \in ConnOf /\ SameSocket(k, s.conn[c])
  BY <1>1, <1>2 DEF ConnOf, SameSocket
<1>4. t = WithConn(s, c, k)
  BY <1>1 DEF WithConn, WithParser
<1>5. Local(s, t, c) /\ t.conn[c] = k /\ t.events = s.events /\ t.socket = s.socket
  BY <1>3, <1>4, ConnLocal
<1>6. /\ k.parser = p
      /\ k.written = s.conn[c].written
      /\ k.pending = s.conn[c].pending
      /\ k.delayed = s.conn[c].delayed
  BY <1>1, <1>2 DEF ConnOf
<1>7. QED
  BY <1>5, <1>6 DEF SetsParser

LEMMA CreateLocal ==
  ASSUME NEW s \in Members, NEW c \in Conn, NEW mask \in SUBSET Mask, NEW proc,
         "R" \in mask => proc \in {"connected", "readable"},
         "W" \in mask => proc \in {"connected", "writeable"},
         NEW f, f = s.conn[c].fd, NEW t, t = aeCreateFileEvent(s, f, mask, proc, c)
  PROVE  /\ Local(s, t, c) /\ t.conn = s.conn /\ t.socket = s.socket
         /\ Open(s, f) => /\ t.events[f].mask = s.events[f].mask \cup mask
                          /\ t.events[f].r = IF "R" \in mask THEN proc ELSE s.events[f].r
                          /\ t.events[f].w = IF "W" \in mask THEN proc ELSE s.events[f].w
<1>1. Kept(s, t, c)
  BY CreateKept
<1>2. CASE ~Open(s, f)
  <2>1. t = s
    BY <1>2 DEF aeCreateFileEvent
  <2>2. QED
    BY <1>2, <2>1, LocalSame
<1>3. CASE Open(s, f)
  <2>1. PICK e : e = [mask |-> s.events[f].mask \cup mask,
                      r    |-> IF "R" \in mask THEN proc ELSE s.events[f].r,
                      w    |-> IF "W" \in mask THEN proc ELSE s.events[f].w,
                      data |-> c]
    OBVIOUS
  <2>2. f \in Fd /\ s.events[f] \in EventOf
    BY <1>3 DEF Members, Open
  <2>3. e \in EventOf
    BY <2>1, <2>2 DEF EventOf
  <2>4. t = WithEvent(s, f, e)
    BY <1>3, <2>1 DEF WithEvent, aeCreateFileEvent
  <2>5. Local(s, t, c) /\ t.events[f] = e /\ t.conn = s.conn /\ t.socket = s.socket
    BY <1>1, <2>2, <2>3, <2>4, EventLocal
  <2>6. QED
    BY <2>1, <2>5
<1>4. QED
  BY <1>2, <1>3

Writes(s, t, c, f) ==
  /\ Local(s, t, c) /\ t.conn = s.conn /\ t.socket = s.socket
  /\ Open(s, f) => /\ t.events[f].mask = s.events[f].mask \cup {"W"}
                   /\ t.events[f].r = s.events[f].r
                   /\ t.events[f].w = "writeable"

LEMMA WriteLocal ==
  ASSUME NEW s \in Members, NEW c \in Conn, NEW f, f = s.conn[c].fd,
         NEW t, t = aeCreateFileEvent(s, f, {"W"}, "writeable", c)
  PROVE  Writes(s, t, c, f)
<1>1. PICK mask \in SUBSET Mask : mask = {"W"}
  BY DEF Mask
<1>2. /\ "R" \notin mask /\ "W" \in mask
  BY <1>1
<1>3. t = aeCreateFileEvent(s, f, mask, "writeable", c)
  BY <1>1
<1>4. "writeable" \in {"connected", "writeable"}
  OBVIOUS
<1>5. /\ Local(s, t, c) /\ t.conn = s.conn /\ t.socket = s.socket
      /\ Open(s, f) => /\ t.events[f].mask = s.events[f].mask \cup mask
                       /\ t.events[f].r = IF "R" \in mask THEN "writeable" ELSE s.events[f].r
                       /\ t.events[f].w = IF "W" \in mask THEN "writeable" ELSE s.events[f].w
  BY <1>2, <1>3, <1>4, CreateLocal
<1>6. QED
  BY <1>1, <1>2, <1>5 DEF Writes

Deletes(s, t, c, f, mask) ==
  /\ Local(s, t, c) /\ t.conn = s.conn /\ t.socket = s.socket
  /\ f \in Fd => /\ t.events[f].mask = s.events[f].mask \ mask
                 /\ t.events[f].r = s.events[f].r /\ t.events[f].w = s.events[f].w

LEMMA DeleteLocal ==
  ASSUME NEW s \in Members, NEW c \in Conn, NEW f, f = s.conn[c].fd, NEW mask,
         NEW t, t = aeDeleteFileEvent(s, f, mask)
  PROVE  Deletes(s, t, c, f, mask)
<1>1. Kept(s, t, c)
  BY DeleteKept
<1>2. CASE f \notin Fd
  <2>1. t = s
    BY <1>2 DEF aeDeleteFileEvent
  <2>2. QED
    BY <1>2, <2>1, LocalSame DEF Deletes
<1>3. CASE f \in Fd
  <2>1. PICK e : e = [s.events[f] EXCEPT !.mask = @ \ mask]
    OBVIOUS
  <2>2. s.events[f] \in EventOf
    BY <1>3 DEF Members
  <2>3. e \in EventOf
    BY <2>1, <2>2 DEF EventOf
  <2>7. /\ e.mask = s.events[f].mask \ mask
        /\ e.r = s.events[f].r /\ e.w = s.events[f].w
    BY <2>1, <2>2 DEF EventOf
  <2>4. t = WithEvent(s, f, e)
    BY <1>3, <2>1 DEF WithEvent, aeDeleteFileEvent
  <2>5. Local(s, t, c) /\ t.events[f] = e /\ t.conn = s.conn /\ t.socket = s.socket
    BY <1>1, <1>3, <2>3, <2>4, EventLocal
  <2>6. QED
    BY <2>5, <2>7 DEF Deletes
<1>4. QED
  BY <1>2, <1>3

Counts(s, t, c, f) ==
  /\ Local(s, t, c) /\ t.socket = s.socket
  /\ t.conn[c].pending = (s.conn[c].pending + PendingMod - 1) % PendingMod
  /\ t.conn[c].written = s.conn[c].written /\ t.conn[c].parser = s.conn[c].parser
  /\ t.conn[c].pending # 0 => /\ t.conn[c].delayed = s.conn[c].delayed
                              /\ t.events = s.events
  /\ t.conn[c].pending = 0 /\ Open(s, f) =>
       /\ t.conn[c].delayed = cfg.delay
       /\ t.events[f].mask = s.events[f].mask \cup {"W"}
       /\ t.events[f].r = s.events[f].r /\ t.events[f].w = "writeable"

LEMMA CountedLocal ==
  ASSUME cfg \in Configs, NEW s \in Members, NEW c \in Conn, NEW f, f = s.conn[c].fd,
         NEW t, t = Counted(s, c)
  PROVE  Counts(s, t, c, f)
<1>1. s.conn[c] \in ConnOf
  BY DEF Members
<1>2. PICK p \in Int : p = (s.conn[c].pending + PendingMod - 1) % PendingMod
  BY <1>1, ConfigIs DEF ConnOf
<1>3. PICK k : k = [s.conn[c] EXCEPT !.pending = p]
  OBVIOUS
<1>4. k \in ConnOf /\ k.fd = f /\ k.lost = s.conn[c].lost /\ k.opened = s.conn[c].opened
      /\ k.pending = p /\ k.written = s.conn[c].written /\ k.parser = s.conn[c].parser
      /\ k.delayed = s.conn[c].delayed
  BY <1>1, <1>3 DEF ConnOf
<1>5. PICK u : u = WithConn(s, c, k)
  OBVIOUS
<1>6. Local(s, u, c) /\ u.conn[c] = k /\ u.events = s.events /\ u.socket = s.socket
  <2>1. k \in ConnOf /\ SameSocket(k, s.conn[c])
    BY <1>4 DEF SameSocket
  <2>2. QED
    BY <1>5, <2>1, ConnLocal
<1>7. u \in Members
  BY <1>6 DEF Local
<1>8. u = [s EXCEPT !.conn[c].pending = (@ + PendingMod - 1) % PendingMod]
  BY <1>2, <1>3, <1>5 DEF WithConn
<1>9. PICK m : m = [k EXCEPT !.delayed = cfg.delay]
  OBVIOUS
<1>10. m \in ConnOf /\ m.fd = f /\ m.lost = k.lost /\ m.opened = k.opened
       /\ m.pending = p /\ m.written = k.written /\ m.parser = k.parser
       /\ m.delayed = cfg.delay
  <2>1. cfg.delay \in BOOLEAN
    BY ConfigIs
  <2>2. QED
    BY <1>4, <1>9, <2>1 DEF ConnOf
<1>11. PICK v : v = WithConn(u, c, m)
  OBVIOUS
<1>12. Local(u, v, c) /\ v.conn[c] = m /\ v.events = s.events /\ v.socket = s.socket
  <2>1. m \in ConnOf /\ SameSocket(m, u.conn[c])
    BY <1>4, <1>6, <1>10 DEF SameSocket
  <2>2. Local(u, v, c) /\ v.conn[c] = m /\ v.events = u.events /\ v.socket = u.socket
    BY <1>7, <1>11, <2>1, ConnLocal
  <2>3. QED
    BY <1>6, <2>2
<1>13. v \in Members
  BY <1>12 DEF Local
<1>14. v = [u EXCEPT !.conn[c].delayed = cfg.delay]
  BY <1>6, <1>9, <1>11 DEF WithConn
<1>15. PICK w : w = aeCreateFileEvent(v, f, {"W"}, "writeable", c)
  OBVIOUS
<1>16. /\ Local(v, w, c) /\ w.conn = v.conn /\ w.socket = v.socket
       /\ Open(v, f) => /\ w.events[f].mask = v.events[f].mask \cup {"W"}
                        /\ w.events[f].r = v.events[f].r
                        /\ w.events[f].w = "writeable"
  <2>1. f = v.conn[c].fd
    BY <1>10, <1>12
  <2>2. QED
    BY <1>13, <1>15, <2>1, WriteLocal DEF Writes
<1>17. t = IF p # 0 THEN u ELSE w
  <2>1. u.conn[c].pending = p /\ u.conn[c].fd = f
    BY <1>4, <1>6
  <2>2. QED
    BY <1>8, <1>14, <1>15, <2>1 DEF Counted
<1>18. CASE p # 0
  BY <1>2, <1>4, <1>6, <1>17, <1>18 DEF Counts
<1>19. CASE p = 0
  <2>1. Local(s, w, c)
    BY <1>6, <1>12, <1>16, LocalAgain
  <2>2. Open(v, f) <=> Open(s, f)
    BY <1>12 DEF Open
  <2>3. w.conn[c] = m
    BY <1>12, <1>16
  <2>4. /\ w.socket = s.socket
        /\ Open(s, f) => /\ w.events[f].mask = s.events[f].mask \cup {"W"}
                         /\ w.events[f].r = s.events[f].r
                         /\ w.events[f].w = "writeable"
    BY <1>12, <1>16, <2>2
  <2>5. t = w
    BY <1>17, <1>19
  <2>6. QED
    BY <1>2, <1>4, <1>10, <1>19, <2>1, <2>3, <2>4, <2>5 DEF Counts
<1>20. QED
  BY <1>18, <1>19

(* The timers of a connection, by position.                                 *)
Never(q, n, c) == \A i \in 1 .. n : q[i] # c
Once(q, n, c)  == \E i \in 1 .. n : \A j \in 1 .. n : q[j] = c <=> j = i

LEMMA DelaysAre ==
  ASSUME NEW s \in Members, NEW n \in Nat, n = Len(s.timers), NEW c \in Conn
  PROVE  /\ Delays(s, c) = "none" <=> Never(s.timers, n, c)
         /\ Delays(s, c) = "one" <=> Once(s.timers, n, c)
         /\ Delays(s, c) \in {"none", "one", "many"}
<1>1. s.timers \in Seq(Conn \cup {Rate})
  BY DEF Members
<1>2. HasTimer(s, c) <=> \E i \in 1 .. n : s.timers[i] = c
  BY <1>1 DEF HasTimer
<1>3. Delays(s, c) = IF ~HasTimer(s, c) THEN "none"
                     ELSE IF \A i, j \in 1 .. n : s.timers[i] = c /\ s.timers[j] = c => i = j
                          THEN "one" ELSE "many"
  BY DEF Delays
<1>4. Delays(s, c) = "none" <=> Never(s.timers, n, c)
  BY <1>2, <1>3 DEF Never
<1>5. CASE \A i \in 1 .. n : s.timers[i] # c
  BY <1>2, <1>3, <1>4, <1>5 DEF Once
<1>6. CASE \E i \in 1 .. n : s.timers[i] = c
  <2>1. PICK i \in 1 .. n : s.timers[i] = c
    BY <1>6
  <2>2. Delays(s, c) = "one" <=>
          \A k, j \in 1 .. n : s.timers[k] = c /\ s.timers[j] = c => k = j
    BY <1>2, <1>3, <1>6
  <2>3. ASSUME \A k, j \in 1 .. n : s.timers[k] = c /\ s.timers[j] = c => k = j
        PROVE  \A j \in 1 .. n : s.timers[j] = c <=> j = i
    BY <2>1, <2>3
  <2>4. ASSUME NEW m \in 1 .. n, \A j \in 1 .. n : s.timers[j] = c <=> j = m
        PROVE  \A k, j \in 1 .. n : s.timers[k] = c /\ s.timers[j] = c => k = j
    BY <2>4
  <2>5. Delays(s, c) = "one" <=> Once(s.timers, n, c)
    BY <2>2, <2>3, <2>4 DEF Once
  <2>6. QED
    BY <1>2, <1>3, <1>4, <2>5
<1>7. QED
  BY <1>5, <1>6

LEMMA SkipIn ==
  ASSUME NEW m \in Nat, NEW i \in 1 .. m + 1, NEW j \in 1 .. m
  PROVE  Skip(i, j) \in 1 .. m + 1 /\ Skip(i, j) # i
  BY DEF Skip

LEMMA SkipApart ==
  ASSUME NEW m \in Nat, NEW i \in 1 .. m + 1, NEW j \in 1 .. m, NEW k \in 1 .. m,
         Skip(i, j) = Skip(i, k)
  PROVE  j = k
  BY DEF Skip

LEMMA SkipOnto ==
  ASSUME NEW m \in Nat, NEW n \in Nat, n = m + 1, NEW i \in 1 .. n,
         NEW k \in 1 .. n, k # i
  PROVE  \E j \in 1 .. m : k = Skip(i, j)
<1>1. CASE k < i
  <2>1. k \in 1 .. m /\ k = Skip(i, k)
    BY <1>1 DEF Skip
  <2>2. QED
    BY <2>1
<1>2. CASE ~(k < i)
  <2>1. k - 1 \in 1 .. m /\ k = Skip(i, k - 1)
    BY <1>2 DEF Skip
  <2>2. QED
    BY <2>1
<1>3. QED
  BY <1>1, <1>2

LEMMA SkipsNever ==
  ASSUME NEW m \in Nat, NEW n \in Nat, n = m + 1, NEW i \in 1 .. n, NEW q, NEW r,
         Skips(r, q, i, m), NEW d
  PROVE  /\ Never(q, n, d) <=> q[i] # d /\ Never(r, m, d)
         /\ q[i] = d => (Never(r, m, d) <=> Once(q, n, d))
<1>1. \A j \in 1 .. m : Skip(i, j) \in 1 .. n /\ Skip(i, j) # i /\ r[j] = q[Skip(i, j)]
  <2>1. ASSUME NEW j \in 1 .. m PROVE Skip(i, j) \in 1 .. n /\ Skip(i, j) # i
    BY SkipIn
  <2>2. QED
    BY <2>1 DEF Skips
<1>2. ASSUME NEW k \in 1 .. n, k # i PROVE \E j \in 1 .. m : k = Skip(i, j) /\ q[k] = r[j]
  <2>1. PICK j \in 1 .. m : k = Skip(i, j)
    BY <1>2, SkipOnto
  <2>2. QED
    BY <1>1, <2>1
<1>3. ASSUME q[i] # d, Never(r, m, d) PROVE Never(q, n, d)
  BY <1>2, <1>3 DEF Never
<1>4. ASSUME Never(q, n, d) PROVE q[i] # d /\ Never(r, m, d)
  BY <1>1, <1>4 DEF Never
<1>5. ASSUME q[i] = d, Never(r, m, d) PROVE Once(q, n, d)
  <2>1. \A k \in 1 .. n : q[k] = d <=> k = i
    BY <1>2, <1>5 DEF Never
  <2>2. QED
    BY <2>1 DEF Once
<1>6. ASSUME q[i] = d, Once(q, n, d) PROVE Never(r, m, d)
  <2>1. PICK l \in 1 .. n : \A k \in 1 .. n : q[k] = d <=> k = l
    BY <1>6 DEF Once
  <2>2. l = i
    BY <1>6, <2>1
  <2>3. QED
    BY <1>1, <2>1, <2>2 DEF Never
<1>7. QED
  BY <1>3, <1>4, <1>5, <1>6

LEMMA SkipsOnce ==
  ASSUME NEW m \in Nat, NEW n \in Nat, n = m + 1, NEW i \in 1 .. n, NEW q, NEW r,
         Skips(r, q, i, m), NEW d, q[i] # d
  PROVE  Once(q, n, d) <=> Once(r, m, d)
<1>1. \A j \in 1 .. m : Skip(i, j) \in 1 .. n /\ Skip(i, j) # i /\ r[j] = q[Skip(i, j)]
  <2>1. ASSUME NEW j \in 1 .. m PROVE Skip(i, j) \in 1 .. n /\ Skip(i, j) # i
    BY SkipIn
  <2>2. QED
    BY <2>1 DEF Skips
<1>2. ASSUME NEW k \in 1 .. n, k # i PROVE \E j \in 1 .. m : k = Skip(i, j)
  BY <1>2, SkipOnto
<1>3. \A j, k \in 1 .. m : Skip(i, j) = Skip(i, k) => j = k
  BY SkipApart
<1>4. ASSUME Once(q, n, d) PROVE Once(r, m, d)
  <2>1. PICK l \in 1 .. n : \A k \in 1 .. n : q[k] = d <=> k = l
    BY <1>4 DEF Once
  <2>2. PICK j \in 1 .. m : l = Skip(i, j)
    BY <1>2, <2>1
  <2>3. ASSUME NEW k \in 1 .. m PROVE r[k] = d <=> k = j
    <3>1. r[k] = d <=> Skip(i, k) = l
      BY <1>1, <2>1
    <3>2. QED
      BY <1>3, <2>2, <3>1
  <2>4. QED
    BY <2>3 DEF Once
<1>5. ASSUME Once(r, m, d) PROVE Once(q, n, d)
  <2>1. PICK j \in 1 .. m : \A k \in 1 .. m : r[k] = d <=> k = j
    BY <1>5 DEF Once
  <2>2. PICK l \in 1 .. n : l = Skip(i, j) /\ l # i
    BY <1>1
  <2>3. ASSUME NEW k \in 1 .. n PROVE q[k] = d <=> k = l
    <3>1. CASE k = i
      BY <2>2, <3>1
    <3>2. ASSUME NEW a \in 1 .. m, k = Skip(i, a) PROVE q[k] = d <=> k = l
      <4>1. q[k] = d <=> a = j
        BY <1>1, <2>1, <3>2
      <4>2. QED
        BY <1>3, <2>2, <3>2, <4>1
    <3>3. QED
      BY <1>2, <3>1, <3>2
  <2>4. QED
    BY <2>3 DEF Once
<1>6. QED
  BY <1>4, <1>5

(* A timer less, of c: the others keep theirs.                              *)
LEMMA SkipsDelays ==
  ASSUME NEW s \in Members, NEW t \in Members, NEW m \in Nat, NEW n \in Nat, n = m + 1,
         Len(t.timers) = m, Len(s.timers) = n, NEW i \in 1 .. n,
         Skips(t.timers, s.timers, i, m), NEW d \in Conn
  PROVE  /\ s.timers[i] # d => Delays(t, d) = Delays(s, d)
         /\ s.timers[i] = d => Delays(s, d) # "none"
         /\ s.timers[i] = d => (Delays(t, d) = "none" <=> Delays(s, d) = "one")
<1>1. /\ Delays(s, d) = "none" <=> Never(s.timers, n, d)
      /\ Delays(s, d) = "one" <=> Once(s.timers, n, d)
      /\ Delays(s, d) \in {"none", "one", "many"}
  BY DelaysAre
<1>2. /\ Delays(t, d) = "none" <=> Never(t.timers, m, d)
      /\ Delays(t, d) = "one" <=> Once(t.timers, m, d)
      /\ Delays(t, d) \in {"none", "one", "many"}
  BY DelaysAre
<1>3. /\ Never(s.timers, n, d) <=> s.timers[i] # d /\ Never(t.timers, m, d)
      /\ s.timers[i] = d => (Never(t.timers, m, d) <=> Once(s.timers, n, d))
  BY SkipsNever
<1>4. s.timers[i] # d => (Once(s.timers, n, d) <=> Once(t.timers, m, d))
  BY SkipsOnce
<1>5. QED
  BY <1>1, <1>2, <1>3, <1>4

(* Timers: one more in front.                                               *)
LEMMA TimerApart ==
  ASSUME NEW s \in Members, NEW c \in Conn \cup {Rate}, NEW t, t = aeCreateTimeEvent(s, c)
  PROVE  /\ t.conn = s.conn /\ t.socket = s.socket /\ t.events = s.events
         /\ Apart(s, t, c)
         /\ c \in Conn /\ Delays(s, c) = "none" => Delays(t, c) = "one"
<1>1. PICK n \in Nat : n = Len(s.timers)
  BY DEF Members
<1>2. s.timers \in Seq(Conn \cup {Rate})
  BY DEF Members
<1>3. PICK q : q = <<c>> \o s.timers
  OBVIOUS
<1>4. /\ Len(q) = n + 1
      /\ q[1] = c /\ \A i \in 1 .. n : q[i + 1] = s.timers[i]
  <2>1. <<c>> \in Seq(Conn \cup {Rate}) /\ Len(<<c>>) = 1 /\ <<c>>[1] = c
    OBVIOUS
  <2>2. Len(q) = 1 + n
    BY <1>1, <1>2, <1>3, <2>1, ConcatProperties
  <2>3. \A i \in 1 .. 1 + n : q[i] = IF i <= 1 THEN <<c>>[i] ELSE s.timers[i - 1]
    BY <1>1, <1>2, <1>3, <2>1, ConcatProperties
  <2>4. q[1] = c
    BY <1>1, <2>1, <2>3
  <2>5. ASSUME NEW i \in 1 .. n PROVE q[i + 1] = s.timers[i]
    <3>1. i + 1 \in 1 .. 1 + n /\ ~(i + 1 <= 1) /\ i + 1 - 1 = i
      BY <1>1
    <3>2. QED
      BY <2>3, <3>1
  <2>6. QED
    BY <1>1, <2>2, <2>4, <2>5
<1>5. t = [s EXCEPT !.timers = q]
  BY <1>3 DEF aeCreateTimeEvent
<1>6. t.conn = s.conn /\ t.socket = s.socket /\ t.events = s.events /\ t.timers = q
  BY <1>5 DEF Members
<1>7. t \in Members
  BY TimerWired
<1>8. PICK m \in Nat : m = n + 1 /\ m = Len(t.timers)
  BY <1>4, <1>6
<1>9. Skips(s.timers, t.timers, 1, n) /\ t.timers[1] = c
  BY <1>4, <1>6 DEF Skips, Skip
<1>10. ASSUME NEW d \in Conn
       PROVE  /\ d # c => Delays(t, d) = Delays(s, d)
              /\ d = c => (Delays(s, d) = "none" <=> Delays(t, d) = "one")
  <2>1. 1 \in 1 .. m
    BY <1>8
  <2>2. /\ t.timers[1] # d => Delays(s, d) = Delays(t, d)
        /\ t.timers[1] = d => (Delays(s, d) = "none" <=> Delays(t, d) = "one")
    BY <1>1, <1>7, <1>8, <1>9, <2>1, SkipsDelays
  <2>3. QED
    BY <1>9, <2>2
<1>11. QED
  BY <1>6, <1>10 DEF Apart

(* A connection that has just been opened, or lost.                         *)
Fresh(s, c) ==
  /\ Living(s, c) /\ ~s.socket[s.conn[c].fd].haunted =>
       Connecting(s.socket[s.conn[c].fd], s.events[s.conn[c].fd], Delays(s, c))

LEMMA FreshCycles ==
  ASSUME NEW s, NEW c, Fresh(s, c)
  PROVE  /\ Cycle(s, c)
         /\ s.conn[c].parser = "dead" => \A q, j : Taking(s, c, q, j)
  BY DEF Fresh, Cycle, Taking, Usual

LEMMA ConnectFresh ==
  ASSUME NEW s \in Members, NEW c \in Conn, NEW t \in connect_socket(s, c),
         \A d \in Conn \ {c} : HasSocket(s, d),
         \A f \in Fd : ~Open(s, f) => s.events[f].mask = {}
  PROVE  /\ Apart(s, t, c) /\ Fresh(t, c)
         /\ t.conn[c].parser = s.conn[c].parser
<1>1. s.conn[c] \in ConnOf
  BY DEF Members
<1>2. CASE t = [s EXCEPT !.conn[c].lost = TRUE, !.conn[c].opened = TRUE]
  <2>1. PICK k : k = [s.conn[c] EXCEPT !.lost = TRUE, !.opened = TRUE]
    OBVIOUS
  <2>2. k.lost /\ k.parser = s.conn[c].parser
    BY <1>1, <2>1 DEF ConnOf
  <2>3. t = [s EXCEPT !.conn[c] = k]
    BY <1>2, <2>1
  <2>4. t.events = s.events /\ t.socket = s.socket /\ t.timers = s.timers
    BY <2>3 DEF Members
  <2>5. \A d \in Conn : t.conn[d] = IF d = c THEN k ELSE s.conn[d]
    BY <2>3 DEF Members
  <2>6. \A d \in Conn : Delays(t, d) = Delays(s, d)
    BY <2>4, SameDelays
  <2>7. Apart(s, t, c)
    BY <2>4, <2>5, <2>6 DEF Apart
  <2>8. QED
    BY <2>2, <2>5, <2>7 DEF Fresh, Living
<1>3. CASE \E f \in Fd :
             /\ ~Open(s, f)
             /\ t = [aeCreateFileEvent(
                       [s EXCEPT !.socket[f] = [Closed EXCEPT !.owner = c, !.net = "connecting",
                                                              !.haunted = HasTimer(s, c)]],
                       f, {"R", "W"}, "connected", c)
                     EXCEPT !.conn[c].fd = f, !.conn[c].lost = FALSE, !.conn[c].opened = TRUE]
  <2>1. PICK f \in Fd :
             /\ ~Open(s, f)
             /\ t = [aeCreateFileEvent(
                       [s EXCEPT !.socket[f] = [Closed EXCEPT !.owner = c, !.net = "connecting",
                                                              !.haunted = HasTimer(s, c)]],
                       f, {"R", "W"}, "connected", c)
                     EXCEPT !.conn[c].fd = f, !.conn[c].lost = FALSE, !.conn[c].opened = TRUE]
    BY <1>3
  <2>2. PICK k : k = [Closed EXCEPT !.owner = c, !.net = "connecting",
                                    !.haunted = HasTimer(s, c)]
    OBVIOUS
  <2>3. PICK h \in BOOLEAN : h = HasTimer(s, c)
    <3>1. HasTimer(s, c) \in BOOLEAN
      BY DEF HasTimer
    <3>2. QED
      BY <3>1
  <2>4. k = [owner |-> c, net |-> "connecting", in |-> <<>>, fin |-> FALSE, closing |-> FALSE,
             owed |-> 0, used |-> FALSE, early |-> FALSE, haunted |-> h]
    BY <2>2, <2>3 DEF Closed
  <2>5. /\ k \in SocketOf /\ k.owner = c /\ k.in = <<>> /\ ~k.closing /\ k.owed = 0
        /\ ~k.used /\ k.haunted = h
    BY <2>4 DEF SocketOf, Net
  <2>6. PICK u \in Members : u = [s EXCEPT !.socket[f] = k]
    BY <2>5, SocketBecomes
  <2>7. u.conn = s.conn /\ u.events = s.events /\ u.timers = s.timers
    BY <2>6 DEF Members
  <2>8. \A g \in Fd : u.socket[g] = IF g = f THEN k ELSE s.socket[g]
    BY <2>6 DEF Members
  <2>9. PICK e : e = [mask |-> u.events[f].mask \cup {"R", "W"}, r |-> "connected",
                      w |-> "connected", data |-> c]
    OBVIOUS
  <2>10. e \in EventOf /\ Armed(e) /\ e.mask = Mask /\ e.r = "connected" /\ e.w = "connected"
    <3>1. u.events[f].mask = {}
      BY <2>1, <2>7
    <3>2. QED
      BY <2>9, <3>1 DEF EventOf, Armed, Mask
  <2>11. PICK v \in Members : v = [u EXCEPT !.events[f] = e]
    BY <2>10, EventBecomes
  <2>12. aeCreateFileEvent(u, f, {"R", "W"}, "connected", c) = v
    <3>1. c # None
      BY WrkAssumption
    <3>2. Open(u, f)
      BY <2>5, <2>8, <3>1 DEF Open
    <3>3. QED
      BY <2>9, <2>11, <3>2 DEF aeCreateFileEvent
  <2>13. v.conn = s.conn /\ v.timers = s.timers /\ v.socket = u.socket
    BY <2>7, <2>11 DEF Members
  <2>14. \A g \in Fd : v.events[g] = IF g = f THEN e ELSE s.events[g]
    BY <2>7, <2>11 DEF Members
  <2>15. PICK m : m = [s.conn[c] EXCEPT !.fd = f, !.lost = FALSE, !.opened = TRUE]
    OBVIOUS
  <2>16. m.fd = f /\ m.parser = s.conn[c].parser
    BY <1>1, <2>15 DEF ConnOf
  <2>17. t = [v EXCEPT !.conn[c] = m]
    <3>1. t = [v EXCEPT !.conn[c].fd = f, !.conn[c].lost = FALSE, !.conn[c].opened = TRUE]
      BY <2>1, <2>2, <2>6, <2>12
    <3>2. QED
      BY <2>13, <2>15, <3>1
  <2>18. t.events = v.events /\ t.socket = u.socket /\ t.timers = s.timers
    BY <2>13, <2>17 DEF Members
  <2>19. \A d \in Conn : t.conn[d] = IF d = c THEN m ELSE s.conn[d]
    BY <2>13, <2>17 DEF Members
  <2>20. \A d \in Conn : Delays(t, d) = Delays(s, d)
    BY <2>18, SameDelays
  <2>21. \A g \in Fd \ {f} : t.socket[g] = s.socket[g] /\ t.events[g] = s.events[g]
    BY <2>8, <2>14, <2>18
  <2>22. t.socket[f] = k /\ t.events[f] = e /\ t.conn[c] = m
    BY <2>8, <2>14, <2>18, <2>19
  <2>23. ASSUME NEW d \in Conn \ {c}, Living(s, d)
         PROVE  /\ t.socket[s.conn[d].fd] = s.socket[s.conn[d].fd]
                /\ t.events[s.conn[d].fd] = s.events[s.conn[d].fd]
    <3>1. Open(s, s.conn[d].fd)
      BY <2>23 DEF HasSocket, Living
    <3>2. s.conn[d].fd \in Fd \ {f}
      BY <2>1, <3>1 DEF Open
    <3>3. QED
      BY <2>21, <3>2
  <2>24. Apart(s, t, c)
    BY <2>19, <2>20, <2>23 DEF Apart
  <2>25. ~h => Delays(t, c) = "none"
    BY <2>3, <2>20 DEF Delays
  <2>26. ~k.haunted => Connecting(k, e, Delays(t, c))
    BY <2>5, <2>10, <2>25 DEF Connecting
  <2>27. QED
    BY <2>16, <2>22, <2>24, <2>26 DEF Fresh
<1>4. QED
  BY <1>2, <1>3 DEF connect_socket

(* reconnect_socket leaves the parser as it is, and a new socket or none.   *)
LEMMA ReconnectFresh ==
  ASSUME NEW s \in Members, NEW c \in Conn, Held(s, c), NEW t \in reconnect_socket(s, c)
  PROVE  /\ Apart(s, t, c) /\ Fresh(t, c)
         /\ t.conn[c].parser = s.conn[c].parser
<1>1. PICK f : f = s.conn[c].fd
  OBVIOUS
<1>2. PICK mask : mask = {"R", "W"}
  OBVIOUS
<1>3. PICK u : u = aeDeleteFileEvent(s, f, mask)
  OBVIOUS
<1>4. /\ Local(s, u, c) /\ u.conn = s.conn /\ u.socket = s.socket
      /\ f \in Fd => /\ u.events[f].mask = s.events[f].mask \ mask
                     /\ u.events[f].r = s.events[f].r /\ u.events[f].w = s.events[f].w
  <2>1. Deletes(s, u, c, f, mask)
    BY <1>1, <1>3, DeleteLocal
  <2>2. QED
    BY <2>1 DEF Deletes
<1>5. u \in Members /\ Held(u, c) /\ u.timers = s.timers
  BY <1>4 DEF Local, Kept
<1>6. f \in Fd => u.events[f].mask = {}
  <2>1. f \in Fd => s.events[f].mask \in SUBSET Mask
    BY DEF Members, EventOf
  <2>2. QED
    BY <1>2, <1>4, <2>1 DEF Mask
<1>7. PICK v : v = close(u, f)
  OBVIOUS
<1>8. /\ v \in Members /\ v.conn = u.conn /\ v.events = u.events /\ v.timers = u.timers
      /\ \A g \in Fd : v.socket[g] = IF g = f THEN v.socket[g] ELSE u.socket[g]
      /\ \A g \in Fd : Open(v, g) => Open(u, g)
      /\ \A g \in Fd : Open(u, g) /\ g # f => Open(v, g)
  <2>1. CASE ~Open(u, f)
    <3>1. v = u
      BY <1>7, <2>1 DEF close
    <3>2. QED
      BY <1>5, <3>1
  <2>2. CASE Open(u, f)
    <3>1. v = [u EXCEPT !.socket[f] = Closed] /\ f \in Fd
      BY <1>7, <2>2 DEF close, Open
    <3>2. v \in Members
      BY <1>5, <3>1, ClosedIs, SocketBecomes
    <3>3. v.conn = u.conn /\ v.events = u.events /\ v.timers = u.timers
      BY <1>5, <3>1 DEF Members
    <3>4. \A g \in Fd : v.socket[g] = IF g = f THEN Closed ELSE u.socket[g]
      BY <1>5, <3>1 DEF Members
    <3>5. QED
      BY <3>2, <3>3, <3>4, ClosedIs DEF Open
  <2>3. QED
    BY <2>1, <2>2
<1>9. \A d \in Conn \ {c} : Living(s, d) => s.conn[d].fd # f /\ s.conn[d].fd \in Fd
  <2>1. Near(s, f, c)
    BY <1>1, HeldIsNear
  <2>2. QED
    BY <2>1 DEF Near, Held, Wired, HasSocket, Living, Open
<1>10. Apart(s, v, c)
  <2>1. Apart(s, u, c)
    BY <1>4, LocalIsApart
  <2>2. \A d \in Conn : Delays(v, d) = Delays(u, d)
    BY <1>8, SameDelays
  <2>3. Apart(u, v, c)
    BY <1>4, <1>8, <1>9, <2>2 DEF Apart, Living
  <2>4. QED
    BY <2>1, <2>3, ApartAgain
<1>11. ASSUME NEW d \in Conn \ {c} PROVE HasSocket(v, d)
  <2>1. SUFFICES ASSUME Living(s, d) PROVE HasSocket(v, d)
    BY <1>4, <1>8 DEF HasSocket, Living
  <2>2. Open(s, s.conn[d].fd) /\ s.socket[s.conn[d].fd].owner = d
    BY <2>1 DEF Held, Wired, HasSocket, Living
  <2>3. Open(u, s.conn[d].fd) /\ u.socket[s.conn[d].fd].owner = d
    BY <1>4, <2>2 DEF Open
  <2>4. s.conn[d].fd # f /\ s.conn[d].fd \in Fd
    BY <1>9, <2>1
  <2>5. v.conn[d].fd = s.conn[d].fd
    BY <1>4, <1>8
  <2>6. v.socket[s.conn[d].fd] = u.socket[s.conn[d].fd]
    BY <1>8, <2>4
  <2>7. QED
    BY <2>3, <2>5, <2>6 DEF HasSocket, Open
<1>12. ASSUME NEW g \in Fd, ~Open(v, g) PROVE v.events[g].mask = {}
  <2>1. CASE g = f
    BY <1>6, <1>8, <2>1
  <2>2. CASE g # f
    <3>1. ~Open(u, g)
      BY <1>8, <1>12, <2>2
    <3>2. u.socket[g].owner = None
      BY <3>1 DEF Open
    <3>3. u.events[g].mask # {} => u.events[g].data \in Conn
      BY <1>5 DEF Members, Armed
    <3>4. u.events[g].mask = {}
      BY <1>5, <3>2, <3>3, WrkAssumption DEF Held, Wired, Linked
    <3>5. QED
      BY <1>8, <3>4
  <2>3. QED
    BY <2>1, <2>2
<1>13. t \in connect_socket(v, c)
  BY <1>1, <1>2, <1>3, <1>7 DEF reconnect_socket
<1>14. Apart(v, t, c) /\ Fresh(t, c) /\ t.conn[c].parser = v.conn[c].parser
  BY <1>8, <1>11, <1>12, <1>13, ConnectFresh
<1>15. QED
  BY <1>4, <1>8, <1>10, <1>14, ApartAgain

-------------------------------------------------------------------------------
(* A callback leaves its connection where it should be, and the others.     *)
Leaves(s, t, c) == t \in Members /\ Held(t, c) /\ Apart(s, t, c) /\ Cycle(t, c)

LEMMA ReconnectLeaves ==
  ASSUME NEW s \in Members, NEW u, NEW c \in Conn, NEW t \in reconnect_socket(s, c),
         Held(s, c), Apart(u, s, c)
  PROVE  Leaves(u, t, c)
<1>1. Apart(s, t, c) /\ Fresh(t, c)
  BY ReconnectFresh
<1>2. t \in Members /\ Held(t, c)
  BY ReconnectKept DEF Kept
<1>3. Apart(u, t, c)
  BY <1>1, ApartAgain
<1>4. Cycle(t, c)
  BY <1>1, FreshCycles
<1>5. QED
  BY <1>2, <1>3, <1>4 DEF Leaves

(* A connection that has a socket.                                          *)
LEMMA LivingIs ==
  ASSUME NEW s \in Members, NEW c \in Conn, Held(s, c), Living(s, c)
  PROVE  /\ Open(s, s.conn[c].fd) /\ s.conn[c].fd \in Fd
         /\ s.conn[c] \in ConnOf
         /\ s.socket[s.conn[c].fd] \in SocketOf
         /\ s.events[s.conn[c].fd] \in EventOf
  BY DEF Held, Wired, HasSocket, Living, Open, Members

(* What c sees after a call that concerns only it.                          *)
LEMMA LocalLives ==
  ASSUME NEW s, NEW t, NEW c \in Conn, Local(s, t, c)
  PROVE  /\ Living(t, c) <=> Living(s, c)
         /\ t.conn[c].fd = s.conn[c].fd
         /\ Delays(t, c) = Delays(s, c)
         /\ Open(t, s.conn[c].fd) <=> Open(s, s.conn[c].fd)
<1>1. t.timers = s.timers
  BY DEF Local
<1>2. Delays(t, c) = Delays(s, c)
  BY <1>1, SameDelays
<1>3. QED
  BY <1>2 DEF Local, Living, Open

(* An answer that keeps the connection.                                     *)
LEMMA EndTaken ==
  ASSUME cfg \in Configs, NEW s \in Members, NEW c \in Conn, Held(s, c),
         NEW q \in Seq(Token), NEW j \in 0 .. Len(q) - 1, q[j + 1] = "end",
         s.conn[c].parser = "start", Taking(s, c, q, j),
         NEW t, t = WithParser(Counted(s, c), c, "start")
  PROVE  Apart(s, t, c) /\ Taking(t, c, q, j + 1)
<1>1. PICK f : f = s.conn[c].fd
  OBVIOUS
<1>2. PICK u : u = Counted(s, c)
  OBVIOUS
<1>3. /\ Local(s, u, c) /\ u.socket = s.socket
      /\ u.conn[c].pending = (s.conn[c].pending + PendingMod - 1) % PendingMod
      /\ u.conn[c].written = s.conn[c].written /\ u.conn[c].parser = s.conn[c].parser
      /\ u.conn[c].pending # 0 => /\ u.conn[c].delayed = s.conn[c].delayed
                                  /\ u.events = s.events
      /\ u.conn[c].pending = 0 /\ Open(s, f) =>
           /\ u.conn[c].delayed = cfg.delay
           /\ u.events[f].mask = s.events[f].mask \cup {"W"}
           /\ u.events[f].r = s.events[f].r /\ u.events[f].w = "writeable"
  <2>1. Counts(s, u, c, f)
    BY <1>1, <1>2, CountedLocal
  <2>2. QED
    BY <2>1 DEF Counts
<1>4. u \in Members
  BY <1>3 DEF Local
<1>5. /\ Local(u, t, c) /\ t.events = u.events /\ t.socket = u.socket
      /\ t.conn[c].parser = "start"
      /\ t.conn[c].written = u.conn[c].written
      /\ t.conn[c].pending = u.conn[c].pending
      /\ t.conn[c].delayed = u.conn[c].delayed
  <2>1. "start" \in Parser
    BY DEF Parser
  <2>2. QED
    BY <1>2, <1>4, <2>1, ParserLocal DEF SetsParser
<1>6. Local(s, t, c)
  BY <1>3, <1>5, LocalAgain
<1>7. Apart(s, t, c)
  BY <1>6, LocalIsApart
<1>8. t \in Members /\ Held(t, c)
  BY <1>6 DEF Local, Kept
<1>9. ASSUME Living(t, c), Usual(t.socket[f])
      PROVE  Cycling(t.conn[c], t.socket[f], t.events[f], Delays(t, c), q, j + 1)
  <2>1. /\ Living(s, c) /\ t.conn[c].fd = f /\ Delays(t, c) = Delays(s, c)
    BY <1>1, <1>6, <1>9, LocalLives
  <2>2. t.socket = s.socket
    BY <1>3, <1>5
  <2>3. PICK n \in ConnOf : n = s.conn[c] /\ n.parser = "start"
    BY <2>1, LivingIs
  <2>4. PICK m \in ConnOf : m = t.conn[c] /\ m.parser = "start"
    BY <1>5, <1>8, <1>9, LivingIs
  <2>5. PICK k \in SocketOf : k = s.socket[f] /\ k = t.socket[f]
    BY <1>1, <2>1, <2>2, LivingIs
  <2>6. PICK e \in EventOf : e = s.events[f]
    BY <1>1, <2>1, LivingIs
  <2>7. PICK d \in EventOf : d = t.events[f]
    BY <1>8, <1>9, <2>1, LivingIs
  <2>8. Cycling(n, k, e, Delays(s, c), q, j)
    BY <1>1, <1>9, <2>1, <2>3, <2>5, <2>6 DEF Taking
  <2>9. m.pending = (n.pending + PendingMod - 1) % PendingMod /\ m.written = n.written
    BY <1>3, <1>5, <2>3, <2>4
  <2>10. m.pending # 0 => m.delayed = n.delayed /\ d = e
    BY <1>3, <1>5, <2>3, <2>4, <2>6, <2>7
  <2>11. m.pending = 0 => /\ m.delayed = cfg.delay
                          /\ d.mask = e.mask \cup {"W"} /\ d.r = e.r /\ d.w = "writeable"
    <3>1. Open(s, f)
      BY <1>1, <2>1, LivingIs
    <3>2. QED
      BY <1>3, <1>5, <2>3, <2>4, <2>6, <2>7, <3>1
  <2>12. Cycling(m, k, d, Delays(s, c), q, j + 1)
    BY <2>3, <2>4, <2>8, <2>9, <2>10, <2>11, CountedCycles
  <2>13. QED
    BY <2>1, <2>4, <2>5, <2>7, <2>12
<1>10. t.conn[c].fd = f
  BY <1>1, <1>6 DEF Local
<1>11. QED
  BY <1>7, <1>9, <1>10 DEF Taking

(* The parser reads to the end of the connection, or begins to.             *)
LEMMA UntilTaken ==
  ASSUME cfg \in Configs, NEW s \in Members, NEW c \in Conn, Held(s, c),
         NEW q \in Seq(Token), NEW j \in 0 .. Len(q) - 1, Taking(s, c, q, j),
         \/ s.conn[c].parser = "until"
         \/ s.conn[c].parser = "start" /\ q[j + 1] = "until",
         NEW t, t = s \/ t = WithParser(s, c, "until"), t.conn[c].parser = "until"
  PROVE  Apart(s, t, c) /\ Taking(t, c, q, j + 1)
<1>1. PICK f : f = s.conn[c].fd
  OBVIOUS
<1>2. Local(s, t, c) /\ t.events = s.events /\ t.socket = s.socket
  <2>1. CASE t = s
    BY <2>1, LocalSame
  <2>2. CASE t = WithParser(s, c, "until")
    <3>1. "until" \in Parser
      BY DEF Parser
    <3>2. SetsParser(s, t, c, "until")
      BY <2>2, <3>1, ParserLocal
    <3>3. QED
      BY <3>2 DEF SetsParser
  <2>3. QED
    BY <2>1, <2>2
<1>3. Apart(s, t, c)
  BY <1>2, LocalIsApart
<1>4. t.conn[c].fd = f
  BY <1>1, <1>2 DEF Local
<1>5. ASSUME Living(t, c), Usual(t.socket[f])
      PROVE  Cycling(t.conn[c], t.socket[f], t.events[f], Delays(t, c), q, j + 1)
  <2>1. Living(s, c) /\ Delays(t, c) = Delays(s, c)
    BY <1>2, <1>5, LocalLives
  <2>2. Cycling(s.conn[c], s.socket[f], s.events[f], Delays(s, c), q, j)
    BY <1>1, <1>2, <1>5, <2>1 DEF Taking
  <2>3. s.socket[f].closing
    <3>1. SUFFICES ASSUME ~s.socket[f].closing PROVE FALSE
      OBVIOUS
    <3>2. s.conn[c].parser = "start" /\ \A i \in j + 1 .. Len(q) : q[i] = "end"
      BY <2>2, <3>1 DEF Cycling, Counting
    <3>3. j + 1 \in j + 1 .. Len(q)
      OBVIOUS
    <3>4. QED
      BY <3>2, <3>3
  <2>4. Ends(t.conn[c], t.socket[f], q, j + 1)
    BY DEF Ends
  <2>5. QED
    BY <1>2, <2>2, <2>3, <2>4 DEF Cycling
<1>6. QED
  BY <1>3, <1>4, <1>5 DEF Taking

(* An answer that does not.                                                 *)
LEMMA LastTaken ==
  ASSUME cfg \in Configs, NEW s \in Members, NEW c \in Conn, Held(s, c),
         NEW t \in response_complete(s, c, FALSE)
  PROVE  Apart(s, t, c) /\ Fresh(t, c) /\ t.conn[c].parser = "dead"
<1>1. PICK u : u = Counted(s, c)
  OBVIOUS
<1>2. Local(s, u, c)
  <2>1. PICK f : f = s.conn[c].fd
    OBVIOUS
  <2>2. Counts(s, u, c, f)
    BY <1>1, <2>1, CountedLocal
  <2>3. QED
    BY <2>2 DEF Counts
<1>3. PICK v : v = WithParser(u, c, "dead")
  OBVIOUS
<1>4. Local(u, v, c) /\ v.conn[c].parser = "dead"
  <2>1. "dead" \in Parser /\ u \in Members
    BY <1>2 DEF Parser, Local
  <2>2. SetsParser(u, v, c, "dead")
    BY <1>3, <2>1, ParserLocal
  <2>3. QED
    BY <2>2 DEF SetsParser
<1>5. Local(s, v, c)
  BY <1>2, <1>4, LocalAgain
<1>6. v \in Members /\ Held(v, c)
  BY <1>5 DEF Local, Kept
<1>7. Apart(s, v, c)
  BY <1>5, LocalIsApart
<1>8. t \in reconnect_socket(v, c)
  BY <1>1, <1>3 DEF response_complete, WithParser
<1>9. Apart(v, t, c) /\ Fresh(t, c) /\ t.conn[c].parser = v.conn[c].parser
  BY <1>6, <1>8, ReconnectFresh
<1>10. QED
  BY <1>4, <1>7, <1>9, ApartAgain

LEMMA ApartSame ==
  ASSUME NEW s, NEW c
  PROVE  Apart(s, s, c)
  BY DEF Apart

LEMMA ParseTakes ==
  ASSUME cfg \in Configs, NEW r \in Result, NEW c \in Conn, Held(r.s, c),
         NEW q \in Seq(Token), NEW j \in 0 .. Len(q) - 1,
         r.error \/ Taking(r.s, c, q, j),
         NEW p \in Parse(r, c, q[j + 1])
  PROVE  Apart(r.s, p.s, c) /\ (p.error \/ Taking(p.s, c, q, j + 1))
<1>1. PICK s \in Members : s = r.s /\ Held(s, c) /\ Apart(s, s, c)
  BY ApartSame DEF Result
<1>2. s.conn[c].parser \in Parser
  BY DEF Members, ConnOf
<1>3. r.error \in BOOLEAN /\ r = [s |-> s, error |-> r.error]
  BY <1>1 DEF Result
<1>8. PICK token \in Token : token = q[j + 1]
  <2>1. j + 1 \in 1 .. Len(q)
    OBVIOUS
  <2>2. QED
    BY <2>1
<1>4. CASE r.error \/ s.conn[c].parser = "until"
  <2>1. p = r
    BY <1>1, <1>4 DEF Parse
  <2>2. CASE r.error
    BY <1>1, <2>1, <2>2
  <2>3. CASE ~r.error
    <3>1. Taking(s, c, q, j) /\ s.conn[c].parser = "until"
      BY <1>1, <1>4, <2>3
    <3>2. Taking(s, c, q, j + 1)
      BY <1>1, <3>1, UntilTaken
    <3>3. QED
      BY <1>1, <2>1, <3>2
  <2>4. QED
    BY <2>2, <2>3
<1>5. CASE ~r.error /\ s.conn[c].parser = "dead"
  <2>1. p = [r EXCEPT !.error = TRUE]
    BY <1>1, <1>5 DEF Parse
  <2>2. QED
    BY <1>1, <2>1 DEF Result
<1>6. CASE ~r.error /\ s.conn[c].parser = "start"
  <2>6. Taking(s, c, q, j)
    BY <1>1, <1>6
  <2>1. CASE token = "end"
    <3>1. PICK t \in response_complete(s, c, TRUE) : p = [s |-> t, error |-> FALSE]
      BY <1>1, <1>6, <1>8, <2>1 DEF Parse
    <3>2. t = WithParser(Counted(s, c), c, "start")
      BY DEF response_complete, WithParser
    <3>3. Apart(s, t, c) /\ Taking(t, c, q, j + 1)
      BY <1>1, <1>6, <1>8, <2>1, <2>6, <3>2, EndTaken
    <3>4. QED
      BY <1>1, <3>1, <3>3
  <2>2. CASE token = "last"
    <3>1. PICK t \in response_complete(s, c, FALSE) : p = [s |-> t, error |-> FALSE]
      BY <1>1, <1>6, <1>8, <2>2 DEF Parse
    <3>2. Apart(s, t, c) /\ Fresh(t, c) /\ t.conn[c].parser = "dead"
      BY <1>1, LastTaken
    <3>3. Taking(t, c, q, j + 1)
      BY <3>2, FreshCycles
    <3>4. QED
      BY <1>1, <3>1, <3>2, <3>3
  <2>3. CASE token = "until"
    <3>1. PICK t : t = [s EXCEPT !.conn[c].parser = "until"] /\ p = [s |-> t, error |-> FALSE]
      BY <1>1, <1>6, <1>8, <2>3 DEF Parse
    <3>2. t = WithParser(s, c, "until")
      BY <3>1 DEF WithParser
    <3>3. t.conn[c].parser = "until"
      <4>1. "until" \in Parser
        BY DEF Parser
      <4>2. SetsParser(s, t, c, "until")
        BY <3>2, <4>1, ParserLocal
      <4>3. QED
        BY <4>2 DEF SetsParser
    <3>4. Apart(s, t, c) /\ Taking(t, c, q, j + 1)
      BY <1>1, <1>6, <1>8, <2>3, <2>6, <3>2, <3>3, UntilTaken
    <3>5. QED
      BY <1>1, <3>1, <3>4
  <2>4. CASE token = "junk"
    <3>1. p = [r EXCEPT !.error = TRUE]
      BY <1>1, <1>6, <1>8, <2>4 DEF Parse
    <3>2. QED
      BY <1>1, <3>1 DEF Result
  <2>5. QED
    BY <2>1, <2>2, <2>3, <2>4 DEF Token
<1>7. QED
  BY <1>2, <1>3, <1>4, <1>5, <1>6 DEF Parser

(* The tokens of one read, one after the other.                             *)
LEMMA MaxOfInterval ==
  ASSUME NEW j \in Nat \ {0}
  PROVE  Max(1 .. j) = j
<1>1. \E m \in 1 .. j : \A k \in 1 .. j : m >= k
  OBVIOUS
<1>2. Max(1 .. j) \in 1 .. j /\ \A k \in 1 .. j : Max(1 .. j) >= k
  BY <1>1 DEF Max
<1>3. QED
  BY <1>2

Took(s, r, c, q, j) ==
  /\ r \in Result
  /\ Held(r.s, c) /\ Apart(s, r.s, c)
  /\ r.error \/ Taking(r.s, c, q, j)

LEMMA ParseTook ==
  ASSUME cfg \in Configs, NEW s, NEW c \in Conn, NEW q \in Seq(Token),
         NEW j \in 0 .. Len(q) - 1, NEW r, Took(s, r, c, q, j),
         NEW p \in Parse(r, c, q[j + 1])
  PROVE  Took(s, p, c, q, j + 1)
<1>1. r \in Result /\ Held(r.s, c) /\ Apart(s, r.s, c) /\ (r.error \/ Taking(r.s, c, q, j))
  BY DEF Took
<1>2. q[j + 1] \in Token
  <2>1. j + 1 \in 1 .. Len(q)
    OBVIOUS
  <2>2. QED
    BY <2>1
<1>3. p \in Result /\ Kept(r.s, p.s, c)
  BY <1>1, <1>2, ParseKept
<1>4. Apart(r.s, p.s, c) /\ (p.error \/ Taking(p.s, c, q, j + 1))
  BY <1>1, ParseTakes
<1>5. QED
  BY <1>1, <1>3, <1>4, ApartAgain DEF Took, Kept

LEMMA ExecuteTakes ==
  ASSUME cfg \in Configs, NEW s \in Members, NEW c \in Conn, NEW tokens \in Seq(Token),
         Held(s, c), Taking(s, c, tokens, 0), NEW r \in Execute(s, c, tokens)
  PROVE  Took(s, r, c, tokens, Len(tokens))
<1>1. PICK n \in Nat : n = Len(tokens)
  OBVIOUS
<1>2. PICK S : S = DOMAIN tokens /\ S = 1 .. n /\ Positions(S) /\ IsFiniteSet(S)
  <2>1. DOMAIN tokens = 1 .. n
    BY <1>1
  <2>2. IsFiniteSet(1 .. n) /\ 1 .. n \subseteq Int
    BY FS_Interval
  <2>3. QED
    BY <2>1, <2>2 DEF Positions
<1>3. PICK g : Executes(s, c, tokens, S, g)
  BY <1>2, AllExecuted DEF Executed
<1> DEFINE Good(R, j) == \A p \in R : Took(s, p, c, tokens, j)
           U == {D \in SUBSET S : \A j \in 0 .. n : D = 1 .. j => Good(g[D], j)}
<1>4. ASSUME NEW D \in SUBSET S, \A V \in SUBSET D : V # D => V \in U
      PROVE  D \in U
  <2>1. SUFFICES ASSUME NEW j \in 0 .. n, D = 1 .. j PROVE Good(g[D], j)
    OBVIOUS
  <2>2. CASE j = 0
    <3>1. Good(Begun(s), j)
      <4>1. PICK p : p = [s |-> s, error |-> FALSE]
        OBVIOUS
      <4>2. p \in Result /\ p.s = s
        BY <4>1 DEF Result
      <4>3. Took(s, p, c, tokens, j)
        BY <2>2, <4>2, ApartSame DEF Took
      <4>4. QED
        BY <4>1, <4>3 DEF Begun
    <3>2. D = {}
      BY <2>1, <2>2
    <3>3. QED
      BY <1>3, <3>1, <3>2, ExecutesNone
  <2>3. CASE j # 0
    <3>1. PICK k \in 0 .. n - 1 : j = k + 1
      BY <2>3
    <3>2. Max(D) = j /\ j \in D
      BY <2>1, <2>3, MaxOfInterval
    <3>3. D \ {j} = 1 .. k /\ D \ {j} # D
      BY <2>1, <3>1, <3>2
    <3>4. D \ {j} \in U
      BY <1>4, <3>3
    <3>5. Good(g[D \ {j}], k)
      <4>1. k \in 0 .. n
        BY <3>1
      <4>2. QED
        BY <3>3, <3>4, <4>1
    <3>6. g[D] = After(g[D \ {j}], c, tokens[j])
      <4>1. D # {}
        BY <3>2
      <4>2. g[D] = LastOf(g, D, c, tokens)
        BY <1>3, <4>1, ExecutesMore
      <4>3. QED
        BY <3>2, <4>2 DEF LastOf
    <3>7. ASSUME NEW q \in After(g[D \ {j}], c, tokens[j])
          PROVE  Took(s, q, c, tokens, j)
      <4>1. PICK p \in g[D \ {j}] : q \in Parse(p, c, tokens[j])
        BY DEF After
      <4>2. Took(s, p, c, tokens, k)
        BY <3>5
      <4>3. k \in 0 .. Len(tokens) - 1 /\ q \in Parse(p, c, tokens[k + 1])
        BY <1>1, <3>1, <4>1
      <4>4. Took(s, q, c, tokens, k + 1)
        BY <4>2, <4>3, ParseTook
      <4>5. QED
        BY <3>1, <4>4
    <3>8. QED
      BY <3>6, <3>7
  <2>4. QED
    BY <2>2, <2>3
<1>5. U = SUBSET S
  <2> HIDE DEF U
  <2>1. U \in SUBSET SUBSET S
    BY DEF U
  <2>2. QED
    BY <1>2, <1>4, <2>1, FromSubsets
<1>6. S \in SUBSET S
  OBVIOUS
<1>7. Outcome(s, c, tokens, S) = g[S]
  BY <1>2, <1>3, <1>6, AllExecuted, OutcomeIs
<1>8. r \in g[S]
  BY <1>2, <1>7, ExecuteIs
<1>9. Good(g[S], n)
  <2>1. S \in U /\ n \in 0 .. n
    BY <1>5, <1>6
  <2>2. QED
    BY <1>2, <2>1
<1>10. QED
  BY <1>1, <1>8, <1>9

LEMMA TakenIsCycle ==
  ASSUME NEW s, NEW c, NEW q \in Seq(Token), Taking(s, c, q, Len(q))
  PROVE  Cycle(s, c)
<1>1. SUFFICES ASSUME NEW n, NEW k, NEW e, NEW delays, Cycling(n, k, e, delays, q, Len(q))
               PROVE  Cycling(n, k, e, delays, <<>>, 0)
  BY DEF Taking, Cycle
<1>2. Len(q) \in Nat /\ Len(<<>>) = 0 /\ Len(q) - Len(q) = 0
  BY EmptySeq
<1>3. Due(n, k, <<>>, 0) = Due(n, k, q, Len(q))
  BY <1>2 DEF Due
<1>4. Ends(n, k, q, Len(q)) => Ends(n, k, <<>>, 0)
  BY <1>2 DEF Ends
<1>5. Counting(n, k, e, delays, q, Len(q)) => Counting(n, k, e, delays, <<>>, 0)
  <2>1. \A i \in 0 + 1 .. Len(<<>>) : <<>>[i] = "end"
    BY <1>2
  <2>2. Idle(n, k, e, delays, q, Len(q)) => Idle(n, k, e, delays, <<>>, 0)
    BY <1>3 DEF Idle
  <2>3. Busy(n, k, e, delays, q, Len(q)) => Busy(n, k, e, delays, <<>>, 0)
    BY <1>3 DEF Busy
  <2>4. QED
    BY <2>1, <2>2, <2>3 DEF Counting
<1>6. QED
  BY <1>1, <1>4, <1>5 DEF Cycling

-------------------------------------------------------------------------------
(* The callbacks.                                                           *)
Reading(s, c) == s.events[s.conn[c].fd].r = "readable"

LEMMA ReadableLeaves ==
  ASSUME cfg \in Configs, NEW s \in Members, NEW c \in Conn, Held(s, c), Living(s, c),
         Reading(s, c), Cycle(s, c), NEW t \in socket_readable(s, c)
  PROVE  Leaves(s, t, c)
<1> DEFINE f == s.conn[c].fd
           k == IF Open(s, f) THEN s.socket[f] ELSE Closed
           taken(n) == [s EXCEPT !.socket[f].in = SubSeq(@, n + 1, Len(@))]
           ends(r) == IF r.error THEN reconnect_socket(r.s, c) ELSE {r.s}
           read(n) == UNION {ends(r) : r \in Execute(taken(n), c, SubSeq(k.in, 1, n))}
<1>5. Apart(s, s, c)
  BY ApartSame
<1>6. f \in Fd /\ k = s.socket[f] /\ k \in SocketOf
  BY LivingIs
<1>7. s.events[f].r = "readable"
  BY DEF Reading
<1> HIDE DEF k, taken, ends, read
<1>1. CASE k.in # <<>>
  <2>2. t \in UNION {read(n) : n \in 1 .. Len(k.in)}
    BY <1>1 DEF socket_readable, k, taken, ends, read
  <2>13. PICK n \in 1 .. Len(k.in) : t \in read(n)
    BY <2>2
  <2>14. PICK u : u = taken(n)
    OBVIOUS
  <2>3. PICK r \in Execute(u, c, SubSeq(k.in, 1, n)) : t \in ends(r)
    BY <2>13, <2>14 DEF read
  <2>4. k.in \in Seq(Token)
    BY <1>6 DEF SocketOf
  <2>5. SubSeq(k.in, 1, n) \in Seq(Token) /\ SubSeq(k.in, n + 1, Len(k.in)) \in Seq(Token)
    <3>1. Len(k.in) \in Nat /\ n \in Nat /\ 1 <= n /\ n <= Len(k.in)
      BY <2>13, <2>4
    <3>2. \A i \in 1 .. Len(k.in) : k.in[i] \in Token
      BY <2>4
    <3>3. \A i \in 1 .. n : k.in[i] \in Token
      BY <3>1, <3>2
    <3>4. \A i \in n + 1 .. Len(k.in) : k.in[i] \in Token
      BY <3>1, <3>2
    <3>5. QED
      BY <2>4, <3>1, <3>3, <3>4, SubSeqProperties
  <2>6. PICK m : m = [k EXCEPT !.in = SubSeq(k.in, n + 1, Len(k.in))]
    OBVIOUS
  <2>7. m \in SocketOf /\ m.owner = k.owner
    BY <1>6, <2>5, <2>6 DEF SocketOf
  <2>8. u = WithSocket(s, f, m)
    BY <1>6, <2>14, <2>6 DEF WithSocket, taken
  <2>9. Local(s, u, c) /\ u.socket[f] = m /\ u.conn = s.conn /\ u.events = s.events
    BY <1>6, <2>7, <2>8, SocketLocal
  <2>10. u \in Members /\ Held(u, c) /\ Apart(s, u, c)
    BY <2>9, LocalIsApart DEF Local, Kept
  <2>15. PICK q \in Seq(Token) : q = SubSeq(k.in, 1, n)
    BY <2>5
  <2>11. Taking(u, c, q, 0)
    <3>1. m.in = SubSeq(k.in, n + 1, Len(k.in)) /\ m.owed = k.owed /\ m.fin = k.fin
          /\ m.closing = k.closing /\ m.used = k.used /\ m.early = k.early
          /\ m.haunted = k.haunted
      BY <1>6, <2>6 DEF SocketOf
    <3>2. Usual(m) => Usual(k)
      BY <3>1 DEF Usual
    <3>3. ASSUME Usual(m)
          PROVE  Cycling(s.conn[c], m, s.events[f], Delays(s, c), q, 0)
      <4>1. ~Connecting(k, s.events[f], Delays(s, c))
        BY <1>7 DEF Connecting
      <4>2. Cycling(s.conn[c], k, s.events[f], Delays(s, c), <<>>, 0)
        BY <1>6, <3>2, <3>3, <4>1 DEF Cycle
      <4>3. s.conn[c] \in ConnOf /\ s.events[f] \in EventOf
        BY LivingIs
      <4>4. QED
        BY <1>6, <2>7, <2>13, <2>15, <3>1, <4>2, <4>3, TakenCycles
    <3>4. Delays(u, c) = Delays(s, c)
      BY <2>9, LocalLives
    <3>5. QED
      BY <2>9, <3>3, <3>4 DEF Taking
  <2>12. Took(u, r, c, q, Len(q))
    BY <2>3, <2>10, <2>11, <2>15, ExecuteTakes
  <2>16. r.s \in Members /\ Held(r.s, c) /\ Apart(s, r.s, c)
    BY <2>10, <2>12, ApartAgain DEF Took, Result
  <2>17. CASE r.error
    <3>1. t \in reconnect_socket(r.s, c)
      BY <2>3, <2>17 DEF ends
    <3>2. QED
      BY <2>16, <3>1, ReconnectLeaves
  <2>18. CASE ~r.error
    <3>1. t = r.s
      BY <2>3, <2>18 DEF ends
    <3>4. Taking(t, c, q, Len(q))
      BY <2>12, <2>18, <3>1 DEF Took
    <3>2. Cycle(t, c)
      BY <3>4, TakenIsCycle
    <3>3. QED
      BY <2>16, <3>1, <3>2 DEF Leaves
  <2>19. QED
    BY <2>17, <2>18
<1>2. CASE k.in = <<>> /\ k.fin
  <2>1. PICK u \in ExecuteEof(s, c) : t \in reconnect_socket(u, c)
    BY <1>2 DEF socket_readable, k
  <2>2. u \in Members /\ Held(u, c) /\ Apart(s, u, c)
    <3>1. CASE s.conn[c].parser = "until"
      <4>1. u \in response_complete(s, c, FALSE)
        BY <2>1, <3>1 DEF ExecuteEof
      <4>2. Kept(s, u, c) /\ Apart(s, u, c)
        BY <4>1, CompleteKept, LastTaken
      <4>3. QED
        BY <4>2 DEF Kept
    <3>2. CASE s.conn[c].parser # "until"
      BY <1>5, <2>1, <3>2 DEF ExecuteEof
    <3>3. QED
      BY <3>1, <3>2
  <2>3. QED
    BY <2>1, <2>2, ReconnectLeaves
<1>3. CASE k.in = <<>> /\ ~k.fin
  <2>1. t \in {s} \cup reconnect_socket(s, c)
    BY <1>3 DEF socket_readable, k
  <2>2. CASE t = s
    BY <1>5, <2>2 DEF Leaves
  <2>3. CASE t \in reconnect_socket(s, c)
    BY <1>5, <2>3, ReconnectLeaves
  <2>4. QED
    BY <2>1, <2>2, <2>3
<1>4. QED
  BY <1>1, <1>2, <1>3

Reads(s, t, c, f) ==
  /\ Local(s, t, c) /\ t.conn = s.conn /\ t.socket = s.socket
  /\ Open(s, f) => /\ t.events[f].mask = s.events[f].mask \cup {"R"}
                   /\ t.events[f].r = "readable"

LEMMA ReadLocal ==
  ASSUME NEW s \in Members, NEW c \in Conn, NEW f, f = s.conn[c].fd,
         NEW t, t = aeCreateFileEvent(s, f, {"R"}, "readable", c)
  PROVE  Reads(s, t, c, f)
<1>1. PICK mask \in SUBSET Mask : mask = {"R"}
  BY DEF Mask
<1>2. "R" \in mask /\ "W" \notin mask
  BY <1>1
<1>3. t = aeCreateFileEvent(s, f, mask, "readable", c)
  BY <1>1
<1>4. "readable" \in {"connected", "readable"}
  OBVIOUS
<1>5. /\ Local(s, t, c) /\ t.conn = s.conn /\ t.socket = s.socket
      /\ Open(s, f) => /\ t.events[f].mask = s.events[f].mask \cup mask
                       /\ t.events[f].r = IF "R" \in mask THEN "readable" ELSE s.events[f].r
                       /\ t.events[f].w = IF "W" \in mask THEN "readable" ELSE s.events[f].w
  BY <1>2, <1>3, <1>4, CreateLocal
<1>6. QED
  BY <1>1, <1>2, <1>5 DEF Reads

(* The number of a connection, by name.                                     *)
Numbered(s, c, f) == f = s.conn[c].fd

WithStart(s, c) == [s EXCEPT !.conn[c].parser = "start", !.conn[c].written = 0]

Connects(s, t, c, f) ==
  /\ Local(s, t, c) /\ t.socket = s.socket
  /\ t.conn[c].parser = "start" /\ t.conn[c].written = 0
  /\ Open(s, f) => /\ t.events[f].mask = s.events[f].mask \cup Mask
                   /\ t.events[f].r = "readable" /\ t.events[f].w = "writeable"

LEMMA BothLocal ==
  ASSUME NEW s \in Members, NEW c \in Conn, NEW f, Numbered(s, c, f),
         NEW v, v = WithStart(s, c),
         NEW t, t = aeCreateFileEvent(aeCreateFileEvent(v, f, {"R"}, "readable", c),
                                      f, {"W"}, "writeable", c)
  PROVE  Connects(s, t, c, f)
<1>0. f = s.conn[c].fd
  BY DEF Numbered
<1>1. PICK k : k = [s.conn[c] EXCEPT !.parser = "start", !.written = 0]
  OBVIOUS
<1>2. s.conn[c] \in ConnOf
  BY DEF Members
<1>3. k \in ConnOf /\ SameSocket(k, s.conn[c])
  BY <1>1, <1>2 DEF ConnOf, Parser, SameSocket
<1>4. k.parser = "start" /\ k.written = 0
  BY <1>1, <1>2 DEF ConnOf
<1>5. v = WithConn(s, c, k)
  BY <1>1 DEF WithConn, WithStart
<1>6. Local(s, v, c) /\ v.conn[c] = k /\ v.events = s.events /\ v.socket = s.socket
  BY <1>3, <1>5, ConnLocal
<1>7. v \in Members /\ f = v.conn[c].fd
  BY <1>0, <1>6 DEF Local
<1>8. PICK u : u = aeCreateFileEvent(v, f, {"R"}, "readable", c)
  OBVIOUS
<1>9. Reads(v, u, c, f)
  BY <1>7, <1>8, ReadLocal
<1>10. u \in Members /\ f = u.conn[c].fd
  BY <1>7, <1>9 DEF Local, Reads
<1>11. Writes(u, t, c, f)
  BY <1>8, <1>10, WriteLocal
<1>12. Local(s, t, c)
  BY <1>6, <1>9, <1>11, LocalAgain DEF Reads, Writes
<1>13. t.socket = s.socket /\ t.conn[c] = k
  BY <1>6, <1>9, <1>11 DEF Reads, Writes
<1>14. ASSUME Open(s, f)
       PROVE  /\ t.events[f].mask = s.events[f].mask \cup Mask
              /\ t.events[f].r = "readable" /\ t.events[f].w = "writeable"
  <2>1. Open(v, f) /\ Open(u, f)
    BY <1>6, <1>9, <1>14 DEF Open, Reads
  <2>2. QED
    BY <1>6, <1>9, <1>11, <2>1 DEF Reads, Writes, Mask
<1>15. QED
  BY <1>4, <1>12, <1>13, <1>14 DEF Connects

LEMMA ConnectedLeaves ==
  ASSUME cfg \in Configs, NEW s \in Members, NEW c \in Conn, Held(s, c), Living(s, c),
         NEW f, Numbered(s, c, f), s.events[f].r = "connected" \/ s.events[f].w = "connected",
         Cycle(s, c), NEW t \in socket_connected(s, c, f)
  PROVE  Leaves(s, t, c)
<1>0. f = s.conn[c].fd
  BY DEF Numbered
<1>1. PICK v : v = WithStart(s, c)
  OBVIOUS
<1>2. PICK x : x = aeCreateFileEvent(aeCreateFileEvent(v, f, {"R"}, "readable", c),
                                     f, {"W"}, "writeable", c)
  OBVIOUS
<1>3. t \in {x, s} \cup reconnect_socket(s, c)
  BY <1>1, <1>2 DEF socket_connected, WithStart
<1>4. Apart(s, s, c)
  BY ApartSame
<1>5. CASE t = s
  BY <1>4, <1>5 DEF Leaves
<1>6. CASE t \in reconnect_socket(s, c)
  BY <1>4, <1>6, ReconnectLeaves
<1>7. CASE t = x
  <2>1. Connects(s, t, c, f)
    BY <1>1, <1>2, <1>7, BothLocal
  <2>2. Local(s, t, c) /\ t.socket = s.socket
    BY <2>1 DEF Connects
  <2>3. t \in Members /\ Held(t, c) /\ Apart(s, t, c)
    BY <2>2, LocalIsApart DEF Local, Kept
  <2>4. Living(t, c) /\ t.conn[c].fd = f /\ Delays(t, c) = Delays(s, c) /\ Open(s, f)
    BY <1>0, <2>2, LocalLives, LivingIs
  <2>5. ASSUME Usual(s.socket[f])
        PROVE  Cycling(t.conn[c], s.socket[f], t.events[f], Delays(s, c), <<>>, 0)
    <3>1. Connecting(s.socket[f], s.events[f], Delays(s, c))
      BY <1>0, <2>5 DEF Cycle, Cycling
    <3>2. PICK m \in ConnOf : m = t.conn[c]
      BY <2>3 DEF Members
    <3>3. m.parser = "start" /\ m.written = 0
      BY <2>1, <3>2 DEF Connects
    <3>4. PICK k \in SocketOf : k = s.socket[f]
      BY <1>0, LivingIs
    <3>5. PICK e \in EventOf : e = s.events[f]
      BY <1>0, LivingIs
    <3>6. PICK d \in EventOf : d = t.events[f]
      BY <2>3, <2>4, LivingIs
    <3>7. d.mask = Mask /\ d.r = "readable" /\ d.w = "writeable"
      BY <2>1, <2>4, <3>1, <3>6 DEF Connects, Connecting
    <3>8. Cycling(m, k, d, Delays(s, c), <<>>, 0)
      BY <3>1, <3>3, <3>4, <3>5, <3>7, ConnectedCycles
    <3>9. QED
      BY <3>2, <3>4, <3>6, <3>8
  <2>6. Cycle(t, c)
    BY <2>2, <2>4, <2>5 DEF Cycle
  <2>7. QED
    BY <2>3, <2>6 DEF Leaves
<1>8. QED
  BY <1>3, <1>5, <1>6, <1>7

(* The delay begins.                                                        *)
LEMMA DelayLeaves ==
  ASSUME NEW s \in Members, NEW c \in Conn, Held(s, c), Living(s, c),
         NEW f, Numbered(s, c, f), s.events[f].w = "writeable", "W" \in s.events[f].mask,
         Cycle(s, c), s.conn[c].delayed,
         NEW u, u = aeDeleteFileEvent(s, f, {"W"}), NEW t, t = aeCreateTimeEvent(u, c)
  PROVE  Leaves(s, t, c)
<1>0. f = s.conn[c].fd
  BY DEF Numbered
<1>1. PICK mask : mask = {"W"}
  OBVIOUS
<1>2. Deletes(s, u, c, f, mask)
  BY <1>0, <1>1, DeleteLocal
<1>3. Local(s, u, c) /\ u.conn = s.conn /\ u.socket = s.socket
  BY <1>2 DEF Deletes
<1>4. u \in Members /\ Held(u, c) /\ Apart(s, u, c)
  BY <1>3, LocalIsApart DEF Local, Kept
<1>5. /\ t.conn = u.conn /\ t.socket = u.socket /\ t.events = u.events
      /\ Apart(u, t, c)
      /\ Delays(u, c) = "none" => Delays(t, c) = "one"
  BY <1>4, TimerApart
<1>6. t \in Members /\ Held(t, c)
  BY <1>4, TimerKept DEF Kept
<1>7. Delays(u, c) = Delays(s, c)
  BY <1>3, LocalLives
<1>8. ASSUME Usual(s.socket[f])
      PROVE  Cycling(s.conn[c], s.socket[f], t.events[f], Delays(t, c), <<>>, 0)
  <2>1. Cycling(s.conn[c], s.socket[f], s.events[f], Delays(s, c), <<>>, 0)
    BY <1>0, <1>8 DEF Cycle, Connecting
  <2>2. PICK n \in ConnOf : n = s.conn[c]
    BY LivingIs
  <2>3. PICK k \in SocketOf : k = s.socket[f]
    BY <1>0, LivingIs
  <2>4. PICK e \in EventOf : e = s.events[f]
    BY <1>0, LivingIs
  <2>5. f \in Fd /\ t.events[f] \in EventOf
    BY <1>0, <1>6, LivingIs DEF Members
  <2>6. PICK d \in EventOf : d = t.events[f]
    BY <2>5
  <2>7. d.mask = e.mask \ {"W"} /\ d.r = e.r /\ d.w = e.w
    BY <1>1, <1>2, <1>5, <2>4, <2>5, <2>6 DEF Deletes
  <2>8. Cycling(n, k, d, Delays(t, c), <<>>, 0)
    BY <1>5, <1>7, <2>1, <2>2, <2>3, <2>4, <2>6, <2>7, DelayCycles
  <2>9. QED
    BY <2>2, <2>3, <2>6, <2>8
<1>9. Cycle(t, c)
  BY <1>0, <1>3, <1>5, <1>8 DEF Cycle
<1>10. QED
  BY <1>4, <1>5, <1>6, <1>9, ApartAgain DEF Leaves

(* A write.                                                                 *)
Sends(s, t, c, f, n) ==
  /\ Local(s, t, c) /\ t.events = s.events
  /\ t.conn[c].written = s.conn[c].written + n
  /\ t.conn[c].parser = s.conn[c].parser
  /\ t.conn[c].pending = s.conn[c].pending
  /\ t.conn[c].delayed = s.conn[c].delayed
  /\ t.socket[f].owed = s.socket[f].owed
                          + ((s.conn[c].written + n) \div 2 - s.conn[c].written \div 2)
  /\ t.socket[f].used
  /\ t.socket[f].in = s.socket[f].in
  /\ t.socket[f].fin = s.socket[f].fin
  /\ t.socket[f].closing = s.socket[f].closing
  /\ t.socket[f].early = s.socket[f].early
  /\ t.socket[f].haunted = s.socket[f].haunted

LEMMA SentLocal ==
  ASSUME NEW s \in Members, NEW c \in Conn, NEW f \in Fd, Numbered(s, c, f), NEW i \in Nat,
         NEW t, t = Sent(s, c, f, i)
  PROVE  Sends(s, t, c, f, i)
<1>0. f = s.conn[c].fd
  BY DEF Numbered
<1>1. s.conn[c] \in ConnOf /\ s.socket[f] \in SocketOf
  BY DEF Members
<1>2. PICK w \in Nat : w = s.conn[c].written
  BY <1>1 DEF ConnOf
<1>3. PICK k : k = [s.conn[c] EXCEPT !.written = w + i]
  OBVIOUS
<1>4. k \in ConnOf /\ SameSocket(k, s.conn[c])
  <2>1. w + i \in Nat
    OBVIOUS
  <2>2. QED
    BY <1>1, <1>3, <2>1 DEF ConnOf, SameSocket
<1>5. /\ k.written = w + i /\ k.parser = s.conn[c].parser
      /\ k.pending = s.conn[c].pending /\ k.delayed = s.conn[c].delayed
  BY <1>1, <1>3 DEF ConnOf
<1>6. PICK u : u = WithConn(s, c, k)
  OBVIOUS
<1>7. Local(s, u, c) /\ u.conn[c] = k /\ u.events = s.events /\ u.socket = s.socket
  BY <1>4, <1>6, ConnLocal
<1>8. PICK a \in Int : a = s.socket[f].owed
  BY <1>1 DEF SocketOf
<1>9. PICK o \in Int : o = a + (w + i) \div 2 - w \div 2
  OBVIOUS
<1>10. PICK l : l = [s.socket[f] EXCEPT !.used = TRUE, !.owed = o]
  OBVIOUS
<1>11. l \in SocketOf /\ l.owner = s.socket[f].owner
  BY <1>1, <1>10 DEF SocketOf
<1>12. /\ l.owed = o /\ l.used /\ l.in = s.socket[f].in /\ l.fin = s.socket[f].fin
       /\ l.closing = s.socket[f].closing /\ l.early = s.socket[f].early
       /\ l.haunted = s.socket[f].haunted
  BY <1>1, <1>10 DEF SocketOf
<1>13. o = a + ((w + i) \div 2 - w \div 2)
  BY <1>9
<1>14. t = WithSocket(u, f, l)
  <2>1. u = [s EXCEPT !.conn[c].written = w + i]
    BY <1>3, <1>6 DEF WithConn
  <2>2. PICK p : p = [s.socket[f] EXCEPT !.used = TRUE,
                                         !.owed = @ + (w + i) \div 2 - w \div 2]
    OBVIOUS
  <2>3. u.socket = s.socket
    BY <2>1 DEF Members
  <2>4. PICK y : y = [u EXCEPT !.socket[f] = p]
    OBVIOUS
  <2>5. t = y
    BY <1>1, <1>2, <2>1, <2>2, <2>3, <2>4 DEF Sent, Members
  <2>6. p = l
    BY <1>1, <1>8, <1>9, <1>10, <2>2 DEF SocketOf
  <2>7. QED
    BY <2>4, <2>5, <2>6 DEF WithSocket
<1>15. Local(u, t, c) /\ t.socket[f] = l /\ t.conn = u.conn /\ t.events = u.events
  <2>1. u \in Members /\ f = u.conn[c].fd
    BY <1>0, <1>7 DEF Local
  <2>2. l.owner = u.socket[f].owner
    BY <1>7, <1>11
  <2>3. QED
    BY <1>11, <1>14, <2>1, <2>2, SocketLocal
<1>16. Local(s, t, c)
  BY <1>7, <1>15, LocalAgain
<1>17. QED
  BY <1>2, <1>5, <1>7, <1>8, <1>12, <1>13, <1>15, <1>16 DEF Sends

WithBegun(s, c) ==
  IF s.conn[c].written # 0 THEN s ELSE [s EXCEPT !.conn[c].pending = cfg.pipeline]

LEMMA BegunLocal ==
  ASSUME cfg \in Configs, NEW s \in Members, NEW c \in Conn, NEW t, t = WithBegun(s, c)
  PROVE  /\ Local(s, t, c) /\ t.socket = s.socket /\ t.events = s.events
         /\ t.conn[c].pending = IF s.conn[c].written # 0 THEN s.conn[c].pending ELSE cfg.pipeline
         /\ t.conn[c].delayed = s.conn[c].delayed
         /\ t.conn[c].written = s.conn[c].written
         /\ t.conn[c].parser = s.conn[c].parser
<1>1. CASE s.conn[c].written # 0
  BY <1>1, LocalSame DEF WithBegun
<1>2. CASE s.conn[c].written = 0
  <2>1. PICK k : k = [s.conn[c] EXCEPT !.pending = cfg.pipeline]
    OBVIOUS
  <2>2. s.conn[c] \in ConnOf /\ cfg.pipeline \in Int
    BY ConfigIs DEF Members
  <2>3. k \in ConnOf /\ SameSocket(k, s.conn[c])
    BY <2>1, <2>2 DEF ConnOf, SameSocket
  <2>4. /\ k.pending = cfg.pipeline /\ k.delayed = s.conn[c].delayed
        /\ k.written = s.conn[c].written /\ k.parser = s.conn[c].parser
    BY <2>1, <2>2 DEF ConnOf
  <2>5. t = WithConn(s, c, k)
    BY <1>2, <2>1 DEF WithConn, WithBegun
  <2>6. Local(s, t, c) /\ t.conn[c] = k /\ t.events = s.events /\ t.socket = s.socket
    BY <2>3, <2>5, ConnLocal
  <2>7. QED
    BY <1>2, <2>4, <2>6
<1>3. QED
  BY <1>1, <1>2

(* A write of i units, in full or in part.                                  *)
Wrote(s, c, f, i) ==
  LET x == Sent(WithBegun(s, c), c, f, i)
  IN  IF x.conn[c].written # Length THEN x
      ELSE aeDeleteFileEvent([x EXCEPT !.conn[c].written = 0], f, {"W"})

LEMMA WrittenLeaves ==
  ASSUME cfg \in Configs, NEW s \in Members, NEW c \in Conn, Held(s, c), Living(s, c),
         NEW f, Numbered(s, c, f), s.events[f].w = "writeable", "W" \in s.events[f].mask,
         Cycle(s, c), ~s.conn[c].delayed,
         NEW i \in 1 .. (Length - s.conn[c].written),
         NEW t, t = Wrote(s, c, f, i)
  PROVE  Leaves(s, t, c)
<1>0. f = s.conn[c].fd
  BY DEF Numbered
<1>1. PICK u : u = WithBegun(s, c)
  OBVIOUS
<1>2. /\ Local(s, u, c) /\ u.socket = s.socket /\ u.events = s.events
      /\ u.conn[c].pending = IF s.conn[c].written # 0 THEN s.conn[c].pending ELSE cfg.pipeline
      /\ u.conn[c].delayed = s.conn[c].delayed
      /\ u.conn[c].written = s.conn[c].written
      /\ u.conn[c].parser = s.conn[c].parser
  BY <1>1, BegunLocal
<1>3. u \in Members /\ f = u.conn[c].fd /\ f \in Fd
  BY <1>0, <1>2, LivingIs DEF Local
<1>4. PICK w \in Nat : w = s.conn[c].written
  BY DEF Members, ConnOf
<1>5. i \in Nat /\ Length \in Nat
  <2>1. cfg.pipeline \in Nat
    BY ConfigIs
  <2>2. Length \in Nat
    BY <2>1 DEF Length
  <2>3. QED
    BY <1>4, <2>2
<1>6. PICK x : x = Sent(u, c, f, i)
  OBVIOUS
<1>7. Sends(u, x, c, f, i)
  BY <1>3, <1>5, <1>6, SentLocal DEF Numbered
<1>8. PICK y : y = [x EXCEPT !.conn[c].written = 0]
  OBVIOUS
<1>9. x \in Members /\ f = x.conn[c].fd
  BY <1>3, <1>7 DEF Sends, Local
<1>10. /\ Local(x, y, c) /\ y.events = x.events /\ y.socket = x.socket
       /\ y.conn[c].written = 0 /\ y.conn[c].parser = x.conn[c].parser
       /\ y.conn[c].pending = x.conn[c].pending /\ y.conn[c].delayed = x.conn[c].delayed
  <2>1. PICK k : k = [x.conn[c] EXCEPT !.written = 0]
    OBVIOUS
  <2>2. x.conn[c] \in ConnOf
    BY <1>9 DEF Members
  <2>3. k \in ConnOf /\ SameSocket(k, x.conn[c])
    BY <2>1, <2>2 DEF ConnOf, SameSocket
  <2>4. /\ k.written = 0 /\ k.parser = x.conn[c].parser
        /\ k.pending = x.conn[c].pending /\ k.delayed = x.conn[c].delayed
    BY <2>1, <2>2 DEF ConnOf
  <2>5. y = WithConn(x, c, k)
    BY <1>8, <2>1 DEF WithConn
  <2>6. Local(x, y, c) /\ y.conn[c] = k /\ y.events = x.events /\ y.socket = x.socket
    BY <1>9, <2>3, <2>5, ConnLocal
  <2>7. QED
    BY <2>4, <2>6
<1>11. y \in Members /\ f = y.conn[c].fd
  BY <1>9, <1>10 DEF Local
<1>12. PICK mask : mask = {"W"}
  OBVIOUS
<1>13. PICK z : z = aeDeleteFileEvent(y, f, mask)
  OBVIOUS
<1>14. Deletes(y, z, c, f, mask)
  BY <1>11, <1>13, DeleteLocal
<1>15. t = IF w + i # Length THEN x ELSE z
  <2>1. x.conn[c].written = w + i
    BY <1>2, <1>4, <1>7 DEF Sends
  <2>2. t = IF x.conn[c].written # Length THEN x ELSE z
    BY <1>1, <1>6, <1>8, <1>12, <1>13 DEF Wrote
  <2>3. QED
    BY <2>1, <2>2
<1>16. Local(s, x, c)
  BY <1>2, <1>7, LocalAgain DEF Sends
<1>17. Local(s, z, c)
  BY <1>10, <1>14, <1>16, LocalAgain DEF Deletes
<1>18. Local(s, t, c)
  BY <1>15, <1>16, <1>17
<1>19. t \in Members /\ Held(t, c) /\ Apart(s, t, c)
  BY <1>18, LocalIsApart DEF Local, Kept
<1>20. Living(t, c) /\ t.conn[c].fd = f /\ Delays(t, c) = Delays(s, c)
  BY <1>0, <1>18, LocalLives
<1>21. t.socket = x.socket
  BY <1>10, <1>14, <1>15 DEF Deletes
<1>22. ASSUME Usual(t.socket[f])
       PROVE  Cycling(t.conn[c], t.socket[f], t.events[f], Delays(s, c), <<>>, 0)
  <2>1. PICK n \in ConnOf : n = s.conn[c]
    BY LivingIs
  <2>2. PICK k \in SocketOf : k = s.socket[f]
    BY <1>0, LivingIs
  <2>3. PICK e \in EventOf : e = s.events[f]
    BY <1>0, LivingIs
  <2>4. PICK m \in ConnOf : m = t.conn[c]
    BY <1>19, <1>20, LivingIs
  <2>5. PICK l \in SocketOf : l = t.socket[f]
    BY <1>19, <1>20, LivingIs
  <2>6. PICK d \in EventOf : d = t.events[f]
    BY <1>19, <1>20, LivingIs
  <2>7. /\ l.owed = k.owed + ((w + i) \div 2 - w \div 2) /\ l.used
        /\ l.in = k.in /\ l.fin = k.fin /\ l.closing = k.closing
        /\ l.early = k.early /\ l.haunted = k.haunted
    BY <1>2, <1>4, <1>7, <1>21, <2>2, <2>5 DEF Sends
  <2>8. Cycling(n, k, e, Delays(s, c), <<>>, 0)
    <3>1. Usual(k)
      BY <1>22, <2>5, <2>7 DEF Usual
    <3>2. QED
      BY <1>0, <2>1, <2>2, <2>3, <3>1 DEF Cycle, Connecting
  <2>9. /\ m.pending = IF w # 0 THEN n.pending ELSE cfg.pipeline
        /\ m.delayed = n.delayed /\ m.parser = n.parser
        /\ m.written = IF w + i = Length THEN 0 ELSE w + i
    <3>1. /\ x.conn[c].pending = IF w # 0 THEN n.pending ELSE cfg.pipeline
          /\ x.conn[c].delayed = n.delayed /\ x.conn[c].parser = n.parser
          /\ x.conn[c].written = w + i
      BY <1>2, <1>4, <1>7, <2>1 DEF Sends
    <3>2. CASE w + i # Length
      BY <1>15, <2>4, <3>1, <3>2
    <3>3. CASE w + i = Length
      <4>1. t = z /\ z.conn = y.conn
        BY <1>14, <1>15, <3>3 DEF Deletes
      <4>2. QED
        BY <1>10, <2>4, <3>1, <3>3, <4>1
    <3>4. QED
      BY <3>2, <3>3
  <2>10. /\ d.mask = IF w + i = Length THEN e.mask \ {"W"} ELSE e.mask
         /\ d.r = e.r /\ d.w = e.w
    <3>1. x.events = s.events
      BY <1>2, <1>7 DEF Sends
    <3>2. CASE w + i # Length
      BY <1>15, <2>3, <2>6, <3>1, <3>2
    <3>3. CASE w + i = Length
      BY <1>3, <1>10, <1>12, <1>14, <1>15, <2>3, <2>6, <3>1, <3>3 DEF Deletes
    <3>4. QED
      BY <3>2, <3>3
  <2>11. w = n.written /\ ~n.delayed /\ "W" \in e.mask /\ i \in 1 .. Length - n.written
    BY <1>4, <2>1, <2>3
  <2>12. Cycling(m, l, d, Delays(s, c), <<>>, 0)
    BY <2>7, <2>8, <2>9, <2>10, <2>11, WrittenCycles
  <2>13. QED
    BY <2>4, <2>5, <2>6, <2>12
<1>23. Cycle(t, c)
  BY <1>20, <1>22 DEF Cycle
<1>24. QED
  BY <1>19, <1>23 DEF Leaves

Writing(s, f) == s.events[f].w = "writeable" /\ "W" \in s.events[f].mask

LEMMA WriteableLeaves ==
  ASSUME cfg \in Configs, NEW s \in Members, NEW c \in Conn, Held(s, c), Living(s, c),
         NEW f, Numbered(s, c, f), Writing(s, f), Cycle(s, c), NEW t \in socket_writeable(s, c, f)
  PROVE  Leaves(s, t, c)
<1>0. f = s.conn[c].fd
  BY DEF Numbered
<1>1. CASE s.conn[c].delayed
  <2>1. PICK u : u = aeDeleteFileEvent(s, f, {"W"})
    OBVIOUS
  <2>2. t = aeCreateTimeEvent(u, c)
    BY <1>1, <2>1 DEF socket_writeable
  <2>3. QED
    BY <1>1, <2>1, <2>2, DelayLeaves DEF Writing
<1>2. CASE ~s.conn[c].delayed
  <2> DEFINE begun == IF s.conn[c].written # 0 THEN s
                      ELSE [s EXCEPT !.conn[c].pending = cfg.pipeline]
             written(n) ==
               LET x == Sent(begun, c, f, n)
               IN  IF x.conn[c].written # Length THEN x
                   ELSE aeDeleteFileEvent([x EXCEPT !.conn[c].written = 0], f, {"W"})
  <2>1. PICK u : u = WithBegun(s, c) /\ u = begun
    BY DEF WithBegun
  <2> HIDE DEF begun, written
  <2>2. /\ Local(s, u, c) /\ u.socket = s.socket /\ u.events = s.events
        /\ u.conn[c].pending = IF s.conn[c].written # 0 THEN s.conn[c].pending ELSE cfg.pipeline
        /\ u.conn[c].delayed = s.conn[c].delayed
        /\ u.conn[c].written = s.conn[c].written
        /\ u.conn[c].parser = s.conn[c].parser
    BY <2>1, BegunLocal
  <2>3. u \in Members /\ Held(u, c) /\ Apart(s, u, c)
    BY <2>2, LocalIsApart DEF Local, Kept
  <2>4. CASE t = u
    <3>1. Living(u, c) /\ u.conn[c].fd = f /\ Delays(u, c) = Delays(s, c)
      BY <1>0, <2>2, LocalLives
    <3>2. ASSUME Usual(s.socket[f])
          PROVE  Cycling(u.conn[c], s.socket[f], s.events[f], Delays(s, c), <<>>, 0)
      <4>1. PICK n \in ConnOf : n = s.conn[c]
        BY LivingIs
      <4>2. PICK m \in ConnOf : m = u.conn[c]
        BY <2>3, <3>1, LivingIs
      <4>3. PICK k \in SocketOf : k = s.socket[f]
        BY <1>0, LivingIs
      <4>4. PICK e \in EventOf : e = s.events[f]
        BY <1>0, LivingIs
      <4>5. Cycling(n, k, e, Delays(s, c), <<>>, 0)
        BY <1>0, <3>2, <4>1, <4>3, <4>4 DEF Cycle, Connecting, Writing
      <4>6. ~n.delayed /\ "W" \in e.mask
        BY <1>2, <4>1, <4>4 DEF Writing
      <4>7. /\ m.pending = IF n.written # 0 THEN n.pending ELSE cfg.pipeline
            /\ m.delayed = n.delayed /\ m.written = n.written /\ m.parser = n.parser
        BY <2>2, <4>1, <4>2
      <4>8. Cycling(m, k, e, Delays(s, c), <<>>, 0)
        BY <4>5, <4>6, <4>7, BegunCycles
      <4>9. QED
        BY <4>2, <4>3, <4>4, <4>8
    <3>3. Cycle(u, c)
      BY <2>2, <3>1, <3>2 DEF Cycle
    <3>4. QED
      BY <2>3, <2>4, <3>3 DEF Leaves
  <2>5. CASE \E n \in 1 .. (Length - s.conn[c].written) : t = written(n)
    <3>1. PICK n \in 1 .. (Length - s.conn[c].written) : t = written(n)
      BY <2>5
    <3>2. t = Wrote(s, c, f, n)
      BY <2>1, <3>1 DEF Wrote, written
    <3>3. QED
      BY <1>2, <3>1, <3>2, WrittenLeaves DEF Writing
  <2>6. CASE t \in reconnect_socket(u, c)
    BY <2>3, <2>6, ReconnectLeaves
  <2>7. \/ t = u \/ t \in reconnect_socket(u, c)
        \/ t \in {written(n) : n \in 1 .. (Length - s.conn[c].written)}
    <3>1. CASE Open(s, f) /\ s.socket[f].net = "up"
      <4>1. t \in {begun} \cup {written(n) : n \in 1 .. (Length - s.conn[c].written)}
        BY <1>0, <1>2, <3>1 DEF socket_writeable, begun, written
      <4>2. QED
        BY <2>1, <4>1
    <3>2. CASE Open(s, f) /\ s.socket[f].net = "connecting"
      <4>1. t = begun
        BY <1>0, <1>2, <3>2 DEF socket_writeable, begun, written
      <4>2. QED
        BY <2>1, <4>1
    <3>3. CASE ~(Open(s, f) /\ s.socket[f].net \in {"connecting", "up"})
      <4>1. t \in reconnect_socket(begun, c)
        BY <1>0, <1>2, <3>3 DEF socket_writeable, begun, written
      <4>2. QED
        BY <2>1, <4>1
    <3>4. QED
      BY <3>1, <3>2, <3>3
  <2>8. QED
    BY <2>4, <2>5, <2>6, <2>7
<1>3. QED
  BY <1>1, <1>2

-------------------------------------------------------------------------------
(* The steps of the thread and of the server.                               *)
Cycles(s) == \A c \in Conn : Cycle(s, c)

CycleInv == ThreadInv /\ (~crossed => Cycles(Now))

LEMMA LeftCycles ==
  ASSUME NEW s, NEW t, NEW c, Apart(s, t, c), Cycles(s), c \in Conn => Cycle(t, c)
  PROVE  Cycles(t)
<1>1. ASSUME NEW d \in Conn PROVE Cycle(t, d)
  <2>1. CASE d = c
    BY <2>1
  <2>2. CASE d # c
    <3>1. Cycle(s, d)
      BY DEF Cycles
    <3>2. QED
      BY <2>2, <3>1, ApartCycles
  <2>3. QED
    BY <2>1, <2>2
<1>2. QED
  BY <1>1 DEF Cycles

(* What the script asks for never changes.                                  *)
LEMMA CyclesLast ==
  ASSUME NEW s, cfg' = cfg, Cycles(s)
  PROVE  Cycles(s)'
<1>1. Length' = Length
  BY DEF Length
<1>2. \A w : Outstanding(w)' = Outstanding(w)
  BY <1>1 DEF Outstanding
<1>3. \A n, k, q, j : Due(n, k, q, j)' = Due(n, k, q, j)
  BY <1>2 DEF Due
<1>4. \A n, k, e, delays, q, j :
        Idle(n, k, e, delays, q, j)' <=> Idle(n, k, e, delays, q, j)
  BY <1>3 DEF Idle
<1>5. \A n, k, e, delays, q, j :
        Busy(n, k, e, delays, q, j)' <=> Busy(n, k, e, delays, q, j)
  BY <1>3 DEF Busy
<1>6. \A n, k, e, delays, q, j :
        Counting(n, k, e, delays, q, j)' <=> Counting(n, k, e, delays, q, j)
  BY <1>1, <1>4, <1>5 DEF Counting
<1>7. \A n, k, e, delays, q, j :
        Cycling(n, k, e, delays, q, j)' <=> Cycling(n, k, e, delays, q, j)
  BY <1>6 DEF Cycling
<1>8. QED
  BY <1>7 DEF Cycles, Cycle

LEMMA CyclesBecome ==
  ASSUME ThreadInv', NEW t \in Members, Becomes(t), cfg' = cfg, ~t.crossed => Cycles(t)
  PROVE  CycleInv'
<1>1. t = [conn |-> t.conn, events |-> t.events, socket |-> t.socket, timers |-> t.timers,
           crossed |-> t.crossed]
  BY DEF Members
<1>2. Now' = t /\ crossed' = t.crossed
  BY <1>1 DEF Becomes, Now
<1>3. ~crossed' => Cycles(t)'
  BY <1>2, CyclesLast
<1>4. ~crossed' => Cycles(Now)'
  BY <1>2, <1>3 DEF Cycles
<1>5. QED
  BY <1>4 DEF CycleInv

LEMMA CyclesStay ==
  ASSUME CycleInv, ThreadInv', UNCHANGED <<members, cfg>>
  PROVE  CycleInv'
<1>1. PICK t \in Members : t = Now
  BY DEF CycleInv, ThreadInv
<1>2. Becomes(t)
  BY <1>1, NowIs DEF members, Becomes
<1>3. ~t.crossed => Cycles(t)
  BY <1>1, NowIs DEF CycleInv
<1>4. QED
  BY <1>2, <1>3, CyclesBecome

LEMMA InitCycles == Init => CycleInv
<1>1. SUFFICES ASSUME Init PROVE CycleInv
  OBVIOUS
<1>2. \A c \in Conn : ~conn[c].opened
  BY <1>1 DEF Init, Unopened
<1>3. Cycles(Now)
  BY <1>2, NowIs DEF Cycles, Cycle, Living
<1>4. QED
  BY <1>1, <1>3, InitIsWired DEF CycleInv

(* No event is left armed on a descriptor that is not open.                 *)
LEMMA ClosedIsQuiet ==
  ASSUME NEW s \in Members, Wired(s), NEW f \in Fd, ~Open(s, f)
  PROVE  s.events[f].mask = {}
<1>1. s.socket[f].owner = None
  BY DEF Open
<1>2. s.events[f].mask # {} => s.events[f].data \in Conn
  BY DEF Members, Armed
<1>3. QED
  BY <1>1, <1>2, WrkAssumption DEF Wired, Linked

LEMMA OpenConnectionCycles ==
  ASSUME CycleInv, NEW c \in Conn, OpenConnection(c)
  PROVE  CycleInv'
<1>1. PICK s \in Members : s = Now
  BY DEF CycleInv, ThreadInv
<1>2. PICK t \in connect_socket(s, c) : Becomes(t)
  BY <1>1 DEF OpenConnection
<1>3. ThreadInv'
  BY OpenConnectionKeeps DEF CycleInv
<1>4. t \in Members /\ t.crossed = s.crossed
  BY ConnectKept
<1>5. ASSUME ~t.crossed PROVE Cycles(t)
  <2>1. Wired(s) /\ Cycles(s)
    BY <1>1, <1>4, <1>5, NowIs DEF CycleInv, ThreadInv
  <2>2. \A d \in Conn \ {c} : HasSocket(s, d)
    BY <2>1 DEF Wired
  <2>3. \A f \in Fd : ~Open(s, f) => s.events[f].mask = {}
    BY <2>1, ClosedIsQuiet
  <2>4. Apart(s, t, c) /\ Fresh(t, c)
    BY <2>2, <2>3, ConnectFresh
  <2>5. Cycle(t, c)
    BY <2>4, FreshCycles
  <2>6. QED
    BY <2>1, <2>4, <2>5, LeftCycles
<1>6. cfg' = cfg
  BY DEF OpenConnection
<1>7. QED
  BY <1>2, <1>3, <1>4, <1>5, <1>6, CyclesBecome

LEMMA EnterLoopCycles ==
  ASSUME CycleInv, EnterLoop
  PROVE  CycleInv'
<1>1. PICK s \in Members : s = Now
  BY DEF CycleInv, ThreadInv
<1>2. PICK t : t = aeCreateTimeEvent(s, Rate)
  OBVIOUS
<1>3. Becomes(t)
  BY <1>1, <1>2 DEF EnterLoop
<1>4. ThreadInv'
  BY EnterLoopKeeps DEF CycleInv
<1>5. t \in Members /\ t.crossed = s.crossed
  BY <1>2, TimerWired
<1>6. ASSUME ~t.crossed PROVE Cycles(t)
  <2>1. Cycles(s)
    BY <1>1, <1>5, <1>6, NowIs DEF CycleInv
  <2>2. Apart(s, t, Rate)
    BY <1>2, TimerApart
  <2>3. QED
    BY <2>1, <2>2, LeftCycles, WrkAssumption
<1>7. cfg' = cfg
  BY DEF EnterLoop
<1>8. QED
  BY <1>3, <1>4, <1>5, <1>6, <1>7, CyclesBecome

(* A connection whose callback runs was not lost.                           *)
Wanted(s, f, c) == s.events[f].mask # {} /\ c = s.events[f].data

LEMMA WantedLives ==
  ASSUME NEW s \in Members, Wired(s), NEW f \in Fd, NEW c, Wanted(s, f, c)
  PROVE  c \in Conn /\ Held(s, c) /\ Living(s, c) /\ f = s.conn[c].fd
<1>1. c \in Conn /\ Held(s, c) /\ f = s.conn[c].fd
  BY WantedIs DEF Wanted
<1>2. s.socket[f].owner = c /\ c # None
  <2>1. s.socket[f].owner = c
    BY DEF Wanted, Wired, Linked
  <2>2. QED
    BY <1>1, <2>1, WrkAssumption
<1>3. QED
  BY <1>1, <1>2 DEF Wired, Linked, Living

LEMMA CallbackCycles ==
  ASSUME CycleInv, ThreadInv', cfg' = cfg, NEW s \in Members, s = Now,
         NEW c \in Conn, NEW t, Becomes(t), t.crossed = s.crossed,
         ~s.crossed => Leaves(s, t, c), t \in Members
  PROVE  CycleInv'
<1>1. ASSUME ~t.crossed PROVE Cycles(t)
  <2>1. Cycles(s) /\ Leaves(s, t, c)
    BY <1>1, NowIs DEF CycleInv
  <2>2. QED
    BY <2>1, LeftCycles DEF Leaves
<1>2. QED
  BY <1>1, CyclesBecome

LEMMA HandleReadableCycles ==
  ASSUME CycleInv, HandleReadable
  PROVE  CycleInv'
<1>1. PICK s \in Members : s = Now
  BY DEF CycleInv, ThreadInv
<1>2. PICK e : e = Head(fired)
  OBVIOUS
<1>3. e \in FiredOf
  BY <1>2, HeadTailProperties DEF CycleInv, ThreadInv, HandleReadable
<1>4. PICK f \in Fd : f = e.fd
  BY <1>3 DEF FiredOf
<1>5. PICK wanted \in BOOLEAN : wanted = ("R" \in events[f].mask)
  <2>1. ("R" \in events[f].mask) \in BOOLEAN
    OBVIOUS
  <2>2. QED
    BY <2>1
<1>6. PICK c : c = events[f].data
  OBVIOUS
<1>7. PICK t \in CASE ~wanted -> {s}
                   [] wanted /\ events[f].r = "connected" -> socket_connected(s, c, f)
                   [] wanted /\ events[f].r = "readable"  -> socket_readable(s, c) :
           Becomes(t)
  BY <1>1, <1>2, <1>4, <1>5, <1>6 DEF HandleReadable
<1>8. ThreadInv' /\ cfg' = cfg /\ cfg \in Configs
  BY HandleReadableKeeps DEF CycleInv, ThreadInv, HandleReadable
<1>9. CASE ~wanted
  <2>1. t = s
    BY <1>7, <1>9
  <2>2. UNCHANGED <<members, cfg>>
    BY <1>1, <1>7, <1>8, <2>1, NowIs DEF Becomes, members
  <2>3. QED
    BY <1>8, <2>2, CyclesStay
<1>10. CASE wanted
  <2>1. s.events[f].mask # {} /\ c = s.events[f].data
    BY <1>1, <1>5, <1>6, <1>10, NowIs
  <2>2. c \in Conn
    BY <2>1, WantedIs
  <2>3. ~s.crossed => /\ Held(s, c) /\ Living(s, c) /\ f = s.conn[c].fd
                      /\ Cycle(s, c)
    <3>1. ~s.crossed => Wired(s) /\ Cycles(s)
      BY <1>1, NowIs DEF CycleInv, ThreadInv
    <3>2. QED
      BY <2>1, <2>2, <3>1, WantedLives DEF Cycles, Wanted
  <2>4. Held(s, c) => f = s.conn[c].fd
    <3>1. Wired(s) => f = s.conn[c].fd
      BY <2>1, WantedIs
    <3>2. QED
      BY <3>1 DEF Held
  <2>5. events[f].r \in {"connected", "readable"} /\ events[f] = s.events[f]
    <3>1. s.events[f] \in EventOf /\ Armed(s.events[f])
      BY DEF Members
    <3>2. QED
      BY <1>1, <1>5, <1>10, <3>1, NowIs DEF EventOf, Armed
  <2>6. CASE events[f].r = "connected"
    <3>1. t \in socket_connected(s, c, f)
      BY <1>7, <1>10, <2>6
    <3>2. t \in Members /\ t.crossed = s.crossed
      BY <2>2, <2>4, <3>1, ConnectedKept DEF Kept
    <3>3. ~s.crossed => Leaves(s, t, c)
      BY <1>8, <2>2, <2>3, <2>5, <2>6, <3>1, ConnectedLeaves DEF Numbered
    <3>4. QED
      BY <1>1, <1>7, <1>8, <2>2, <3>2, <3>3, CallbackCycles
  <2>7. CASE events[f].r = "readable"
    <3>1. t \in socket_readable(s, c)
      BY <1>7, <1>10, <2>7
    <3>2. t \in Members /\ t.crossed = s.crossed
      BY <1>8, <2>2, <3>1, ReadableKept DEF Kept
    <3>3. ~s.crossed => Leaves(s, t, c)
      BY <1>8, <2>2, <2>3, <2>5, <2>7, <3>1, ReadableLeaves DEF Reading
    <3>4. QED
      BY <1>1, <1>7, <1>8, <2>2, <3>2, <3>3, CallbackCycles
  <2>8. QED
    BY <2>5, <2>6, <2>7
<1>11. QED
  BY <1>9, <1>10

LEMMA HandleWritableCycles ==
  ASSUME CycleInv, HandleWritable
  PROVE  CycleInv'
<1>1. PICK s \in Members : s = Now
  BY DEF CycleInv, ThreadInv
<1>2. PICK e : e = Head(fired)
  OBVIOUS
<1>3. e \in FiredOf
  BY <1>2, HeadTailProperties DEF CycleInv, ThreadInv, HandleWritable
<1>4. PICK f \in Fd : f = e.fd
  BY <1>3 DEF FiredOf
<1>5. PICK wanted \in BOOLEAN :
           wanted = (/\ "W" \in e.mask /\ "W" \in events[f].mask
                     /\ ~e.rfired \/ events[f].w # events[f].r)
  OBVIOUS
<1>6. PICK c : c = events[f].data
  OBVIOUS
<1>7. PICK t \in CASE ~wanted -> {s}
                   [] wanted /\ events[f].w = "connected" -> socket_connected(s, c, f)
                   [] wanted /\ events[f].w = "writeable" -> socket_writeable(s, c, f) :
           Becomes(t)
  BY <1>1, <1>2, <1>4, <1>5, <1>6 DEF HandleWritable
<1>8. ThreadInv' /\ cfg' = cfg /\ cfg \in Configs
  BY HandleWritableKeeps DEF CycleInv, ThreadInv, HandleWritable
<1>9. CASE ~wanted
  <2>1. t = s
    BY <1>7, <1>9
  <2>2. UNCHANGED <<members, cfg>>
    BY <1>1, <1>7, <1>8, <2>1, NowIs DEF Becomes, members
  <2>3. QED
    BY <1>8, <2>2, CyclesStay
<1>10. CASE wanted
  <2>1. "W" \in s.events[f].mask /\ c = s.events[f].data
    BY <1>1, <1>5, <1>6, <1>10, NowIs
  <2>2. c \in Conn
    BY <2>1, WantedIs
  <2>3. ~s.crossed => /\ Held(s, c) /\ Living(s, c) /\ f = s.conn[c].fd
                      /\ Cycle(s, c)
    <3>1. ~s.crossed => Wired(s) /\ Cycles(s)
      BY <1>1, NowIs DEF CycleInv, ThreadInv
    <3>2. QED
      BY <2>1, <2>2, <3>1, WantedLives DEF Cycles, Wanted
  <2>4. Held(s, c) => f = s.conn[c].fd
    <3>1. Wired(s) => f = s.conn[c].fd
      BY <2>1, WantedIs
    <3>2. QED
      BY <3>1 DEF Held
  <2>5. events[f].w \in {"connected", "writeable"} /\ events[f] = s.events[f]
    <3>1. s.events[f] \in EventOf /\ Armed(s.events[f])
      BY DEF Members
    <3>2. QED
      BY <1>1, <1>5, <1>10, <3>1, NowIs DEF EventOf, Armed
  <2>6. CASE events[f].w = "connected"
    <3>1. t \in socket_connected(s, c, f)
      BY <1>7, <1>10, <2>6
    <3>2. t \in Members /\ t.crossed = s.crossed
      BY <2>2, <2>4, <3>1, ConnectedKept DEF Kept
    <3>3. ~s.crossed => Leaves(s, t, c)
      BY <1>8, <2>2, <2>3, <2>5, <2>6, <3>1, ConnectedLeaves DEF Numbered
    <3>4. QED
      BY <1>1, <1>7, <1>8, <2>2, <3>2, <3>3, CallbackCycles
  <2>7. CASE events[f].w = "writeable"
    <3>1. t \in socket_writeable(s, c, f)
      BY <1>7, <1>10, <2>7
    <3>2. t \in Members /\ t.crossed = s.crossed
      BY <1>8, <2>2, <2>4, <3>1, WriteableKept DEF Kept
    <3>3. ~s.crossed => Leaves(s, t, c)
      BY <1>8, <2>1, <2>2, <2>3, <2>5, <2>7, <3>1, WriteableLeaves
         DEF Numbered, Writing
    <3>4. QED
      BY <1>1, <1>7, <1>8, <2>2, <3>2, <3>3, CallbackCycles
  <2>8. QED
    BY <2>5, <2>6, <2>7
<1>11. QED
  BY <1>9, <1>10

(* What the server may do to a socket.                                      *)
Moves(k, l) ==
  Usual(l) =>
    /\ Usual(k)
    /\ \A e, delays : Connecting(k, e, delays) => Connecting(l, e, delays)
    /\ \A n \in ConnOf : \A e, delays :
         Cycling(n, k, e, delays, <<>>, 0) => Cycling(n, l, e, delays, <<>>, 0)

LEMMA PeerCycles ==
  ASSUME CycleInv, NEW f \in Fd, NEW k \in SocketOf, k.owner = socket[f].owner, Peer(f, k),
         Moves(socket[f], k)
  PROVE  CycleInv'
<1>1. PICK s \in Members : s = Now
  BY DEF CycleInv, ThreadInv
<1>2. PICK t : t = [s EXCEPT !.socket[f] = k]
  OBVIOUS
<1>3. t \in Members
  BY <1>2, SocketBecomes
<1>4. t.socket = [s.socket EXCEPT ![f] = k] /\ t.conn = s.conn /\ t.events = s.events
      /\ t.timers = s.timers /\ t.crossed = s.crossed
  BY <1>2 DEF Members
<1>5. Becomes(t)
  BY <1>1, <1>4, NowIs DEF Peer, Becomes
<1>6. \A g \in Fd : t.socket[g] = IF g = f THEN k ELSE s.socket[g]
  BY <1>4 DEF Members
<1>7. Moves(s.socket[f], k)
  BY <1>1, NowIs
<1>8. ASSUME ~t.crossed, NEW d \in Conn PROVE Cycle(t, d)
  <2>1. Wired(s) /\ Cycle(s, d)
    BY <1>1, <1>4, <1>8, NowIs DEF CycleInv, ThreadInv, Cycles
  <2>2. PICK g : g = s.conn[d].fd
    OBVIOUS
  <2>3. t.conn[d] = s.conn[d] /\ t.events[g] = s.events[g] /\ Delays(t, d) = Delays(s, d)
    BY <1>4, SameDelays
  <2>4. SUFFICES ASSUME Living(s, d), Usual(t.socket[g])
                 PROVE  \/ Connecting(t.socket[g], s.events[g], Delays(s, d))
                        \/ Cycling(s.conn[d], t.socket[g], s.events[g], Delays(s, d), <<>>, 0)
    BY <2>2, <2>3 DEF Cycle, Living
  <2>5. g \in Fd /\ s.conn[d] \in ConnOf
    BY <2>1, <2>2, <2>4 DEF Wired, HasSocket, Living, Open, Members
  <2>6. CASE g = f
    <3>1. t.socket[g] = k
      BY <1>6, <2>5, <2>6
    <3>2. Usual(s.socket[g])
      BY <1>7, <2>4, <2>6, <3>1 DEF Moves
    <3>3. \/ Connecting(s.socket[g], s.events[g], Delays(s, d))
          \/ Cycling(s.conn[d], s.socket[g], s.events[g], Delays(s, d), <<>>, 0)
      BY <2>1, <2>2, <2>4, <3>2 DEF Cycle
    <3>4. QED
      BY <1>7, <2>4, <2>5, <2>6, <3>1, <3>3 DEF Moves
  <2>7. CASE g # f
    <3>1. t.socket[g] = s.socket[g]
      BY <1>6, <2>5, <2>7
    <3>2. QED
      BY <2>1, <2>2, <2>4, <3>1 DEF Cycle
  <2>8. QED
    BY <2>6, <2>7
<1>9. ThreadInv' /\ cfg' = cfg
  BY PeerKeeps DEF CycleInv, Peer
<1>10. QED
  BY <1>3, <1>5, <1>8, <1>9, CyclesBecome DEF Cycles

LEMMA ServerCycles ==
  ASSUME CycleInv, Server
  PROVE  CycleInv'
<1>1. PICK f \in Fd : \/ Accepts(f) \/ Answers(f) \/ AnswersEarly(f)
                      \/ Finishes(f) \/ RefusesOrResets(f)
                      \/ \E token \in {"last", "until", "junk"} : AnswersLast(f, token)
  BY DEF Server
<1>2. PICK k \in SocketOf : k = socket[f]
  <2>1. Now \in Members
    BY DEF CycleInv, ThreadInv
  <2>2. QED
    BY <2>1, NowIs DEF Members
<1>3. k.in \in Seq(Token) /\ k.owed \in Int /\ cfg \in Configs
  BY <1>2 DEF SocketOf, CycleInv, ThreadInv
<1>4. \A token \in Token : Append(k.in, token) \in Seq(Token)
  BY <1>3
<1>5. ASSUME NEW l \in SocketOf, l.owner = k.owner, Peer(f, l), Moves(k, l)
      PROVE  CycleInv'
  BY <1>2, <1>5, PeerCycles
<1>6. ASSUME NEW l \in SocketOf, l.in = k.in, l.owed = k.owed, l.fin = k.fin,
             l.closing = k.closing, l.used = k.used, l.early = k.early, l.haunted = k.haunted
      PROVE  Moves(k, l)
  BY <1>6, SameCycles DEF Moves, Usual
<1>7. CASE Accepts(f)
  <2>1. PICK l : l = [k EXCEPT !.net = "up"]
    OBVIOUS
  <2>2. l \in SocketOf /\ l.owner = k.owner
    BY <1>2, <2>1 DEF SocketOf, Net
  <2>3. /\ l.in = k.in /\ l.owed = k.owed /\ l.fin = k.fin /\ l.closing = k.closing
        /\ l.used = k.used /\ l.early = k.early /\ l.haunted = k.haunted
    BY <1>2, <2>1 DEF SocketOf
  <2>4. Peer(f, l)
    BY <1>2, <1>7, <2>1 DEF Accepts
  <2>5. QED
    BY <1>5, <1>6, <2>2, <2>3, <2>4
<1>8. CASE Answers(f)
  <2>1. PICK l : l = [k EXCEPT !.in = Append(@, "end"), !.owed = @ - 1]
    OBVIOUS
  <2>2. l \in SocketOf /\ l.owner = k.owner
    <3>1. Append(k.in, "end") \in Seq(Token) /\ k.owed - 1 \in Int
      BY <1>3, <1>4 DEF Token
    <3>2. QED
      BY <1>2, <2>1, <3>1 DEF SocketOf
  <2>3. /\ l.in = Append(k.in, "end") /\ l.owed = k.owed - 1 /\ l.fin = k.fin
        /\ l.closing = k.closing /\ l.used = k.used
        /\ l.early = k.early /\ l.haunted = k.haunted
    BY <1>2, <2>1 DEF SocketOf
  <2>4. Peer(f, l) /\ k.owed > 0 /\ ~k.closing
    BY <1>2, <1>8, <2>1 DEF Answers
  <2>5. Moves(k, l)
    <3>1. \A e, delays : ~Connecting(k, e, delays)
      <4>1. k.owed # 0
        BY <1>3, <2>4
      <4>2. QED
        BY <4>1 DEF Connecting
    <3>2. ASSUME NEW n \in ConnOf, NEW e, NEW delays, Cycling(n, k, e, delays, <<>>, 0)
          PROVE  Cycling(n, l, e, delays, <<>>, 0)
      BY <1>3, <2>2, <2>3, <2>4, <3>2, AnswersCycles
    <3>3. QED
      BY <2>3, <3>1, <3>2 DEF Moves, Usual
  <2>6. QED
    BY <1>5, <2>2, <2>4, <2>5
<1>9. CASE AnswersEarly(f)
  <2>1. PICK l : l = [k EXCEPT !.in = Append(@, "end"), !.owed = @ - 1, !.early = TRUE]
    OBVIOUS
  <2>2. l \in SocketOf /\ l.owner = k.owner /\ l.early
    <3>1. Append(k.in, "end") \in Seq(Token) /\ k.owed - 1 \in Int
      BY <1>3, <1>4 DEF Token
    <3>2. QED
      BY <1>2, <2>1, <3>1 DEF SocketOf
  <2>3. Peer(f, l)
    BY <1>2, <1>9, <2>1 DEF AnswersEarly
  <2>4. QED
    BY <1>5, <2>2, <2>3 DEF Moves, Usual
<1>10. CASE Finishes(f)
  <2>1. PICK l : l = [k EXCEPT !.fin = TRUE, !.closing = TRUE]
    OBVIOUS
  <2>2. l \in SocketOf /\ l.owner = k.owner
    BY <1>2, <2>1 DEF SocketOf
  <2>3. /\ l.in = k.in /\ l.owed = k.owed /\ l.fin /\ l.closing
        /\ l.used = k.used /\ l.early = k.early /\ l.haunted = k.haunted
    BY <1>2, <2>1 DEF SocketOf
  <2>4. Peer(f, l)
    BY <1>2, <1>10, <2>1 DEF Finishes
  <2>5. Moves(k, l)
    BY <2>3, FinishesCycles DEF Moves, Usual
  <2>6. QED
    BY <1>5, <2>2, <2>4, <2>5
<1>11. CASE RefusesOrResets(f)
  <2>1. PICK l : l = [k EXCEPT !.net = "broken"]
    OBVIOUS
  <2>2. l \in SocketOf /\ l.owner = k.owner
    BY <1>2, <2>1 DEF SocketOf, Net
  <2>3. /\ l.in = k.in /\ l.owed = k.owed /\ l.fin = k.fin /\ l.closing = k.closing
        /\ l.used = k.used /\ l.early = k.early /\ l.haunted = k.haunted
    BY <1>2, <2>1 DEF SocketOf
  <2>4. Peer(f, l)
    BY <1>2, <1>11, <2>1 DEF RefusesOrResets
  <2>5. QED
    BY <1>5, <1>6, <2>2, <2>3, <2>4
<1>12. ASSUME NEW token \in Enders, AnswersLast(f, token)
       PROVE  CycleInv'
  <2>1. PICK l : l = [k EXCEPT !.in = Append(@, token), !.closing = TRUE]
    OBVIOUS
  <2>2. l \in SocketOf /\ l.owner = k.owner
    <3>1. Append(k.in, token) \in Seq(Token)
      BY <1>4 DEF Token, Enders
    <3>2. QED
      BY <1>2, <2>1, <3>1 DEF SocketOf
  <2>3. /\ l.in = Append(k.in, token) /\ l.closing
        /\ l.early = k.early /\ l.haunted = k.haunted
    BY <1>2, <2>1 DEF SocketOf
  <2>4. Peer(f, l) /\ k.owed > 0
    BY <1>2, <1>12, <2>1 DEF AnswersLast
  <2>5. Moves(k, l)
    <3>1. \A e, delays : ~Connecting(k, e, delays)
      <4>1. k.owed # 0
        BY <1>3, <2>4
      <4>2. QED
        BY <4>1 DEF Connecting
    <3>2. ASSUME NEW n \in ConnOf, NEW e, NEW delays, Cycling(n, k, e, delays, <<>>, 0)
          PROVE  Cycling(n, l, e, delays, <<>>, 0)
      BY <2>2, <2>3, <3>2, AnswersLastCycles
    <3>3. QED
      BY <2>3, <3>1, <3>2 DEF Moves, Usual
  <2>6. QED
    BY <1>5, <2>2, <2>4, <2>5
<1>13. QED
  BY <1>1, <1>7, <1>8, <1>9, <1>10, <1>11, <1>12 DEF Enders

(* The end of a delay: the members but the timer, and the flag.             *)
Undelays(s, t, c, f) ==
  /\ t.timers = s.timers
  /\ t.crossed = (s.crossed \/ (s.conn[c].lost /\ Open(s, f)))
  /\ \E v \in Members :
       /\ Local(s, v, c)
       /\ t.conn = v.conn /\ t.events = v.events /\ t.socket = v.socket
       /\ v.socket = s.socket
       /\ ~v.conn[c].delayed
       /\ v.conn[c].parser = s.conn[c].parser /\ v.conn[c].written = s.conn[c].written
       /\ Open(s, f) => /\ v.events[f].mask = s.events[f].mask \cup {"W"}
                        /\ v.events[f].r = s.events[f].r
                        /\ v.events[f].w = "writeable"

LEMMA DelayLocal ==
  ASSUME NEW s \in Members, NEW c \in Conn, NEW f, f = s.conn[c].fd,
         NEW t, t = delay_request(s, c)
  PROVE  t \in Members /\ Undelays(s, t, c, f)
<1>1. PICK k : k = [s.conn[c] EXCEPT !.delayed = FALSE]
  OBVIOUS
<1>2. s.conn[c] \in ConnOf
  BY DEF Members
<1>3. /\ k \in ConnOf /\ ~k.delayed /\ SameSocket(k, s.conn[c])
      /\ k.parser = s.conn[c].parser /\ k.written = s.conn[c].written
  BY <1>1, <1>2 DEF ConnOf, SameSocket
<1>4. PICK u : u = WithConn(s, c, k)
  OBVIOUS
<1>5. u = [s EXCEPT !.conn[c].delayed = FALSE]
  BY <1>1, <1>4 DEF WithConn
<1>6. Local(s, u, c) /\ u.conn[c] = k /\ u.events = s.events /\ u.socket = s.socket
  BY <1>3, <1>4, ConnLocal
<1>7. u \in Members /\ u.conn[c].fd = f
  BY <1>6 DEF Local
<1>8. PICK v : v = aeCreateFileEvent(u, f, {"W"}, "writeable", c)
  OBVIOUS
<1>9. Writes(u, v, c, f)
  BY <1>7, <1>8, WriteLocal
<1>10. Open(u, f) <=> Open(s, f)
  BY <1>6 DEF Open
<1>11. /\ Local(s, v, c) /\ v \in Members
       /\ v.conn = u.conn /\ v.socket = s.socket /\ v.timers = s.timers
       /\ v.crossed = s.crossed
       /\ Open(s, f) => /\ v.events[f].mask = s.events[f].mask \cup {"W"}
                        /\ v.events[f].r = s.events[f].r
                        /\ v.events[f].w = "writeable"
  <2>1. Local(u, v, c) /\ v.conn = u.conn /\ v.socket = u.socket
    BY <1>9 DEF Writes
  <2>2. Local(s, v, c)
    BY <1>6, <2>1, LocalAgain
  <2>3. v \in Members /\ v.timers = s.timers /\ v.crossed = s.crossed
    BY <2>2 DEF Local, Kept
  <2>4. QED
    BY <1>6, <1>9, <1>10, <2>1, <2>2, <2>3 DEF Writes
<1>12. t = [v EXCEPT !.crossed = v.crossed \/ (s.conn[c].lost /\ Open(s, f))]
  BY <1>5, <1>8 DEF delay_request
<1>13. (v.crossed \/ (s.conn[c].lost /\ Open(s, f))) \in BOOLEAN
  OBVIOUS
<1>14. /\ t \in Members
       /\ t.conn = v.conn /\ t.events = v.events /\ t.socket = v.socket /\ t.timers = v.timers
       /\ t.crossed = (v.crossed \/ (s.conn[c].lost /\ Open(s, f)))
  BY <1>11, <1>12, <1>13 DEF Members
<1>15. ~v.conn[c].delayed /\ v.conn[c].parser = s.conn[c].parser
       /\ v.conn[c].written = s.conn[c].written
  BY <1>3, <1>6, <1>11
<1>16. QED
  BY <1>11, <1>14, <1>15 DEF Undelays

LEMMA DelayEnds ==
  ASSUME NEW s \in Members, NEW c \in Conn, Held(s, c), Cycle(s, c),
         NEW f, f = s.conn[c].fd, NEW d, Undelays(s, d, c, f),
         NEW t \in Members, t.conn = d.conn, t.events = d.events, t.socket = d.socket,
         Delays(s, c) # "none", Delays(s, c) = "one" => Delays(t, c) = "none",
         \A a \in Conn \ {c} : Delays(t, a) = Delays(s, a)
  PROVE  Apart(s, t, c) /\ Cycle(t, c)
<1>1. PICK v \in Members :
       /\ Local(s, v, c)
       /\ d.conn = v.conn /\ d.events = v.events /\ d.socket = v.socket
       /\ v.socket = s.socket
       /\ ~v.conn[c].delayed
       /\ v.conn[c].parser = s.conn[c].parser /\ v.conn[c].written = s.conn[c].written
       /\ Open(s, f) => /\ v.events[f].mask = s.events[f].mask \cup {"W"}
                        /\ v.events[f].r = s.events[f].r
                        /\ v.events[f].w = "writeable"
  BY DEF Undelays
<1>2. t.conn = v.conn /\ t.events = v.events /\ t.socket = v.socket
  BY <1>1
<1>3. Apart(s, v, c)
  BY <1>1, LocalIsApart
<1>4. Apart(s, t, c)
  BY <1>2, <1>3 DEF Apart
<1>5. /\ Living(v, c) <=> Living(s, c)
      /\ v.conn[c].fd = f
  BY <1>1, LocalLives
<1>6. ASSUME Living(t, c), Usual(t.socket[f])
      PROVE  Cycling(t.conn[c], t.socket[f], t.events[f], Delays(t, c), <<>>, 0)
  <2>1. Living(s, c)
    BY <1>2, <1>5, <1>6 DEF Living
  <2>2. /\ Open(s, f) /\ f \in Fd /\ s.conn[c] \in ConnOf
        /\ s.socket[f] \in SocketOf /\ s.events[f] \in EventOf
    BY <2>1, LivingIs
  <2>3. PICK n \in ConnOf : n = s.conn[c]
    BY <2>2
  <2>4. PICK m \in ConnOf : m = t.conn[c]
    BY DEF Members
  <2>5. PICK k \in SocketOf : k = s.socket[f] /\ k = t.socket[f]
    BY <1>1, <1>2, <2>2
  <2>6. PICK e \in EventOf : e = s.events[f]
    BY <2>2
  <2>7. PICK b \in EventOf : b = t.events[f]
    BY <2>2 DEF Members
  <2>8. \/ Connecting(k, e, Delays(s, c))
        \/ Cycling(n, k, e, Delays(s, c), <<>>, 0)
    BY <1>6, <2>1, <2>3, <2>5, <2>6 DEF Cycle
  <2>9. Cycling(n, k, e, Delays(s, c), <<>>, 0)
    BY <2>8 DEF Connecting
  <2>10. ~m.delayed /\ m.parser = n.parser /\ m.written = n.written
    BY <1>1, <1>2, <2>3, <2>4
  <2>11. b.mask = e.mask \cup {"W"} /\ b.r = e.r /\ b.w = "writeable"
    BY <1>1, <1>2, <2>2, <2>6, <2>7
  <2>12. PICK delays : delays = Delays(s, c)
    OBVIOUS
  <2>13. PICK now : now = Delays(t, c)
    OBVIOUS
  <2>14. Cycling(m, k, b, now, <<>>, 0)
    BY <2>9, <2>10, <2>11, <2>12, <2>13, DelayedCycles
  <2>15. QED
    BY <2>4, <2>5, <2>7, <2>13, <2>14
<1>7. t.conn[c].fd = f
  BY <1>2, <1>5
<1>8. QED
  BY <1>4, <1>6, <1>7 DEF Cycle

LEMMA FireDelayCycles ==
  ASSUME CycleInv, FireDelay
  PROVE  CycleInv'
<1>1. PICK s \in Members : s = Now
  BY DEF CycleInv, ThreadInv
<1>2. timers \in Seq(Conn \cup {Rate}) /\ timers = s.timers
  BY <1>1, NowIs DEF Members
<1>3. PICK n \in Nat : n = Len(timers) /\ n = Len(s.timers)
  BY <1>2
<1>4. left \in Nat /\ left > 0 /\ left <= n
  BY <1>3 DEF CycleInv, ThreadInv, FireDelay
<1>5. PICK i \in 1 .. n : i = At
  <2>1. n - left + 1 \in 1 .. n
    BY <1>4
  <2>2. QED
    BY <1>3, <2>1 DEF At
<1>6. PICK c \in Conn : c = timers[i]
  <2>1. timers[i] \in Conn \cup {Rate}
    BY <1>2, <1>3
  <2>2. timers[i] # Rate
    BY <1>5 DEF FireDelay
  <2>3. QED
    BY <2>1, <2>2
<1>7. PICK d : d = delay_request(s, c)
  OBVIOUS
<1>8. PICK f : f = s.conn[c].fd
  OBVIOUS
<1>9. d \in Members /\ Undelays(s, d, c, f)
  BY <1>7, <1>8, DelayLocal
<1>10. PICK q : q = RemoveAt(timers, i)
  OBVIOUS
<1>11. PICK m \in Nat : n = m + 1
  BY <1>5
<1>12. q \in Seq(Conn \cup {Rate}) /\ Len(q) = m /\ Skips(q, s.timers, i, m)
  <2>1. /\ q \in Seq(Conn \cup {Rate}) /\ Len(q) = Len(timers) - 1
        /\ Skips(q, timers, i, Len(q))
    BY <1>2, <1>3, <1>5, <1>10, RemovedSkips
  <2>2. Len(q) = m
    <3>1. Len(q) = n - 1
      BY <1>3, <2>1
    <3>2. n - 1 = m
      BY <1>11
    <3>3. QED
      BY <3>1, <3>2
  <2>3. QED
    BY <1>2, <2>1, <2>2
<1>13. PICK t : t = [d EXCEPT !.timers = q]
  OBVIOUS
<1>14. Becomes(t)
  BY <1>1, <1>5, <1>6, <1>7, <1>10, <1>13 DEF FireDelay
<1>15. t \in Members
  BY <1>9, <1>12, <1>13 DEF Members
<1>16. t.conn = d.conn /\ t.events = d.events /\ t.socket = d.socket /\ t.timers = q
       /\ t.crossed = d.crossed
  BY <1>9, <1>13 DEF Members
<1>17. ThreadInv' /\ cfg' = cfg
  BY FireDelayKeeps DEF CycleInv, FireDelay
<1>18. ASSUME ~t.crossed PROVE Cycles(t)
  <2>1. ~s.crossed /\ ~(s.conn[c].lost /\ Open(s, f))
    BY <1>9, <1>16, <1>18 DEF Undelays
  <2>2. Wired(s) /\ Cycles(s)
    BY <1>1, <2>1, NowIs DEF CycleInv, ThreadInv
  <2>3. s.conn[c].opened
    BY <1>2, <1>3, <1>6, <2>2 DEF Wired, Linked
  <2>4. Held(s, c)
    BY <1>8, <2>1, <2>2, <2>3 DEF Held, Wired, HasSocket
  <2>5. ASSUME NEW a \in Conn
        PROVE  /\ a # c => Delays(t, a) = Delays(s, a)
               /\ a = c => Delays(s, a) # "none"
               /\ a = c => (Delays(s, a) = "one" => Delays(t, a) = "none")
    <3>1. Skips(t.timers, s.timers, i, m) /\ Len(t.timers) = m /\ Len(s.timers) = n
      BY <1>3, <1>12, <1>16
    <3>2. m \in Nat /\ n \in Nat /\ n = m + 1 /\ i \in 1 .. n
      BY <1>3, <1>5, <1>11
    <3>3. s \in Members /\ t \in Members
      BY <1>1, <1>15
    <3>4. /\ s.timers[i] # a => Delays(t, a) = Delays(s, a)
          /\ s.timers[i] = a => Delays(s, a) # "none"
          /\ s.timers[i] = a => (Delays(t, a) = "none" <=> Delays(s, a) = "one")
      BY <3>1, <3>2, <3>3, SkipsDelays
    <3>5. QED
      BY <1>2, <1>6, <3>4
  <2>6. Apart(s, t, c) /\ Cycle(t, c)
    <3>1. Cycle(s, c)
      BY <2>2 DEF Cycles
    <3>2. QED
      BY <1>8, <1>9, <1>15, <1>16, <2>4, <2>5, <3>1, DelayEnds
  <2>7. QED
    BY <2>2, <2>6, LeftCycles
<1>19. QED
  BY <1>14, <1>15, <1>17, <1>18, CyclesBecome

LEMMA NextCycles ==
  ASSUME CycleInv, [Next]_vars
  PROVE  CycleInv'
<1>1. ThreadInv'
  BY NextKeeps DEF CycleInv
<1>2. ASSUME NEW c \in cfg.conns, OpenConnection(c) PROVE CycleInv'
  <2>1. c \in Conn
    BY ConfigIs DEF CycleInv, ThreadInv
  <2>2. QED
    BY <1>2, <2>1, OpenConnectionCycles
<1>3. CASE EnterLoop
  BY <1>3, EnterLoopCycles
<1>4. CASE Poll
  BY <1>1, <1>4, CyclesStay DEF Poll
<1>5. CASE HandleReadable
  BY <1>5, HandleReadableCycles
<1>6. CASE HandleWritable
  BY <1>6, HandleWritableCycles
<1>7. CASE BeginTimers
  BY <1>1, <1>7, CyclesStay DEF BeginTimers
<1>8. CASE PassOver
  BY <1>1, <1>8, CyclesStay DEF PassOver
<1>9. CASE FireDelay
  BY <1>9, FireDelayCycles
<1>10. CASE record_rate
  BY <1>1, <1>10, CyclesStay DEF record_rate
<1>11. CASE EndRound
  BY <1>1, <1>11, CyclesStay DEF EndRound
<1>12. CASE Server
  BY <1>12, ServerCycles
<1>13. CASE SetStop
  BY <1>1, <1>13, CyclesStay DEF SetStop
<1>14. CASE UNCHANGED vars
  BY <1>1, <1>14, CyclesStay DEF vars
<1>15. QED
  BY <1>2, <1>3, <1>4, <1>5, <1>6, <1>7, <1>8, <1>9, <1>10, <1>11, <1>12, <1>13, <1>14
     DEF Next, Loop

(* Every connection that was not lost is connecting, between two cycles of  *)
(* requests, in one, or about to meet the end of its socket, whatever the   *)
(* callbacks, the timers and the server do: the exceptions are a server     *)
(* that answers before it has the request, and a timer older than the       *)
(* socket.                                                                  *)
THEOREM CyclesInductive == Spec => []CycleInv
  BY InitCycles, NextCycles, PTL DEF Spec

LEMMA LiveIs ==
  ASSUME CycleInv, NEW c \in Conn, Live(c), NEW f, f = conn[c].fd
  PROVE  /\ conn[c] \in ConnOf /\ socket[f] \in SocketOf /\ events[f] \in EventOf
         /\ Usual(socket[f]) =>
              \/ Connecting(socket[f], events[f], Delays(Now, c))
              \/ Cycling(conn[c], socket[f], events[f], Delays(Now, c), <<>>, 0)
<1>1. PICK s \in Members : s = Now
  BY DEF CycleInv, ThreadInv
<1>2. s.conn = conn /\ s.socket = socket /\ s.events = events
  BY <1>1, NowIs
<1>3. Wired(s) /\ Cycle(s, c) /\ Living(s, c)
  BY <1>1, <1>2 DEF Live, Living, CycleInv, ThreadInv, Cycles
<1>4. f \in Fd
  BY <1>2, <1>3 DEF Wired, HasSocket, Living, Open
<1>5. conn[c] \in ConnOf /\ socket[f] \in SocketOf /\ events[f] \in EventOf
  BY <1>2, <1>4 DEF Members
<1>6. QED
  BY <1>1, <1>2, <1>3, <1>5 DEF Cycle

LEMMA DueNow ==
  ASSUME NEW n, NEW k \in SocketOf
  PROVE  Due(n, k, <<>>, 0) = k.owed + Len(k.in) + 0 + Outstanding(n.written)
<1>1. Len(<<>>) = 0
  BY EmptySeq
<1>2. Len(<<>>) - 0 = 0
  BY <1>1
<1>3. QED
  BY <1>2 DEF Due

(* For any connections, scripts and servers, a connection waits for exactly *)
(* the answers its socket still owes it: the count of response_complete     *)
(* comes to nothing when the last of them has been read, and not before, so *)
(* socket_writeable never begins a cycle over another.  Not so where the    *)
(* server answers early or a delay timer is older than the socket.          *)
THEOREM AwaitedIsOwed == Spec => []AwaitsWhatIsOwed
<1>1. CycleInv => AwaitsWhatIsOwed
  <2>1. SUFFICES ASSUME CycleInv, NEW c \in Conn, NEW f, f = conn[c].fd, Live(c),
                        socket[f].used, ~socket[f].closing,
                        ~socket[f].early, ~socket[f].haunted
                 PROVE  LET due == socket[f].owed + Len(socket[f].in) + Unwritten(c)
                        IN  \/ conn[c].pending = due
                            \/ due = 0 /\ conn[c].written = 0 /\ "W" \in events[f].mask
    BY DEF AwaitsWhatIsOwed
  <2>2. PICK n \in ConnOf : n = conn[c]
    BY <2>1, LiveIs
  <2>3. PICK k \in SocketOf : k = socket[f]
    BY <2>1, LiveIs
  <2>4. PICK e \in EventOf : e = events[f]
    BY <2>1, LiveIs
  <2>5. Usual(k)
    BY <2>1, <2>3 DEF Usual
  <2>6. ~Connecting(k, e, Delays(Now, c))
    BY <2>1, <2>3 DEF Connecting
  <2>7. Counting(n, k, e, Delays(Now, c), <<>>, 0)
    <3>1. Cycling(n, k, e, Delays(Now, c), <<>>, 0)
      BY <2>1, <2>2, <2>3, <2>4, <2>5, <2>6, LiveIs
    <3>2. QED
      BY <2>1, <2>3, <3>1 DEF Cycling
  <2>8. PICK due : due = socket[f].owed + Len(socket[f].in) + Unwritten(c)
    OBVIOUS
  <2>9. due = Due(n, k, <<>>, 0)
    <3>1. PICK y \in Seq(Token) : y = k.in
      BY DEF SocketOf
    <3>2. PICK a \in Int : a = k.owed
      BY DEF SocketOf
    <3>3. PICK b \in Nat : b = Len(y)
      BY <3>1
    <3>4. Unwritten(c) = Outstanding(n.written)
      BY <2>2 DEF Unwritten, Outstanding
    <3>5. a + b + 0 = a + b
      OBVIOUS
    <3>6. QED
      BY <2>3, <2>8, <3>1, <3>2, <3>3, <3>4, <3>5, DueNow
  <2>10. CASE Busy(n, k, e, Delays(Now, c), <<>>, 0)
    BY <2>2, <2>8, <2>9, <2>10 DEF Busy
  <2>11. CASE Idle(n, k, e, Delays(Now, c), <<>>, 0)
    <3>1. due = 0 /\ n.written = 0
      BY <2>9, <2>11 DEF Idle
    <3>2. CASE "W" \in e.mask
      BY <2>2, <2>4, <2>8, <3>1, <3>2
    <3>3. CASE "W" \notin e.mask
      <4>1. n.pending = 0
        BY <2>1, <2>3, <2>11, <3>3 DEF Idle
      <4>2. QED
        BY <2>2, <2>8, <3>1, <4>1
    <3>4. QED
      BY <3>2, <3>3
  <2>12. QED
    BY <2>7, <2>10, <2>11 DEF Counting
<1>2. QED
  BY <1>1, CyclesInductive, PTL

(* For any connections, scripts and servers, a connection that was not lost *)
(* has a way to go on: it is to write, it is delayed, or it reads and       *)
(* something still comes.  It never waits for an answer that nobody owes,   *)
(* with the two exceptions of AwaitsWhatIsOwed.                             *)
THEOREM NoneIsStalled == Spec => []NeverStalled
<1>1. CycleInv => NeverStalled
  <2>1. SUFFICES ASSUME CycleInv, NEW c \in Conn, NEW f, f = conn[c].fd, Live(c),
                        Usual(socket[f])
                 PROVE  \/ "W" \in events[f].mask
                        \/ HasTimer(Now, c)
                        \/ /\ "R" \in events[f].mask
                           /\ \/ socket[f].owed > 0 /\ ~socket[f].closing
                              \/ socket[f].in # <<>> \/ conn[c].parser = "until"
                              \/ socket[f].fin \/ socket[f].net = "broken"
    BY DEF NeverStalled, Usual
  <2>2. PICK n \in ConnOf : n = conn[c]
    BY <2>1, LiveIs
  <2>3. PICK k \in SocketOf : k = socket[f]
    BY <2>1, LiveIs
  <2>4. PICK e \in EventOf : e = events[f]
    BY <2>1, LiveIs
  <2>5. CASE Connecting(k, e, Delays(Now, c))
    BY <2>4, <2>5 DEF Connecting, Mask
  <2>6. CASE Cycling(n, k, e, Delays(Now, c), <<>>, 0)
    <3>1. "R" \in e.mask
      BY <2>6 DEF Cycling
    <3>2. CASE k.closing
      <4>1. Ends(n, k, <<>>, 0)
        BY <2>6, <3>2 DEF Cycling
      <4>2. k.fin \/ n.parser = "until" \/ k.in # <<>>
        BY <4>1, EmptySeq DEF Ends
      <4>3. QED
        BY <2>2, <2>3, <2>4, <3>1, <4>2
    <3>3. CASE Idle(n, k, e, Delays(Now, c), <<>>, 0)
      <4>1. "W" \in e.mask \/ Delays(Now, c) = "one"
        BY <3>3 DEF Idle
      <4>2. Delays(Now, c) = "one" => HasTimer(Now, c)
        BY DEF Delays
      <4>3. QED
        BY <2>4, <4>1, <4>2
    <3>4. ASSUME Busy(n, k, e, Delays(Now, c), <<>>, 0), k.owed >= 0, ~k.closing,
                 "W" \notin e.mask
          PROVE  k.owed > 0 \/ k.in # <<>>
      <4>1. n.written = 0 /\ Due(n, k, <<>>, 0) \in 1 .. cfg.pipeline
        BY <3>4 DEF Busy
      <4>2. Outstanding(n.written) = 0
        BY <4>1 DEF Outstanding
      <4>3. PICK a \in Int : a = k.owed
        BY DEF SocketOf
      <4>4. PICK y \in Seq(Token) : y = k.in
        BY DEF SocketOf
      <4>5. PICK b \in Nat : b = Len(y)
        BY <4>4
      <4>6. Due(n, k, <<>>, 0) = a + b
        BY <4>2, <4>3, <4>4, <4>5, DueNow
      <4>7. a + b >= 1
        BY <4>1, <4>3, <4>5, <4>6
      <4>8. a > 0 \/ b # 0
        BY <4>7
      <4>9. QED
        BY <4>3, <4>4, <4>5, <4>8, EmptySeq
    <3>5. CASE ~k.closing /\ ~Idle(n, k, e, Delays(Now, c), <<>>, 0) /\ "W" \notin e.mask
      <4>1. Busy(n, k, e, Delays(Now, c), <<>>, 0) /\ k.owed >= 0
        BY <2>6, <3>5 DEF Cycling, Counting
      <4>2. QED
        BY <2>3, <2>4, <3>1, <3>4, <3>5, <4>1
    <3>6. QED
      BY <2>4, <3>2, <3>3, <3>5
  <2>7. QED
    BY <2>1, <2>2, <2>3, <2>4, <2>5, <2>6, LiveIs
<1>2. QED
  BY <1>1, CyclesInductive, PTL

===============================================================================
