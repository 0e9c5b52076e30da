---------------------------- MODULE ScreensProofs ----------------------------
(**************************************************************************)
(* Proofs about screen presence and control, module Screens, for any sets   *)
(* of screens, tokens, sockets and profiles and any limits:                 *)
(*   - tickets are used once, every control authority is over a connected   *)
(*     screen and held by one socket, no channel is closed twice or sent to *)
(*     after its close;                                                     *)
(*   - what is reported of a screen is what it shows once it was sent every *)
(*     command accepted for it.                                             *)
(**************************************************************************)
EXTENDS Screens, FiniteSetTheorems, WellFoundedInduction, TLAPS

Receivers == [at : {"none", "accepting", "open", "sending", "closing", "done"},
              selected : BOOLEAN, held : Seq(Commands), shown : Views]
Sockets == [at : {"none", "reading", "checked", "closing", "done"}, selected : BOOLEAN,
            token : {Undrawn} \cup Tokens, message : {Undrawn} \cup Commands]

\* f is the succession of views of a screen that shows v and is sent cs.
Replay(f, v, cs) ==
  /\ f \in [0 .. Len(cs) -> Views] /\ f[0] = v
  /\ \A n \in 1 .. Len(cs) : f[n] = Applied(f[n - 1], cs[n])

\* The views of a screen that is sent cs lead from v to w.
Leads(v, cs, w) == \E f : Replay(f, v, cs) /\ f[Len(cs)] = w

\* The channel of a screen in the map is open; only pruned or departed screens
\* are closed or out of the map.
ChannelsOpen == \A s \in screens : ~presence[s].closed

\* A screen that was never connected was sent nothing.
FreshScreen(s) ==
  presence[s] # Undrawn /\ ~presence[s].connected => presence[s].view = IdleView /\ presence[s].commands = <<>>
FreshScreens == \A s \in ScreenIds : FreshScreen(s)

\* A receiver handler holds a command exactly while it sends it.
ReceiverOK(s) ==
  /\ presence[s] = Undrawn => receiver[s].at = "none"
  /\ receiver[s].at = "none" => receiver[s].shown = IdleView
  /\ receiver[s].at \in {"none", "accepting", "open"} => receiver[s].held = <<>>
  /\ receiver[s].at = "sending" => \E c \in Commands : receiver[s].held = <<c>>
ReceiversOK == \A s \in ScreenIds : ReceiverOK(s)

\* What is reported of a screen is where the commands on their way lead.
Serving == {"accepting", "open", "sending"}
ScreenReported(s) ==
  receiver[s].at \in Serving =>
    Leads(receiver[s].shown, receiver[s].held \o presence[s].commands, presence[s].view)
ScreensReported == \A s \in ScreenIds : ScreenReported(s)

\* A socket in control holds a token whose authority it claimed.
Controlling(k) == controller[k].at \notin {"none", "done"}
SocketOK(k) ==
  /\ Controlling(k) => /\ controller[k].token \in Tokens /\ authority[controller[k].token] # Undrawn
                       /\ authority[controller[k].token].claimed
  /\ controller[k].at = "checked" => controller[k].message \in Commands
SocketsOK == \A k \in Controllers : SocketOK(k)

MapsFinite == IsFiniteSet(screens) /\ IsFiniteSet(sessions)

ScreensOK ==
  MapsFinite /\ ChannelsOpen /\ FreshScreens /\ ReceiversOK /\ ScreensReported /\ SocketsOK
    /\ TicketsUsedOnce /\ AuthoritiesHaveReceivers /\ ControlExclusive /\ NoChannelPanic
ScreensIInv == ScreensTypeOK /\ ScreensOK

-----------------------------------------------------------------------------
(* Replaying commands.                                                     *)

\* A command turns a view into a view.
LEMMA AppliedType ==
  ASSUME NEW v \in Views, NEW c \in Commands
  PROVE  Applied(v, c) \in Views
  <1>1. c.type \in {"play", "pause", "seek", "handoff"} /\ c.position \in 0 .. 1
    BY DEF Commands
  <1> QED
    BY <1>1 DEF Applied, Views, IdleView

\* The recursive definition of Replayed gives the end of any such succession: the
\* succession satisfies its equation, and the least number where two differ
\* cannot exist.
LEMMA ReplayedIs ==
  ASSUME NEW v, NEW cs \in Seq(Commands), NEW w, Leads(v, cs, w)
  PROVE  Replayed(v, cs) = w
  <1> DEFINE N == Len(cs)
             g[n \in 0 .. N] == IF n = 0 THEN v ELSE Applied(g[n - 1], cs[n])
  <1>1. N \in Nat
    OBVIOUS
  <1>2. PICK f : Replay(f, v, cs) /\ f[N] = w
    BY DEF Leads
  <1>3. Replayed(v, cs) = g[N]
    BY DEF Replayed
  <1>4. f = [n \in 0 .. N |-> IF n = 0 THEN v ELSE Applied(f[n - 1], cs[n])]
    BY <1>1, <1>2 DEF Replay
  <1>5. g = [n \in 0 .. N |-> IF n = 0 THEN v ELSE Applied(g[n - 1], cs[n])]
    BY <1>4
  <1> HIDE DEF g
  <1> DEFINE D == {n \in 0 .. N : g[n] # f[n]}
  <1>6. ASSUME D # {} PROVE FALSE
    <2>1. D \subseteq Nat
      BY <1>1
    <2>2. IsWellFoundedOn(OpToRel(<, Nat), Nat)
      BY NatLessThanWellFounded
    <2>3. PICK x \in D : \A y \in D : ~(<<y, x>> \in OpToRel(<, Nat))
      BY <1>6, <2>1, <2>2, WFMin
    <2>4. \A y \in D : ~(y < x)
      BY <2>1, <2>3 DEF OpToRel
    <2>5. x # 0
      BY <1>4, <1>5, <1>1
    <2>6. x - 1 \in 0 .. N /\ x - 1 < x
      BY <1>1, <2>5
    <2>7. g[x - 1] = f[x - 1]
      BY <2>4, <2>6
    <2> QED
      BY <1>4, <1>5, <2>5, <2>7
  <1> QED
    BY <1>1, <1>2, <1>3, <1>6

\* No command leaves the view as it is.
LEMMA LeadsEmpty ==
  ASSUME NEW v \in Views
  PROVE  Leads(v, <<>>, v)
  <1>1. Replay([n \in 0 .. 0 |-> v], v, <<>>)
    BY DEF Replay
  <1> QED
    BY <1>1 DEF Leads

\* One more command at the end is applied to where the others led.
LEMMA LeadsAppend ==
  ASSUME NEW v \in Views, NEW cs \in Seq(Commands), NEW w, NEW c \in Commands, Leads(v, cs, w)
  PROVE  Leads(v, Append(cs, c), Applied(w, c))
  <1> DEFINE N == Len(cs)
             ds == Append(cs, c)
  <1>1. N \in Nat /\ Len(ds) = N + 1 /\ ds[N + 1] = c /\ \A n \in 1 .. N : ds[n] = cs[n]
    OBVIOUS
  <1>2. PICK f : Replay(f, v, cs) /\ f[N] = w
    BY DEF Leads
  <1> HIDE DEF N, ds
  <1>3. f \in [0 .. N -> Views] /\ f[0] = v /\ \A n \in 1 .. N : f[n] = Applied(f[n - 1], cs[n])
    BY <1>2 DEF Replay, N
  <1>4. PICK u \in Views : u = Applied(w, c)
    BY <1>1, <1>2, <1>3, AppliedType
  <1> DEFINE g == [n \in 0 .. N + 1 |-> IF n = N + 1 THEN u ELSE f[n]]
  <1>5. g \in [0 .. N + 1 -> Views] /\ g[0] = v /\ g[N + 1] = u
    BY <1>1, <1>3
  <1>6. ASSUME NEW n \in 1 .. N + 1 PROVE g[n] = Applied(g[n - 1], ds[n])
    <2>1. CASE n = N + 1
      <3>1. n - 1 = N /\ N \in 0 .. N + 1 /\ N # N + 1
        BY <1>1, <2>1
      <3>2. g[n - 1] = w /\ g[n] = u /\ ds[n] = c
        BY <1>1, <1>2, <2>1, <3>1
      <3> QED
        BY <3>2, <1>4
    <2>2. CASE n \in 1 .. N
      <3>1. n - 1 \in 0 .. N /\ n \in 0 .. N + 1 /\ n # N + 1 /\ n - 1 # N + 1 /\ n - 1 \in 0 .. N + 1
        BY <1>1, <2>2
      <3> QED
        BY <1>1, <1>3, <2>2, <3>1
    <2> QED
      BY <1>1, <2>1, <2>2
  <1> HIDE DEF g
  <1>7. Replay(g, v, ds)
    BY <1>1, <1>5, <1>6 DEF Replay
  <1> QED
    BY <1>1, <1>4, <1>5, <1>7 DEF Leads, ds

\* When the first command is applied to what is shown, the rest leads to the same end.
LEMMA LeadsTail ==
  ASSUME NEW v \in Views, NEW cs \in Seq(Commands), cs # <<>>, NEW w, Leads(v, cs, w)
  PROVE  Leads(Applied(v, Head(cs)), Tail(cs), w)
  <1> DEFINE N == Len(cs)
             ds == Tail(cs)
  <1>1. N \in Nat \ {0} /\ Len(ds) = N - 1 /\ \A n \in 1 .. N - 1 : ds[n] = cs[n + 1]
    OBVIOUS
  <1>2. Head(cs) = cs[1]
    OBVIOUS
  <1>3. PICK f : Replay(f, v, cs) /\ f[N] = w
    BY DEF Leads
  <1> HIDE DEF N, ds
  <1>4. f \in [0 .. N -> Views] /\ f[0] = v /\ \A n \in 1 .. N : f[n] = Applied(f[n - 1], cs[n])
    BY <1>3 DEF Replay, N
  <1> DEFINE g == [n \in 0 .. N - 1 |-> f[n + 1]]
  <1>5. g \in [0 .. N - 1 -> Views] /\ g[0] = f[1] /\ g[N - 1] = w
    <2>1. \A n \in 0 .. N - 1 : n + 1 \in 0 .. N
      BY <1>1
    <2>2. 0 \in 0 .. N - 1 /\ N - 1 \in 0 .. N - 1 /\ (N - 1) + 1 = N /\ 0 + 1 = 1
      BY <1>1
    <2> QED
      BY <1>3, <1>4, <2>1, <2>2 DEF N
  <1>6. f[1] = Applied(v, Head(cs))
    <2>1. 1 \in 1 .. N /\ 1 - 1 = 0
      BY <1>1
    <2> QED
      BY <1>2, <1>4, <2>1
  <1>7. ASSUME NEW n \in 1 .. N - 1 PROVE g[n] = Applied(g[n - 1], ds[n])
    <2>1. n \in 0 .. N - 1 /\ n - 1 \in 0 .. N - 1 /\ (n - 1) + 1 = n /\ n + 1 \in 1 .. N /\ (n + 1) - 1 = n
      BY <1>1
    <2> QED
      BY <1>1, <1>4, <2>1
  <1> HIDE DEF g
  <1>8. Replay(g, Applied(v, Head(cs)), ds)
    BY <1>1, <1>5, <1>6, <1>7 DEF Replay
  <1> QED
    BY <1>1, <1>5, <1>8 DEF Leads, ds

-----------------------------------------------------------------------------
(* Typing.                                                                 *)

\* The type invariant with its record sets named.
ScreensTyped ==
  /\ screens \subseteq ScreenIds /\ tickets \subseteq screens
  /\ presence \in [ScreenIds -> {Undrawn} \cup Presences]
  /\ \A s \in ScreenIds : presence[s] = Undrawn => s \notin screens
  /\ \A s \in ScreenIds : presence[s] # Undrawn => Len(presence[s].commands) <= ChannelCap
  /\ authority \in [Tokens -> {Undrawn} \cup Authorities]
  /\ sessions \subseteq Tokens /\ \A t \in sessions : authority[t] # Undrawn
  /\ Cardinality(screens) <= MaxScreens /\ Cardinality(sessions) <= MaxAuthorities
  /\ shut \in BOOLEAN /\ clock \in 0 .. MaxScreenTime /\ panicked \in BOOLEAN
  /\ receiver \in [ScreenIds -> Receivers] /\ controller \in [Controllers -> Sockets]

\* It is the type invariant.
LEMMA ScreensTyping == ScreensTyped <=> ScreensTypeOK
  BY DEF ScreensTyped, ScreensTypeOK, Receivers, Sockets

\* What the type invariant says of the single fields.
LEMMA ScreenFacts ==
  ASSUME ScreensTypeOK
  PROVE  /\ ScreensTyped
         /\ \A s \in ScreenIds : presence[s] # Undrawn =>
              /\ presence[s] \in Presences /\ presence[s].owner \in Profiles /\ presence[s].expires \in Nat
              /\ presence[s].connected \in BOOLEAN /\ presence[s].view \in Views
              /\ presence[s].commands \in Seq(Commands) /\ presence[s].closed \in BOOLEAN
              /\ presence[s].cancelled \in BOOLEAN
         /\ \A s \in screens : s \in ScreenIds /\ presence[s] # Undrawn
         /\ \A t \in Tokens : authority[t] # Undrawn =>
              /\ authority[t] \in Authorities /\ authority[t].screen \in ScreenIds
              /\ authority[t].expires \in Nat /\ authority[t].claimed \in BOOLEAN
         /\ \A t \in sessions : t \in Tokens /\ authority[t] # Undrawn
         /\ \A s \in ScreenIds :
              /\ receiver[s] \in Receivers /\ receiver[s].at \in {"none", "accepting", "open", "sending", "closing", "done"}
              /\ receiver[s].selected \in BOOLEAN /\ receiver[s].held \in Seq(Commands) /\ receiver[s].shown \in Views
         /\ \A k \in Controllers :
              /\ controller[k] \in Sockets /\ controller[k].at \in {"none", "reading", "checked", "closing", "done"}
              /\ controller[k].selected \in BOOLEAN /\ controller[k].token \in {Undrawn} \cup Tokens
              /\ controller[k].message \in {Undrawn} \cup Commands
  <1>1. ScreensTyped
    BY ScreensTyping
  <1>2. \A s \in ScreenIds : presence[s] # Undrawn => presence[s] \in Presences
    BY <1>1 DEF ScreensTyped
  <1>3. \A t \in Tokens : authority[t] # Undrawn => authority[t] \in Authorities
    BY <1>1 DEF ScreensTyped
  <1>4. (\A s \in ScreenIds : receiver[s] \in Receivers) /\ \A k \in Controllers : controller[k] \in Sockets
    BY <1>1 DEF ScreensTyped
  <1>5. /\ \A s \in screens : s \in ScreenIds /\ presence[s] # Undrawn
        /\ \A t \in sessions : t \in Tokens /\ authority[t] # Undrawn
    BY <1>1 DEF ScreensTyped
  <1>6. \A p \in Presences : /\ p.owner \in Profiles /\ p.expires \in Nat
              /\ p.connected \in BOOLEAN /\ p.view \in Views
              /\ p.commands \in Seq(Commands) /\ p.closed \in BOOLEAN
              /\ p.cancelled \in BOOLEAN
    BY DEF Presences
  <1>7. \A a \in Authorities : a.screen \in ScreenIds /\ a.expires \in Nat /\ a.claimed \in BOOLEAN
    BY DEF Authorities
  <1>8. \A r \in Receivers : /\ r.at \in {"none", "accepting", "open", "sending", "closing", "done"}
              /\ r.selected \in BOOLEAN /\ r.held \in Seq(Commands) /\ r.shown \in Views
    BY DEF Receivers
  <1>9. \A c \in Sockets : /\ c.at \in {"none", "reading", "checked", "closing", "done"}
              /\ c.selected \in BOOLEAN /\ c.token \in {Undrawn} \cup Tokens
              /\ c.message \in {Undrawn} \cup Commands
    BY DEF Sockets
  <1> QED
    BY <1>1, <1>2, <1>3, <1>4, <1>5, <1>6, <1>7, <1>8, <1>9

\* The records the actions write are well typed.
LEMMA ScreenValues ==
  /\ IdleView \in Views /\ NoReceiver \in Receivers /\ [NoReceiver EXCEPT !.at = "done"] \in Receivers
  /\ NoController \in Sockets /\ [NoController EXCEPT !.at = "done"] \in Sockets
  /\ \A r \in Receivers :
       /\ \A x \in {"accepting", "open", "closing"} : [r EXCEPT !.at = x] \in Receivers
       /\ \A c \in Commands : [r EXCEPT !.at = "sending", !.held = <<c>>] \in Receivers
       /\ \A v \in Views : [r EXCEPT !.at = "open", !.held = <<>>, !.shown = v] \in Receivers
       /\ [r EXCEPT !.selected = FALSE] \in Receivers
  /\ \A c \in Sockets :
       /\ \A x \in {"reading", "closing"} :
            /\ [c EXCEPT !.at = x] \in Sockets /\ [c EXCEPT !.at = x, !.message = Undrawn] \in Sockets
            /\ \A t \in Tokens : [c EXCEPT !.at = x, !.token = t] \in Sockets
       /\ \A m \in Commands : [c EXCEPT !.at = "checked", !.message = m] \in Sockets
       /\ [c EXCEPT !.selected = FALSE] \in Sockets
  /\ \A p \in Presences :
       /\ [p EXCEPT !.cancelled = TRUE] \in Presences
       /\ [p EXCEPT !.closed = TRUE, !.cancelled = TRUE] \in Presences
       /\ \A v \in Views : [p EXCEPT !.connected = TRUE, !.view = v] \in Presences
       /\ \A cs \in Seq(Commands) : [p EXCEPT !.commands = cs] \in Presences
       /\ \A cs \in Seq(Commands), v \in Views : [p EXCEPT !.commands = cs, !.view = v] \in Presences
  /\ \A a \in Authorities : [a EXCEPT !.claimed = TRUE] \in Authorities
  <1>1. IdleView \in Views
    BY DEF IdleView, Views
  <1>0. <<>> \in Seq(Commands) /\ \A c \in Commands : <<c>> \in Seq(Commands)
    OBVIOUS
  <1>2. /\ NoReceiver \in Receivers /\ [NoReceiver EXCEPT !.at = "done"] \in Receivers
        /\ NoController \in Sockets /\ [NoController EXCEPT !.at = "done"] \in Sockets
    <2>1. NoReceiver \in Receivers
      BY <1>0, <1>1 DEF NoReceiver, Receivers
    <2>2. [NoReceiver EXCEPT !.at = "done"] \in Receivers
      BY <2>1 DEF Receivers
    <2>3. NoController \in Sockets
      BY DEF NoController, Sockets
    <2>4. [NoController EXCEPT !.at = "done"] \in Sockets
      BY <2>3 DEF Sockets
    <2> QED
      BY <2>1, <2>2, <2>3, <2>4
  <1>3. \A r \in Receivers :
       /\ \A x \in {"accepting", "open", "closing"} : [r EXCEPT !.at = x] \in Receivers
       /\ \A c \in Commands : [r EXCEPT !.at = "sending", !.held = <<c>>] \in Receivers
       /\ \A v \in Views : [r EXCEPT !.at = "open", !.held = <<>>, !.shown = v] \in Receivers
       /\ [r EXCEPT !.selected = FALSE] \in Receivers
    <2> SUFFICES ASSUME NEW r \in Receivers
                 PROVE  /\ \A x \in {"accepting", "open", "closing"} : [r EXCEPT !.at = x] \in Receivers
                        /\ \A c \in Commands : [r EXCEPT !.at = "sending", !.held = <<c>>] \in Receivers
                        /\ \A v \in Views : [r EXCEPT !.at = "open", !.held = <<>>, !.shown = v] \in Receivers
                        /\ [r EXCEPT !.selected = FALSE] \in Receivers
      OBVIOUS
    <2>1. \A cs \in Seq(Commands) : [r EXCEPT !.at = "sending", !.held = cs] \in Receivers
      BY DEF Receivers
    <2>2. \A cs \in Seq(Commands), v \in Views : [r EXCEPT !.at = "open", !.held = cs, !.shown = v] \in Receivers
      BY DEF Receivers
    <2>3. /\ \A x \in {"accepting", "open", "closing"} : [r EXCEPT !.at = x] \in Receivers
          /\ [r EXCEPT !.selected = FALSE] \in Receivers
      BY DEF Receivers
    <2> QED
      BY <1>0, <2>1, <2>2, <2>3, Zenon
  <1>4. \A c \in Sockets :
       /\ \A x \in {"reading", "closing"} :
            /\ [c EXCEPT !.at = x] \in Sockets /\ [c EXCEPT !.at = x, !.message = Undrawn] \in Sockets
            /\ \A t \in Tokens : [c EXCEPT !.at = x, !.token = t] \in Sockets
       /\ \A m \in Commands : [c EXCEPT !.at = "checked", !.message = m] \in Sockets
       /\ [c EXCEPT !.selected = FALSE] \in Sockets
    BY DEF Sockets
  <1>5. \A p \in Presences :
       /\ [p EXCEPT !.cancelled = TRUE] \in Presences
       /\ [p EXCEPT !.closed = TRUE, !.cancelled = TRUE] \in Presences
       /\ \A v \in Views : [p EXCEPT !.connected = TRUE, !.view = v] \in Presences
       /\ \A cs \in Seq(Commands) : [p EXCEPT !.commands = cs] \in Presences
       /\ \A cs \in Seq(Commands), v \in Views : [p EXCEPT !.commands = cs, !.view = v] \in Presences
    BY DEF Presences
  <1>6. \A a \in Authorities : [a EXCEPT !.claimed = TRUE] \in Authorities
    BY DEF Authorities
  <1> QED
    BY <1>1, <1>2, <1>3, <1>4, <1>5, <1>6

\* Pruning: it only takes entries out of the maps, keeps every connected screen and
\* every screen with a ticket, and changes nothing else of a presence than that its
\* context is cancelled.
LEMMA PruneFacts ==
  ASSUME ScreensTypeOK, MapsFinite
  PROVE  /\ Pruned \in [ScreenIds -> {Undrawn} \cup Presences]
         /\ \A s \in ScreenIds : Pruned[s] = Undrawn <=> presence[s] = Undrawn
         /\ \A s \in ScreenIds : presence[s] # Undrawn =>
              /\ Pruned[s].connected = presence[s].connected /\ Pruned[s].view = presence[s].view
              /\ Pruned[s].commands = presence[s].commands /\ Pruned[s].closed = presence[s].closed
         /\ KeptScreens \subseteq screens /\ UnexpiredSessions \subseteq sessions
         /\ UnexpiredTickets \subseteq tickets /\ UnexpiredTickets \subseteq KeptScreens
         /\ \A s \in screens : presence[s].connected => s \in KeptScreens
         /\ IsFiniteSet(KeptScreens) /\ IsFiniteSet(UnexpiredSessions)
         /\ Cardinality(KeptScreens) <= MaxScreens /\ Cardinality(UnexpiredSessions) <= MaxAuthorities
         /\ Cardinality(KeptScreens) \in Nat /\ Cardinality(UnexpiredSessions) \in Nat
  <1>0. ScreensTyped
    BY ScreenFacts
  <1>1. /\ KeptScreens \subseteq screens /\ UnexpiredSessions \subseteq sessions
        /\ UnexpiredTickets \subseteq tickets /\ UnexpiredTickets \subseteq KeptScreens
        /\ \A s \in screens : presence[s].connected => s \in KeptScreens
    BY <1>0 DEF ScreensTyped, KeptScreens, UnexpiredSessions, UnexpiredTickets
  <1>2. /\ IsFiniteSet(KeptScreens) /\ IsFiniteSet(UnexpiredSessions)
        /\ Cardinality(KeptScreens) <= Cardinality(screens)
        /\ Cardinality(UnexpiredSessions) <= Cardinality(sessions)
    BY <1>1, FS_Subset DEF MapsFinite
  <1>3. /\ Cardinality(screens) \in Nat /\ Cardinality(sessions) \in Nat
        /\ Cardinality(KeptScreens) \in Nat /\ Cardinality(UnexpiredSessions) \in Nat
    BY <1>2, FS_CardinalityType DEF MapsFinite
  <1>4. /\ Cardinality(KeptScreens) <= MaxScreens /\ Cardinality(UnexpiredSessions) <= MaxAuthorities
    BY <1>0, <1>2, <1>3, ScreensAssumption DEF ScreensTyped
  <1> DEFINE gone == screens \ KeptScreens
             cut(s) == [presence[s] EXCEPT !.cancelled = TRUE]
  <1>5. Pruned = [s \in ScreenIds |-> IF s \in gone THEN cut(s) ELSE presence[s]]
    BY DEF Pruned, Cancelled
  <1>6. \A s \in gone : s \in ScreenIds /\ presence[s] # Undrawn /\ presence[s] \in Presences
    BY ScreenFacts
  <1>7. \A s \in gone : cut(s) \in Presences
    BY <1>6, ScreenValues
  <1>8. \A s \in gone :
          /\ cut(s).connected = presence[s].connected /\ cut(s).view = presence[s].view
          /\ cut(s).commands = presence[s].commands /\ cut(s).closed = presence[s].closed
    BY <1>6 DEF Presences
  <1> HIDE DEF gone, cut
  <1>9. Pruned \in [ScreenIds -> {Undrawn} \cup Presences]
    BY <1>0, <1>5, <1>7 DEF ScreensTyped
  <1>10. \A s \in ScreenIds : Pruned[s] = Undrawn <=> presence[s] = Undrawn
    BY <1>5, <1>6, <1>7, UndrawnAssumption
  <1>11. \A s \in ScreenIds : presence[s] # Undrawn =>
              /\ Pruned[s].connected = presence[s].connected /\ Pruned[s].view = presence[s].view
              /\ Pruned[s].commands = presence[s].commands /\ Pruned[s].closed = presence[s].closed
    BY <1>5, <1>8
  <1> QED
    BY <1>1, <1>2, <1>3, <1>4, <1>9, <1>10, <1>11

\* What the channel takes is well typed and fits, and the view follows it; a full
\* channel changes nothing.
LEMMA SentFacts ==
  ASSUME NEW p \in Presences, Len(p.commands) <= ChannelCap, NEW c \in Commands
  PROVE  /\ Sent(p, c) \in Presences /\ Len(Sent(p, c).commands) <= ChannelCap
         /\ Sent(p, c).connected = p.connected /\ Sent(p, c).closed = p.closed
         /\ \/ Sent(p, c) = p
            \/ Sent(p, c).commands = Append(p.commands, c) /\ Sent(p, c).view = Applied(p.view, c)
  <1>1. p.commands \in Seq(Commands) /\ p.view \in Views
    BY DEF Presences
  <1>2. PICK v \in Views : v = Applied(p.view, c)
    BY <1>1, AppliedType
  <1>0. \A q \in Seq(Commands) : Append(q, c) \in Seq(Commands) /\ Len(Append(q, c)) = Len(q) + 1
    OBVIOUS
  <1>3. PICK cs \in Seq(Commands) : cs = Append(p.commands, c) /\ Len(cs) = Len(p.commands) + 1
    BY <1>0, <1>1, Zenon
  <1>4. CASE Len(p.commands) < ChannelCap
    <2>1. Sent(p, c) = [p EXCEPT !.commands = cs, !.view = v]
      BY <1>2, <1>3, <1>4 DEF Sent
    <2>2. [p EXCEPT !.commands = cs, !.view = v] \in Presences
      BY ScreenValues
    <2>3. /\ [p EXCEPT !.commands = cs, !.view = v].commands = cs
          /\ [p EXCEPT !.commands = cs, !.view = v].view = v
          /\ [p EXCEPT !.commands = cs, !.view = v].connected = p.connected
          /\ [p EXCEPT !.commands = cs, !.view = v].closed = p.closed
      BY DEF Presences
    <2>4. Len(cs) <= ChannelCap
      BY <1>1, <1>3, <1>4, ScreensAssumption
    <2> QED
      BY <1>2, <1>3, <2>1, <2>2, <2>3, <2>4
  <1>5. CASE ~(Len(p.commands) < ChannelCap)
    <2>1. Sent(p, c) = p
      BY <1>5 DEF Sent
    <2> QED
      BY <2>1
  <1> QED
    BY <1>4, <1>5

-----------------------------------------------------------------------------
(* Steps of the socket handlers.                                           *)

\* A step of a receiver handler alone keeps the invariant when what it holds and
\* shows still leads to what is reported.
LEMMA ReceiverKeeps ==
  ASSUME ScreensIInv, NEW s \in ScreenIds, NEW r \in Receivers,
         receiver' = [receiver EXCEPT ![s] = r], receiver[s].at # "none", r.at # "none",
         r.at \in {"accepting", "open"} => r.held = <<>>,
         r.at = "sending" => \E c \in Commands : r.held = <<c>>,
         r.at \in Serving => Leads(r.shown, r.held \o presence[s].commands, presence[s].view),
         UNCHANGED <<managerVars, clock, controller, panicked>>
  PROVE  ScreensIInv'
  <1>0. /\ UNCHANGED <<screens, presence, tickets, sessions, authority, shut, clock, controller, panicked>>
        /\ receiver'[s] = r /\ \A x \in ScreenIds : x # s => receiver'[x] = receiver[x]
        /\ ScreensTyped /\ receiver' \in [ScreenIds -> Receivers]
    BY ScreenFacts DEF managerVars, ScreensIInv, ScreensTyped
  <1>1. ScreensTyped'
    BY <1>0 DEF ScreensTyped
  <1>2. ScreensTypeOK'
    BY <1>1, ScreensTyping, PTL
  <1>3. ReceiversOK'
    BY <1>0 DEF ScreensIInv, ScreensOK, ReceiversOK, ReceiverOK
  <1>4. ScreensReported'
    BY <1>0 DEF ScreensIInv, ScreensOK, ScreensReported, ScreenReported
  <1>5. TicketsUsedOnce'
    BY <1>0 DEF ScreensIInv, ScreensOK, TicketsUsedOnce
  <1>6. (MapsFinite /\ ChannelsOpen /\ FreshScreens /\ SocketsOK /\ AuthoritiesHaveReceivers /\ ControlExclusive /\ NoChannelPanic)'
    BY <1>0 DEF ScreensIInv, ScreensOK, MapsFinite, ChannelsOpen, FreshScreens, FreshScreen, SocketsOK, SocketOK,
       Controlling, AuthoritiesHaveReceivers, ControlExclusive, NoChannelPanic
  <1> QED
    BY <1>2, <1>3, <1>4, <1>5, <1>6 DEF ScreensIInv, ScreensOK

\* A step of a control handler alone keeps the invariant when it neither takes
\* another token nor comes back to life.
LEMMA SocketKeeps ==
  ASSUME ScreensIInv, NEW k \in Controllers, NEW c \in Sockets,
         controller' = [controller EXCEPT ![k] = c], Controlling(k), c.token = controller[k].token,
         c.at = "checked" => c.message \in Commands,
         UNCHANGED <<managerVars, clock, receiver, panicked>>
  PROVE  ScreensIInv'
  <1>0. /\ UNCHANGED <<screens, presence, tickets, sessions, authority, shut, clock, receiver, panicked>>
        /\ controller'[k] = c /\ \A x \in Controllers : x # k => controller'[x] = controller[x]
        /\ ScreensTyped /\ controller' \in [Controllers -> Sockets]
    BY ScreenFacts DEF managerVars, ScreensIInv, ScreensTyped
  <1>1. ScreensTyped'
    BY <1>0 DEF ScreensTyped
  <1>2. ScreensTypeOK'
    BY <1>1, ScreensTyping, PTL
  <1>3. SocketsOK'
    BY <1>0 DEF ScreensIInv, ScreensOK, SocketsOK, SocketOK, Controlling
  <1>4. ControlExclusive'
    BY <1>0 DEF ScreensIInv, ScreensOK, ControlExclusive, Controlling
  <1>5. (MapsFinite /\ ChannelsOpen /\ FreshScreens /\ ReceiversOK /\ ScreensReported /\ TicketsUsedOnce
           /\ AuthoritiesHaveReceivers /\ NoChannelPanic)'
    BY <1>0 DEF ScreensIInv, ScreensOK, MapsFinite, ChannelsOpen, FreshScreens, FreshScreen, ReceiversOK, ReceiverOK,
       ScreensReported, ScreenReported, TicketsUsedOnce, AuthoritiesHaveReceivers, NoChannelPanic
  <1> QED
    BY <1>2, <1>3, <1>4, <1>5 DEF ScreensIInv, ScreensOK

\* Accepting the receiver's socket.
LEMMA AcceptKeeps ==
  ASSUME ScreensIInv, NEW s \in ScreenIds, NEW ok \in BOOLEAN, AcceptReceiver(s, ok)
  PROVE  ScreensIInv'
  <1> DEFINE r == [receiver[s] EXCEPT !.at = IF ok THEN "open" ELSE "closing"]
  <1>1. receiver' = [receiver EXCEPT ![s] = r] /\ receiver[s].at = "accepting"
          /\ UNCHANGED <<managerVars, clock, controller, panicked>>
    BY DEF AcceptReceiver
  <1>2. receiver[s] \in Receivers
    BY ScreenFacts DEF ScreensIInv
  <1>3. r \in Receivers
    BY <1>2, ScreenValues
  <1>4. r.at \in {"open", "closing"} /\ r.held = receiver[s].held /\ r.shown = receiver[s].shown
    BY <1>2 DEF Receivers
  <1> HIDE DEF r
  <1>5. receiver[s].held = <<>> /\ Leads(receiver[s].shown, receiver[s].held \o presence[s].commands, presence[s].view)
    BY <1>1 DEF ScreensIInv, ScreensOK, ReceiversOK, ReceiverOK, ScreensReported, ScreenReported, Serving
  <1> QED
    BY <1>1, <1>3, <1>4, <1>5, ReceiverKeeps

\* The peer, or the cancelled context, ends the receiver's loop.
LEMMA ClosedKeeps ==
  ASSUME ScreensIInv, NEW s \in ScreenIds, receiver[s].at # "none",
         receiver' = [receiver EXCEPT ![s].at = "closing"], UNCHANGED <<managerVars, clock, controller, panicked>>
  PROVE  ScreensIInv'
  <1> DEFINE r == [receiver[s] EXCEPT !.at = "closing"]
  <1>1. receiver' = [receiver EXCEPT ![s] = r]
    OBVIOUS
  <1>2. receiver[s] \in Receivers
    BY ScreenFacts DEF ScreensIInv
  <1>3. r \in Receivers /\ r.at = "closing"
    BY <1>2, ScreenValues DEF Receivers
  <1> HIDE DEF r
  <1> QED
    BY <1>1, <1>3, ReceiverKeeps DEF Serving

\* Commands on their way: the one held and those in the channel form one sequence.
LEMMA PendingFacts ==
  /\ \A cs \in Seq(Commands) : <<>> \o cs = cs
  /\ \A cs \in Seq(Commands) : cs # <<>> =>
       /\ Head(cs) \in Commands /\ Tail(cs) \in Seq(Commands) /\ Len(Tail(cs)) = Len(cs) - 1
       /\ <<Head(cs)>> \o Tail(cs) = cs
  /\ \A cs \in Seq(Commands), c \in Commands :
       /\ <<c>> \o cs \in Seq(Commands) /\ <<c>> \o cs # <<>>
       /\ Head(<<c>> \o cs) = c /\ Tail(<<c>> \o cs) = cs
  /\ \A hs, cs \in Seq(Commands), c \in Commands :
       hs \o cs \in Seq(Commands) /\ hs \o Append(cs, c) = Append(hs \o cs, c)
  <1>1. \A cs \in Seq(Commands) : <<>> \o cs = cs
    OBVIOUS
  <1>2. \A cs \in Seq(Commands) : cs # <<>> =>
       /\ Head(cs) \in Commands /\ Tail(cs) \in Seq(Commands) /\ Len(Tail(cs)) = Len(cs) - 1
    OBVIOUS
  <1>3. \A cs \in Seq(Commands) : cs # <<>> => <<Head(cs)>> \o Tail(cs) = cs
    OBVIOUS
  <1>4. \A cs \in Seq(Commands), c \in Commands :
       /\ <<c>> \o cs \in Seq(Commands) /\ <<c>> \o cs # <<>>
       /\ Head(<<c>> \o cs) = c
    OBVIOUS
  <1>5. \A cs \in Seq(Commands), c \in Commands : Tail(<<c>> \o cs) = cs
    OBVIOUS
  <1>6. \A hs, cs \in Seq(Commands), c \in Commands :
       hs \o cs \in Seq(Commands) /\ hs \o Append(cs, c) = Append(hs \o cs, c)
    OBVIOUS
  <1> QED
    BY <1>1, <1>2, <1>3, <1>4, <1>5, <1>6

\* The receiver takes the next command: the channel and the handler together still
\* hold the same sequence.
LEMMA TakeKeeps ==
  ASSUME ScreensIInv, NEW s \in ScreenIds, TakeCommand(s)
  PROVE  ScreensIInv'
  <1>0. receiver[s].at = "open" /\ UNCHANGED <<screens, tickets, sessions, authority, shut, clock, controller, panicked>>
    BY DEF TakeCommand
  <1>1. CASE presence[s].commands = <<>>
    <2>1. receiver' = [receiver EXCEPT ![s].at = "closing"] /\ UNCHANGED <<managerVars, clock, controller, panicked>>
      BY <1>0, <1>1 DEF TakeCommand, managerVars
    <2> QED
      BY <1>0, <2>1, ClosedKeeps
  <1>2. CASE presence[s].commands # <<>>
    <2>1. /\ presence[s] # Undrawn /\ presence[s] \in Presences /\ presence[s].commands \in Seq(Commands)
          /\ receiver[s] \in Receivers /\ ScreensTyped
      BY <1>0, ScreenFacts DEF ScreensIInv, ScreensOK, ReceiversOK, ReceiverOK
    <2>2. PICK c \in Commands, cs \in Seq(Commands) :
            /\ c = Head(presence[s].commands) /\ cs = Tail(presence[s].commands)
            /\ Len(cs) = Len(presence[s].commands) - 1 /\ <<c>> \o cs = presence[s].commands
      BY <1>2, <2>1, PendingFacts
    <2>3. PICK r \in Receivers : r = [receiver[s] EXCEPT !.at = "sending", !.held = <<c>>]
      BY <2>1, ScreenValues
    <2>4. r.at = "sending" /\ r.held = <<c>> /\ r.shown = receiver[s].shown
      BY <2>1, <2>3 DEF Receivers
    <2>5. PICK p \in Presences : p = [presence[s] EXCEPT !.commands = cs]
      BY <2>1, ScreenValues
    <2>6. p # Undrawn /\ p.commands = cs /\ p.connected = presence[s].connected /\ p.view = presence[s].view
            /\ p.closed = presence[s].closed
      BY <2>1, <2>5, UndrawnAssumption DEF Presences
    <2>7. receiver' = [receiver EXCEPT ![s] = r] /\ presence' = [presence EXCEPT ![s] = p]
      BY <1>2, <2>2, <2>3, <2>5 DEF TakeCommand
    <2>8. Len(p.commands) <= ChannelCap
      <3>1. Len(presence[s].commands) <= ChannelCap /\ Len(presence[s].commands) \in Nat
        BY <2>1 DEF ScreensTyped
      <3> QED
        BY <2>2, <2>6, <3>1, ScreensAssumption
    <2>9. /\ receiver'[s] = r /\ \A x \in ScreenIds : x # s => receiver'[x] = receiver[x]
          /\ presence'[s] = p /\ \A x \in ScreenIds : x # s => presence'[x] = presence[x]
          /\ receiver' \in [ScreenIds -> Receivers] /\ presence' \in [ScreenIds -> {Undrawn} \cup Presences]
      BY <2>1, <2>7 DEF ScreensTyped
    <2>10. ScreensTyped'
      BY <1>0, <2>1, <2>6, <2>8, <2>9 DEF ScreensTyped
    <2>11. ScreensTypeOK'
      BY <2>10, ScreensTyping, PTL
    <2>12. FreshScreens'
      BY <1>2, <2>1, <2>6, <2>9 DEF ScreensIInv, ScreensOK, FreshScreens, FreshScreen
    <2>13. ReceiversOK'
      BY <2>4, <2>6, <2>9 DEF ScreensIInv, ScreensOK, ReceiversOK, ReceiverOK
    <2>14. ScreensReported'
      <3>1. Leads(receiver[s].shown, receiver[s].held \o presence[s].commands, presence[s].view) /\ receiver[s].held = <<>>
        BY <1>0 DEF ScreensIInv, ScreensOK, ScreensReported, ScreenReported, ReceiversOK, ReceiverOK, Serving
      <3>2. receiver[s].held \o presence[s].commands = r.held \o p.commands
        BY <2>1, <2>2, <2>4, <2>6, <3>1, PendingFacts
      <3> QED
        BY <2>4, <2>6, <2>9, <3>1, <3>2 DEF ScreensIInv, ScreensOK, ScreensReported, ScreenReported, Serving
    <2>15. TicketsUsedOnce'
      BY <1>0, <2>1, <2>4, <2>6, <2>9 DEF ScreensIInv, ScreensOK, TicketsUsedOnce
    <2>16. (ChannelsOpen /\ AuthoritiesHaveReceivers)'
      BY <1>0, <2>1, <2>6, <2>9, ScreenFacts DEF ScreensIInv, ScreensOK, ChannelsOpen, AuthoritiesHaveReceivers
    <2>17. (MapsFinite /\ SocketsOK /\ ControlExclusive /\ NoChannelPanic)'
      BY <1>0 DEF ScreensIInv, ScreensOK, MapsFinite, SocketsOK, SocketOK, Controlling, ControlExclusive, NoChannelPanic
    <2> QED
      BY <2>11, <2>12, <2>13, <2>14, <2>15, <2>16, <2>17 DEF ScreensIInv, ScreensOK
  <1> QED
    BY <1>1, <1>2

\* The receiver writes the command it holds: it shows what the rest starts from.
LEMMA DeliverKeeps ==
  ASSUME ScreensIInv, NEW s \in ScreenIds, NEW written \in BOOLEAN, DeliverCommand(s, written)
  PROVE  ScreensIInv'
  <1>0. receiver[s].at = "sending" /\ UNCHANGED <<managerVars, clock, controller, panicked>>
    BY DEF DeliverCommand
  <1>1. CASE ~(written /\ receiver[s].selected)
    <2>1. receiver' = [receiver EXCEPT ![s].at = "closing"]
      BY <1>1 DEF DeliverCommand
    <2> QED
      BY <1>0, <2>1, ClosedKeeps
  <1>2. CASE written /\ receiver[s].selected
    <2>1. /\ presence[s] # Undrawn /\ presence[s].commands \in Seq(Commands)
          /\ receiver[s] \in Receivers /\ receiver[s].shown \in Views
      BY <1>0, ScreenFacts DEF ScreensIInv, ScreensOK, ReceiversOK, ReceiverOK
    <2>2. PICK c \in Commands : receiver[s].held = <<c>>
      BY <1>0 DEF ScreensIInv, ScreensOK, ReceiversOK, ReceiverOK
    <2>3. PICK v \in Views : v = Applied(receiver[s].shown, c)
      BY <2>1, AppliedType
    <2>4. PICK r \in Receivers : r = [receiver[s] EXCEPT !.at = "open", !.held = <<>>, !.shown = v]
      BY <2>1, ScreenValues
    <2>5. r.at = "open" /\ r.held = <<>> /\ r.shown = v
      BY <2>1, <2>4 DEF Receivers
    <2>6. receiver' = [receiver EXCEPT ![s] = r]
      <3>1. receiver[s].held[1] = c
        BY <2>2
      <3>2. receiver' = [receiver EXCEPT ![s] =
              [receiver[s] EXCEPT !.at = "open", !.held = <<>>, !.shown = Applied(receiver[s].shown, receiver[s].held[1])]]
        BY <1>2 DEF DeliverCommand
      <3> QED
        BY <2>3, <2>4, <3>1, <3>2
    <2>7. Leads(r.shown, r.held \o presence[s].commands, presence[s].view)
      <3>1. Leads(receiver[s].shown, <<c>> \o presence[s].commands, presence[s].view)
        BY <1>0, <2>2 DEF ScreensIInv, ScreensOK, ScreensReported, ScreenReported, Serving
      <3>2. PICK ds \in Seq(Commands) : ds = presence[s].commands
        BY <2>1
      <3>3. PICK cs \in Seq(Commands) : cs = <<c>> \o ds
        BY PendingFacts, Zenon
      <3>4. cs # <<>> /\ Head(cs) = c /\ Tail(cs) = ds
        BY <3>3, PendingFacts, Zenon
      <3>5. Leads(Applied(receiver[s].shown, c), presence[s].commands, presence[s].view)
        BY <2>1, <3>1, <3>2, <3>3, <3>4, LeadsTail
      <3>6. <<>> \o ds = ds
        BY PendingFacts, Zenon
      <3> QED
        BY <2>3, <2>5, <3>2, <3>5, <3>6
    <2> QED
      BY <1>0, <2>5, <2>6, <2>7, ReceiverKeeps
  <1> QED
    BY <1>1, <1>2

\* The browser session behind a socket changes.
LEMMA LeaveKeeps ==
  ASSUME ScreensIInv, LeaveProfile
  PROVE  ScreensIInv'
  <1>1. ASSUME NEW s \in ScreenIds, receiver[s].at \in {"open", "sending"},
               receiver' = [receiver EXCEPT ![s].selected = FALSE],
               controller' = controller, UNCHANGED <<managerVars, clock, panicked>>
        PROVE  ScreensIInv'
    <2>1. receiver[s] \in Receivers
      BY ScreenFacts DEF ScreensIInv
    <2>2. PICK r \in Receivers : r = [receiver[s] EXCEPT !.selected = FALSE]
      BY <2>1, ScreenValues
    <2>3. r.at = receiver[s].at /\ r.held = receiver[s].held /\ r.shown = receiver[s].shown
      BY <2>1, <2>2 DEF Receivers
    <2>4. receiver' = [receiver EXCEPT ![s] = r]
      BY <1>1, <2>2
    <2>5. ReceiverOK(s) /\ ScreenReported(s)
      BY DEF ScreensIInv, ScreensOK, ReceiversOK, ScreensReported
    <2>6. /\ r.at \in {"accepting", "open"} => r.held = <<>>
          /\ r.at = "sending" => \E c \in Commands : r.held = <<c>>
          /\ r.at \in Serving => Leads(r.shown, r.held \o presence[s].commands, presence[s].view)
          /\ receiver[s].at # "none" /\ r.at # "none"
      BY <1>1, <2>3, <2>5 DEF ReceiverOK, ScreenReported
    <2> QED
      BY <1>1, <2>4, <2>6, ReceiverKeeps
  <1>2. ASSUME NEW k \in Controllers, controller[k].at \in {"reading", "checked"},
               controller' = [controller EXCEPT ![k].selected = FALSE],
               receiver' = receiver, UNCHANGED <<managerVars, clock, panicked>>
        PROVE  ScreensIInv'
    <2>1. controller[k] \in Sockets
      BY ScreenFacts DEF ScreensIInv
    <2>2. PICK c \in Sockets : c = [controller[k] EXCEPT !.selected = FALSE]
      BY <2>1, ScreenValues
    <2>3. c.at = controller[k].at /\ c.token = controller[k].token /\ c.message = controller[k].message
      BY <2>1, <2>2 DEF Sockets
    <2>4. controller' = [controller EXCEPT ![k] = c]
      BY <1>2, <2>2
    <2>5. SocketOK(k)
      BY DEF ScreensIInv, ScreensOK, SocketsOK
    <2> QED
      BY <1>2, <2>3, <2>4, <2>5, SocketKeeps DEF SocketOK, Controlling
  <1> QED
    BY <1>1, <1>2 DEF LeaveProfile

\* A control handler reads a message or its read fails.
LEMMA ReadKeeps ==
  ASSUME ScreensIInv, NEW k \in Controllers,
         ControlReadFails(k) \/ \E m \in Commands, ok \in BOOLEAN : ReadMessage(k, m, ok)
  PROVE  ScreensIInv'
  <1>1. controller[k] \in Sockets
    BY ScreenFacts DEF ScreensIInv
  <1>2. /\ controller[k].at = "reading" /\ UNCHANGED <<managerVars, clock, receiver, panicked>>
        /\ \/ controller' = [controller EXCEPT ![k] = [controller[k] EXCEPT !.at = "closing"]]
           \/ \E m \in Commands :
                controller' = [controller EXCEPT ![k] = [controller[k] EXCEPT !.at = "checked", !.message = m]]
    BY DEF ControlReadFails, ReadMessage
  <1>3. PICK c \in Sockets : /\ controller' = [controller EXCEPT ![k] = c] /\ c.token = controller[k].token
                             /\ c.at = "checked" => c.message \in Commands
    <2>1. [controller[k] EXCEPT !.at = "closing"] \in Sockets
      BY <1>1, ScreenValues
    <2>2. /\ [controller[k] EXCEPT !.at = "closing"].at = "closing"
          /\ [controller[k] EXCEPT !.at = "closing"].token = controller[k].token
      BY <1>1 DEF Sockets
    <2>3. ASSUME NEW m \in Commands
          PROVE  /\ [controller[k] EXCEPT !.at = "checked", !.message = m] \in Sockets
                 /\ [controller[k] EXCEPT !.at = "checked", !.message = m].token = controller[k].token
                 /\ [controller[k] EXCEPT !.at = "checked", !.message = m].message = m
      <3>1. [controller[k] EXCEPT !.at = "checked", !.message = m] \in Sockets
        BY <1>1, ScreenValues
      <3>2. /\ [controller[k] EXCEPT !.at = "checked", !.message = m].token = controller[k].token
            /\ [controller[k] EXCEPT !.at = "checked", !.message = m].message = m
        BY <1>1 DEF Sockets
      <3> QED
        BY <3>1, <3>2
    <2>4. CASE controller' = [controller EXCEPT ![k] = [controller[k] EXCEPT !.at = "closing"]]
      <3>1. PICK c \in Sockets : c = [controller[k] EXCEPT !.at = "closing"] /\ c.at = "closing" /\ c.token = controller[k].token
        BY <2>1, <2>2
      <3> QED
        BY <2>4, <3>1
    <2>5. CASE \E m \in Commands :
                 controller' = [controller EXCEPT ![k] = [controller[k] EXCEPT !.at = "checked", !.message = m]]
      <3>1. PICK m \in Commands :
                 controller' = [controller EXCEPT ![k] = [controller[k] EXCEPT !.at = "checked", !.message = m]]
        BY <2>5, Zenon
      <3>2. PICK c \in Sockets : /\ c = [controller[k] EXCEPT !.at = "checked", !.message = m]
                                 /\ c.message = m /\ c.token = controller[k].token
        BY <2>3
      <3> QED
        BY <3>1, <3>2
    <2> QED
      BY <1>2, <2>4, <2>5, Zenon
  <1> QED
    BY <1>2, <1>3, SocketKeeps DEF Controlling

-----------------------------------------------------------------------------
(* Steps of the manager.                                                   *)

\* Listing prunes the maps.
LEMMA ListKeeps ==
  ASSUME ScreensIInv, ListScreens
  PROVE  ScreensIInv'
  <1>T. ScreensTypeOK /\ MapsFinite /\ ScreensTyped
    BY ScreenFacts DEF ScreensIInv, ScreensOK
  <1>0. /\ screens' = KeptScreens /\ tickets' = UnexpiredTickets /\ sessions' = UnexpiredSessions /\ presence' = Pruned
        /\ UNCHANGED <<authority, shut, clock, receiver, controller, panicked>>
    BY DEF ListScreens, PruneLocked
  <1>1. /\ presence' \in [ScreenIds -> {Undrawn} \cup Presences]
        /\ \A s \in ScreenIds : presence'[s] = Undrawn <=> presence[s] = Undrawn
        /\ \A s \in ScreenIds : presence[s] # Undrawn =>
              /\ presence'[s].connected = presence[s].connected /\ presence'[s].view = presence[s].view
              /\ presence'[s].commands = presence[s].commands /\ presence'[s].closed = presence[s].closed
        /\ screens' \subseteq screens /\ sessions' \subseteq sessions
        /\ tickets' \subseteq tickets /\ tickets' \subseteq screens'
        /\ \A s \in screens : presence[s].connected => s \in screens'
        /\ IsFiniteSet(screens') /\ IsFiniteSet(sessions')
        /\ Cardinality(screens') <= MaxScreens /\ Cardinality(sessions') <= MaxAuthorities
    BY <1>T, <1>0, PruneFacts
  <1>2. ScreensTyped'
    BY <1>T, <1>0, <1>1 DEF ScreensTyped
  <1>3. ScreensTypeOK'
    BY <1>2, ScreensTyping, PTL
  <1>4. \A s \in screens : s \in ScreenIds /\ presence[s] # Undrawn
    BY <1>T, ScreenFacts
  <1>5. (ChannelsOpen /\ TicketsUsedOnce)'
    BY <1>0, <1>1, <1>4 DEF ScreensIInv, ScreensOK, ChannelsOpen, TicketsUsedOnce, ScreensTyped
  <1>6. AuthoritiesHaveReceivers'
    BY <1>0, <1>1, <1>4 DEF ScreensIInv, ScreensOK, AuthoritiesHaveReceivers
  <1>7. FreshScreens'
    BY <1>1 DEF ScreensIInv, ScreensOK, FreshScreens, FreshScreen
  <1>8. ReceiversOK'
    BY <1>0, <1>1 DEF ScreensIInv, ScreensOK, ReceiversOK, ReceiverOK
  <1>9. ScreensReported'
    BY <1>0, <1>1 DEF ScreensIInv, ScreensOK, ScreensReported, ScreenReported, ReceiversOK, ReceiverOK, Serving
  <1>10. (MapsFinite /\ SocketsOK /\ ControlExclusive /\ NoChannelPanic)'
    BY <1>0, <1>1 DEF ScreensIInv, ScreensOK, MapsFinite, SocketsOK, SocketOK, Controlling, ControlExclusive, NoChannelPanic
  <1> QED
    BY <1>3, <1>5, <1>6, <1>7, <1>8, <1>9, <1>10 DEF ScreensIInv, ScreensOK

\* A new screen: unconnected, with an unused ticket.
LEMMA AdvertiseKeeps ==
  ASSUME ScreensIInv, NEW s \in ScreenIds, NEW profile \in Profiles, Advertise(s, profile)
  PROVE  ScreensIInv'
  <1>T. ScreensTypeOK /\ MapsFinite /\ ScreensTyped
    BY ScreenFacts DEF ScreensIInv, ScreensOK
  <1>0. /\ presence[s] = Undrawn /\ Cardinality(KeptScreens) < MaxScreens
        /\ screens' = KeptScreens \cup {s} /\ tickets' = UnexpiredTickets \cup {s} /\ sessions' = UnexpiredSessions
        /\ UNCHANGED <<authority, shut, clock, receiver, controller, panicked>>
    BY DEF Advertise
  <1>1. PICK p \in Presences :
          /\ presence' = [Pruned EXCEPT ![s] = p]
          /\ p.connected = FALSE /\ p.view = IdleView /\ p.commands = <<>> /\ p.closed = FALSE
    <2> DEFINE p == [owner |-> profile, expires |-> clock + ScreenTTL, connected |-> FALSE, view |-> IdleView,
                     commands |-> <<>>, closed |-> FALSE, cancelled |-> FALSE]
    <2>0. clock + ScreenTTL \in Nat
      BY <1>T, ScreensAssumption DEF ScreensTyped
    <2>1. <<>> \in Seq(Commands)
      OBVIOUS
    <2>2. p \in Presences
      BY <2>0, <2>1, ScreenValues DEF Presences
    <2>3. presence' = [Pruned EXCEPT ![s] = p]
      BY DEF Advertise
    <2> QED
      BY <2>2, <2>3
  <1>2. p # Undrawn
    BY UndrawnAssumption
  <1>3. /\ presence' \in [ScreenIds -> {Undrawn} \cup Presences]
        /\ presence'[s] = p /\ \A x \in ScreenIds : x # s => presence'[x] = Pruned[x]
        /\ \A x \in ScreenIds : x # s => (presence'[x] = Undrawn <=> presence[x] = Undrawn)
        /\ \A x \in ScreenIds : x # s /\ presence[x] # Undrawn =>
              /\ presence'[x].connected = presence[x].connected /\ presence'[x].view = presence[x].view
              /\ presence'[x].commands = presence[x].commands /\ presence'[x].closed = presence[x].closed
        /\ screens' \subseteq screens \cup {s} /\ sessions' \subseteq sessions
        /\ tickets' \subseteq tickets \cup {s} /\ tickets' \subseteq screens'
        /\ \A x \in screens : presence[x].connected => x \in screens'
        /\ IsFiniteSet(sessions') /\ Cardinality(sessions') <= MaxAuthorities
    BY <1>T, <1>0, <1>1, PruneFacts
  <1>4. IsFiniteSet(screens') /\ Cardinality(screens') <= MaxScreens
    <2>1. IsFiniteSet(KeptScreens) /\ Cardinality(KeptScreens) \in Nat
      BY <1>T, PruneFacts
    <2>2. IsFiniteSet(screens') /\ (Cardinality(screens') = Cardinality(KeptScreens) + 1 \/ Cardinality(screens') = Cardinality(KeptScreens))
      BY <1>0, <2>1, FS_AddElement
    <2> QED
      BY <1>0, <2>1, <2>2, ScreensAssumption
  <1>5. Len(p.commands) = 0 /\ 0 <= ChannelCap
    BY <1>1, ScreensAssumption
  <1>6. \A x \in screens : x \in ScreenIds /\ presence[x] # Undrawn /\ x # s
    BY <1>T, <1>0, ScreenFacts
  <1>7. ScreensTyped'
    BY <1>T, <1>0, <1>2, <1>3, <1>4, <1>5, <1>6 DEF ScreensTyped
  <1>8. ScreensTypeOK'
    BY <1>7, ScreensTyping, PTL
  <1>9. receiver[s].at = "none"
    BY <1>0 DEF ScreensIInv, ScreensOK, ReceiversOK, ReceiverOK
  <1>10. ChannelsOpen'
    BY <1>1, <1>3, <1>6 DEF ScreensIInv, ScreensOK, ChannelsOpen
  <1>11. TicketsUsedOnce'
    BY <1>T, <1>0, <1>1, <1>3, <1>6, <1>9 DEF ScreensIInv, ScreensOK, TicketsUsedOnce, ScreensTyped
  <1>12. AuthoritiesHaveReceivers'
    BY <1>0, <1>3, <1>6 DEF ScreensIInv, ScreensOK, AuthoritiesHaveReceivers
  <1>13. FreshScreens'
    BY <1>1, <1>3 DEF ScreensIInv, ScreensOK, FreshScreens, FreshScreen
  <1>14. ReceiversOK'
    BY <1>0, <1>2, <1>3 DEF ScreensIInv, ScreensOK, ReceiversOK, ReceiverOK
  <1>15. ScreensReported'
    BY <1>0, <1>3, <1>9 DEF ScreensIInv, ScreensOK, ScreensReported, ScreenReported, ReceiversOK, ReceiverOK, Serving
  <1>16. (MapsFinite /\ SocketsOK /\ ControlExclusive /\ NoChannelPanic)'
    BY <1>0, <1>3, <1>4 DEF ScreensIInv, ScreensOK, MapsFinite, SocketsOK, SocketOK, Controlling, ControlExclusive, NoChannelPanic
  <1> QED
    BY <1>8, <1>10, <1>11, <1>12, <1>13, <1>14, <1>15, <1>16 DEF ScreensIInv, ScreensOK

\* A new authority, over a connected screen.
LEMMA AuthorizeKeeps ==
  ASSUME ScreensIInv, NEW t \in Tokens, NEW s \in ScreenIds, NEW profile, Authorize(t, s, profile)
  PROVE  ScreensIInv'
  <1>T. ScreensTypeOK /\ MapsFinite /\ ScreensTyped
    BY ScreenFacts DEF ScreensIInv, ScreensOK
  <1>0. /\ authority[t] = Undrawn /\ s \in KeptScreens /\ presence[s].connected
        /\ Cardinality(UnexpiredSessions) < MaxAuthorities
        /\ screens' = KeptScreens /\ tickets' = UnexpiredTickets /\ presence' = Pruned
        /\ sessions' = UnexpiredSessions \cup {t}
        /\ UNCHANGED <<shut, clock, receiver, controller, panicked>>
    BY DEF Authorize
  <1>1. PICK a \in Authorities : authority' = [authority EXCEPT ![t] = a] /\ a.screen = s
    <2> DEFINE a == [screen |-> s, expires |-> clock + ScreenTTL, claimed |-> FALSE]
    <2>1. clock + ScreenTTL \in Nat
      BY <1>T, ScreensAssumption DEF ScreensTyped
    <2>2. a \in Authorities
      BY <2>1 DEF Authorities
    <2>3. authority' = [authority EXCEPT ![t] = a]
      BY DEF Authorize
    <2> QED
      BY <2>2, <2>3
  <1>2. a # Undrawn
    BY UndrawnAssumption
  <1>3. /\ authority' \in [Tokens -> {Undrawn} \cup Authorities]
        /\ authority'[t] = a /\ \A x \in Tokens : x # t => authority'[x] = authority[x]
    BY <1>T, <1>1 DEF ScreensTyped
  <1>4. /\ presence' \in [ScreenIds -> {Undrawn} \cup Presences]
        /\ \A x \in ScreenIds : presence'[x] = Undrawn <=> presence[x] = Undrawn
        /\ \A x \in ScreenIds : presence[x] # Undrawn =>
              /\ presence'[x].connected = presence[x].connected /\ presence'[x].view = presence[x].view
              /\ presence'[x].commands = presence[x].commands /\ presence'[x].closed = presence[x].closed
        /\ screens' \subseteq screens /\ sessions' \subseteq sessions \cup {t}
        /\ tickets' \subseteq tickets /\ tickets' \subseteq screens'
        /\ \A x \in screens : presence[x].connected => x \in screens'
        /\ IsFiniteSet(screens') /\ Cardinality(screens') <= MaxScreens
    BY <1>T, <1>0, PruneFacts
  <1>5. IsFiniteSet(sessions') /\ Cardinality(sessions') <= MaxAuthorities
    <2>1. IsFiniteSet(UnexpiredSessions) /\ Cardinality(UnexpiredSessions) \in Nat
      BY <1>T, PruneFacts
    <2>2. IsFiniteSet(sessions') /\ (Cardinality(sessions') = Cardinality(UnexpiredSessions) + 1
                                     \/ Cardinality(sessions') = Cardinality(UnexpiredSessions))
      BY <1>0, <2>1, FS_AddElement
    <2> QED
      BY <1>0, <2>1, <2>2, ScreensAssumption
  <1>6. /\ \A x \in screens : x \in ScreenIds /\ presence[x] # Undrawn
        /\ \A x \in sessions : x \in Tokens /\ authority[x] # Undrawn /\ x # t
    BY <1>T, <1>0, ScreenFacts
  <1>7. ScreensTyped'
    BY <1>T, <1>0, <1>2, <1>3, <1>4, <1>5, <1>6 DEF ScreensTyped
  <1>8. ScreensTypeOK'
    BY <1>7, ScreensTyping, PTL
  <1>9. (ChannelsOpen /\ TicketsUsedOnce)'
    BY <1>0, <1>4, <1>6 DEF ScreensIInv, ScreensOK, ChannelsOpen, TicketsUsedOnce, ScreensTyped
  <1>10. AuthoritiesHaveReceivers'
    BY <1>0, <1>1, <1>3, <1>4, <1>6 DEF ScreensIInv, ScreensOK, AuthoritiesHaveReceivers
  <1>11. FreshScreens'
    BY <1>4 DEF ScreensIInv, ScreensOK, FreshScreens, FreshScreen
  <1>12. ReceiversOK'
    BY <1>0, <1>4 DEF ScreensIInv, ScreensOK, ReceiversOK, ReceiverOK
  <1>13. ScreensReported'
    BY <1>0, <1>4 DEF ScreensIInv, ScreensOK, ScreensReported, ScreenReported, ReceiversOK, ReceiverOK, Serving
  <1>14. SocketsOK'
    BY <1>0, <1>3 DEF ScreensIInv, ScreensOK, SocketsOK, SocketOK, Controlling
  <1>15. (MapsFinite /\ ControlExclusive /\ NoChannelPanic)'
    BY <1>0, <1>4, <1>5 DEF ScreensIInv, ScreensOK, MapsFinite, ControlExclusive, NoChannelPanic
  <1> QED
    BY <1>8, <1>9, <1>10, <1>11, <1>12, <1>13, <1>14, <1>15 DEF ScreensIInv, ScreensOK

\* A receiver connects with its ticket, or is refused and the ticket is gone too.
LEMMA ConnectKeeps ==
  ASSUME ScreensIInv, NEW s \in ScreenIds, NEW profile, ConnectReceiver(s, profile)
  PROVE  ScreensIInv'
  <1>T. ScreensTypeOK /\ MapsFinite /\ ScreensTyped
    BY ScreenFacts DEF ScreensIInv, ScreensOK
  <1>0. /\ presence[s] # Undrawn /\ receiver[s].at = "none" /\ tickets' = tickets \ {s}
        /\ UNCHANGED <<screens, sessions, authority, shut, clock, controller, panicked>>
    BY DEF ConnectReceiver, TicketAfter
  <1>1. CASE ~Connectable(s, profile)
    <2>1. UNCHANGED <<presence, receiver>>
      BY <1>1 DEF ConnectReceiver
    <2>2. ScreensTyped'
      BY <1>T, <1>0, <2>1 DEF ScreensTyped
    <2>3. ScreensTypeOK'
      BY <2>2, ScreensTyping, PTL
    <2>4. ScreensOK'
      BY <1>0, <2>1 DEF ScreensIInv, ScreensOK, MapsFinite, ChannelsOpen, FreshScreens, FreshScreen, ReceiversOK, ReceiverOK,
         ScreensReported, ScreenReported, SocketsOK, SocketOK, Controlling, TicketsUsedOnce, AuthoritiesHaveReceivers,
         ControlExclusive, NoChannelPanic
    <2> QED
      BY <2>3, <2>4 DEF ScreensIInv
  <1>2. CASE Connectable(s, profile)
    <2>1. presence[s] \in Presences /\ receiver[s] \in Receivers
      BY <1>T, <1>0, ScreenFacts
    <2>2. presence[s].view = IdleView /\ presence[s].commands = <<>>
      <3>1. ~presence[s].connected
        BY <1>2 DEF Connectable, ScreensIInv, ScreensOK, TicketsUsedOnce
      <3> QED
        BY <1>0, <3>1 DEF ScreensIInv, ScreensOK, FreshScreens, FreshScreen
    <2>3. PICK p \in Presences : presence' = [presence EXCEPT ![s] = p] /\ p.connected = TRUE /\ p.view = IdleView
            /\ p.commands = <<>> /\ p.closed = presence[s].closed
      <3> DEFINE p == [presence[s] EXCEPT !.connected = TRUE, !.view = IdleView]
      <3>1. p \in Presences
        BY <2>1, ScreenValues
      <3>2. [presence[s] EXCEPT !.connected = TRUE, !.view.state = "available"] = p
        <4>1. [IdleView EXCEPT !.state = "available"] = IdleView
          BY DEF IdleView
        <4>2. [presence[s] EXCEPT !.connected = TRUE, !.view.state = "available"]
                = [presence[s] EXCEPT !.connected = TRUE, !.view = [presence[s].view EXCEPT !.state = "available"]]
          BY <2>1 DEF Presences
        <4> QED
          BY <2>2, <4>1, <4>2
      <3>3. presence' = [presence EXCEPT ![s] = p]
        BY <1>2, <3>2 DEF ConnectReceiver
      <3>4. p.connected = TRUE /\ p.view = IdleView /\ p.commands = <<>> /\ p.closed = presence[s].closed
        BY <2>1, <2>2 DEF Presences
      <3> QED
        BY <3>1, <3>3, <3>4
    <2>4. PICK r \in Receivers : receiver' = [receiver EXCEPT ![s] = r] /\ r.at = "accepting"
            /\ r.held = receiver[s].held /\ r.shown = receiver[s].shown
      <3> DEFINE r == [receiver[s] EXCEPT !.at = "accepting"]
      <3>1. r \in Receivers
        BY <2>1, ScreenValues
      <3>2. receiver' = [receiver EXCEPT ![s] = r]
        BY <1>2 DEF ConnectReceiver
      <3>3. r.at = "accepting" /\ r.held = receiver[s].held /\ r.shown = receiver[s].shown
        BY <2>1 DEF Receivers
      <3> QED
        BY <3>1, <3>2, <3>3
    <2>5. r.held = <<>> /\ r.shown = IdleView
      BY <1>0, <2>4 DEF ScreensIInv, ScreensOK, ReceiversOK, ReceiverOK
    <2>6. /\ receiver'[s] = r /\ \A x \in ScreenIds : x # s => receiver'[x] = receiver[x]
          /\ presence'[s] = p /\ \A x \in ScreenIds : x # s => presence'[x] = presence[x]
          /\ receiver' \in [ScreenIds -> Receivers] /\ presence' \in [ScreenIds -> {Undrawn} \cup Presences]
      BY <1>T, <2>3, <2>4 DEF ScreensTyped
    <2>7. p # Undrawn /\ Len(p.commands) = 0 /\ 0 <= ChannelCap
      BY <2>3, UndrawnAssumption, ScreensAssumption
    <2>8. ScreensTyped'
      BY <1>T, <1>0, <2>6, <2>7 DEF ScreensTyped
    <2>9. ScreensTypeOK'
      BY <2>8, ScreensTyping, PTL
    <2>10. FreshScreens'
      BY <2>3, <2>6 DEF ScreensIInv, ScreensOK, FreshScreens, FreshScreen
    <2>11. ReceiversOK'
      BY <2>4, <2>5, <2>6, <2>7 DEF ScreensIInv, ScreensOK, ReceiversOK, ReceiverOK
    <2>12. ScreensReported'
      <3>1. Leads(r.shown, r.held \o p.commands, p.view)
        <4>1. <<>> \o <<>> = <<>>
          OBVIOUS
        <4>2. IdleView \in Views
          BY ScreenValues
        <4> QED
          BY <2>3, <2>5, <4>1, <4>2, LeadsEmpty
      <3> QED
        BY <2>6, <3>1 DEF ScreensIInv, ScreensOK, ScreensReported, ScreenReported
    <2>13. TicketsUsedOnce'
      BY <1>0, <2>6 DEF ScreensIInv, ScreensOK, TicketsUsedOnce
    <2>14. (ChannelsOpen /\ AuthoritiesHaveReceivers)'
      BY <1>T, <1>0, <2>3, <2>6, ScreenFacts DEF ScreensIInv, ScreensOK, ChannelsOpen, AuthoritiesHaveReceivers
    <2>15. (MapsFinite /\ SocketsOK /\ ControlExclusive /\ NoChannelPanic)'
      BY <1>0 DEF ScreensIInv, ScreensOK, MapsFinite, SocketsOK, SocketOK, Controlling, ControlExclusive, NoChannelPanic
    <2> QED
      BY <2>9, <2>10, <2>11, <2>12, <2>13, <2>14, <2>15 DEF ScreensIInv, ScreensOK
  <1> QED
    BY <1>1, <1>2

\* The receiver leaves: its screen goes with every authority over it, and its
\* channel, which was open, is closed.
LEMMA DisconnectKeeps ==
  ASSUME ScreensIInv, NEW s \in ScreenIds, Disconnect(s)
  PROVE  ScreensIInv'
  <1>T. ScreensTypeOK /\ MapsFinite /\ ScreensTyped
    BY ScreenFacts DEF ScreensIInv, ScreensOK
  <1>0. receiver[s].at = "closing" /\ UNCHANGED <<tickets, authority, shut, clock, controller>>
    BY DEF Disconnect
  <1>1. PICK r \in Receivers : receiver' = [receiver EXCEPT ![s] = r] /\ r.at = "done"
    <2>1. [NoReceiver EXCEPT !.at = "done"] \in Receivers
      BY ScreenValues
    <2>2. [NoReceiver EXCEPT !.at = "done"].at = "done"
      BY DEF NoReceiver
    <2> QED
      BY <2>1, <2>2 DEF Disconnect
  <1>2. s \notin tickets
    BY <1>0 DEF ScreensIInv, ScreensOK, TicketsUsedOnce
  <1>3. CASE s \notin screens
    <2>1. UNCHANGED <<screens, sessions, presence, panicked>>
      BY <1>3 DEF Disconnect, StillCurrent
    <2>2. UNCHANGED <<managerVars, clock, controller, panicked>>
      BY <1>0, <2>1 DEF managerVars
    <2> QED
      BY <1>0, <1>1, <2>2, ReceiverKeeps DEF Serving
  <1>4. CASE s \in screens
    <2>1. /\ screens' = screens \ {s} /\ sessions' = {t \in sessions : authority[t].screen # s}
          /\ panicked' = (panicked \/ presence[s].closed)
      BY <1>4 DEF Disconnect, StillCurrent, SessionsAfter
    <2>2. presence[s] # Undrawn /\ presence[s] \in Presences /\ ~presence[s].closed
      BY <1>T, <1>4, ScreenFacts DEF ScreensIInv, ScreensOK, ChannelsOpen
    <2>3. PICK p \in Presences : presence' = [presence EXCEPT ![s] = p] /\ p.connected = presence[s].connected
            /\ p.view = presence[s].view /\ p.commands = presence[s].commands
      <3> DEFINE p == [presence[s] EXCEPT !.closed = TRUE, !.cancelled = TRUE]
      <3>1. p \in Presences
        BY <2>2, ScreenValues
      <3>2. presence' = [presence EXCEPT ![s] = p]
        BY <1>4 DEF Disconnect, StillCurrent
      <3>3. p.connected = presence[s].connected /\ p.view = presence[s].view /\ p.commands = presence[s].commands
        BY <2>2 DEF Presences
      <3> QED
        BY <3>1, <3>2, <3>3
    <2>4. p # Undrawn
      BY UndrawnAssumption
    <2>5. /\ receiver'[s] = r /\ \A x \in ScreenIds : x # s => receiver'[x] = receiver[x]
          /\ presence'[s] = p /\ \A x \in ScreenIds : x # s => presence'[x] = presence[x]
          /\ receiver' \in [ScreenIds -> Receivers] /\ presence' \in [ScreenIds -> {Undrawn} \cup Presences]
      BY <1>T, <1>1, <2>3 DEF ScreensTyped
    <2>6. /\ IsFiniteSet(screens') /\ Cardinality(screens') <= MaxScreens
          /\ IsFiniteSet(sessions') /\ Cardinality(sessions') <= MaxAuthorities
      <3>1. screens' \subseteq screens /\ sessions' \subseteq sessions
        BY <2>1
      <3>2. /\ IsFiniteSet(screens') /\ Cardinality(screens') <= Cardinality(screens)
            /\ IsFiniteSet(sessions') /\ Cardinality(sessions') <= Cardinality(sessions)
        BY <1>T, <3>1, FS_Subset DEF MapsFinite
      <3>3. /\ Cardinality(screens) \in Nat /\ Cardinality(sessions) \in Nat
            /\ Cardinality(screens') \in Nat /\ Cardinality(sessions') \in Nat
        BY <1>T, <3>2, FS_CardinalityType DEF MapsFinite
      <3> QED
        BY <1>T, <3>2, <3>3, ScreensAssumption DEF ScreensTyped
    <2>7. ~panicked /\ panicked' = FALSE
      BY <2>1, <2>2 DEF ScreensIInv, ScreensOK, NoChannelPanic
    <2>8. ScreensTyped'
      <3>1. Len(p.commands) <= ChannelCap
        BY <1>T, <2>2, <2>3 DEF ScreensTyped
      <3>2. /\ screens' \subseteq ScreenIds /\ tickets' \subseteq screens' /\ screens' \subseteq screens
            /\ sessions' \subseteq sessions
        BY <1>T, <1>0, <1>2, <2>1 DEF ScreensTyped
      <3> QED
        BY <1>T, <1>0, <2>4, <2>5, <2>6, <2>7, <3>1, <3>2 DEF ScreensTyped
    <2>9. ScreensTypeOK'
      BY <2>8, ScreensTyping, PTL
    <2>10. ReceiversOK'
      BY <1>1, <2>4, <2>5 DEF ScreensIInv, ScreensOK, ReceiversOK, ReceiverOK
    <2>11. ScreensReported'
      BY <1>1, <2>5 DEF ScreensIInv, ScreensOK, ScreensReported, ScreenReported, Serving
    <2>12. (FreshScreens /\ TicketsUsedOnce)'
      BY <1>0, <1>2, <2>2, <2>3, <2>5 DEF ScreensIInv, ScreensOK, FreshScreens, FreshScreen, TicketsUsedOnce
    <2>13. AuthoritiesHaveReceivers'
      BY <1>T, <1>0, <2>1, <2>5, ScreenFacts DEF ScreensIInv, ScreensOK, AuthoritiesHaveReceivers
    <2>14. (ChannelsOpen /\ NoChannelPanic)'
      BY <1>T, <2>1, <2>5, <2>7, ScreenFacts DEF ScreensIInv, ScreensOK, ChannelsOpen, NoChannelPanic
    <2>15. (MapsFinite /\ SocketsOK /\ ControlExclusive)'
      BY <1>0, <2>6 DEF ScreensIInv, ScreensOK, MapsFinite, SocketsOK, SocketOK, Controlling, ControlExclusive
    <2> QED
      BY <2>9, <2>10, <2>11, <2>12, <2>13, <2>14, <2>15 DEF ScreensIInv, ScreensOK
  <1> QED
    BY <1>3, <1>4

\* A socket claims an authority nobody holds.
LEMMA OpenKeeps ==
  ASSUME ScreensIInv, NEW k \in Controllers, NEW t \in Tokens, NEW profile, NEW ok \in BOOLEAN,
         OpenControl(k, t, profile, ok)
  PROVE  ScreensIInv'
  <1>T. ScreensTypeOK /\ MapsFinite /\ ScreensTyped
    BY ScreenFacts DEF ScreensIInv, ScreensOK
  <1>0. /\ controller[k].at = "none" /\ t \in sessions /\ ~authority[t].claimed
        /\ UNCHANGED <<screens, presence, tickets, sessions, shut, clock, receiver, panicked>>
    BY DEF OpenControl, Claimable
  <1>1. authority[t] # Undrawn /\ authority[t] \in Authorities /\ controller[k] \in Sockets
    BY <1>T, <1>0, ScreenFacts
  <1>2. PICK a \in Authorities : authority' = [authority EXCEPT ![t] = a] /\ a.claimed = TRUE /\ a.screen = authority[t].screen
    <2> DEFINE a == [authority[t] EXCEPT !.claimed = TRUE]
    <2>1. a \in Authorities
      BY <1>1, ScreenValues
    <2>2. authority' = [authority EXCEPT ![t] = a]
      BY DEF OpenControl
    <2>3. a.claimed = TRUE /\ a.screen = authority[t].screen
      BY <1>1 DEF Authorities
    <2> QED
      BY <2>1, <2>2, <2>3
  <1>3. PICK c \in Sockets : controller' = [controller EXCEPT ![k] = c] /\ c.at \in {"reading", "closing"} /\ c.token = t
    <2>1. PICK x \in {"reading", "closing"} : x = IF ok THEN "reading" ELSE "closing"
      OBVIOUS
    <2> DEFINE c == [controller[k] EXCEPT !.at = x, !.token = t]
    <2>2. c \in Sockets
      BY <1>1, ScreenValues
    <2>3. controller' = [controller EXCEPT ![k] = c]
      BY <2>1 DEF OpenControl
    <2>4. c.at = x /\ c.token = t
      BY <1>1 DEF Sockets
    <2> QED
      BY <2>2, <2>3, <2>4
  <1>4. a # Undrawn
    BY UndrawnAssumption
  <1>5. /\ authority' \in [Tokens -> {Undrawn} \cup Authorities] /\ controller' \in [Controllers -> Sockets]
        /\ authority'[t] = a /\ \A x \in Tokens : x # t => authority'[x] = authority[x]
        /\ controller'[k] = c /\ \A x \in Controllers : x # k => controller'[x] = controller[x]
    BY <1>T, <1>2, <1>3 DEF ScreensTyped
  <1>6. ScreensTyped'
    BY <1>T, <1>0, <1>4, <1>5 DEF ScreensTyped
  <1>7. ScreensTypeOK'
    BY <1>6, ScreensTyping, PTL
  <1>8. SocketsOK'
    BY <1>2, <1>3, <1>4, <1>5 DEF ScreensIInv, ScreensOK, SocketsOK, SocketOK, Controlling
  <1>9. \A x \in Controllers : Controlling(x) => controller[x].token # t
    BY <1>0 DEF ScreensIInv, ScreensOK, SocketsOK, SocketOK
  <1>10. ControlExclusive'
    BY <1>3, <1>5, <1>9 DEF ScreensIInv, ScreensOK, ControlExclusive, Controlling
  <1>11. AuthoritiesHaveReceivers'
    BY <1>T, <1>0, <1>2, <1>5, ScreenFacts DEF ScreensIInv, ScreensOK, AuthoritiesHaveReceivers
  <1>12. (MapsFinite /\ ChannelsOpen /\ FreshScreens /\ ReceiversOK /\ ScreensReported /\ TicketsUsedOnce /\ NoChannelPanic)'
    BY <1>0 DEF ScreensIInv, ScreensOK, MapsFinite, ChannelsOpen, FreshScreens, FreshScreen, ReceiversOK, ReceiverOK,
       ScreensReported, ScreenReported, TicketsUsedOnce, NoChannelPanic
  <1> QED
    BY <1>7, <1>8, <1>10, <1>11, <1>12 DEF ScreensIInv, ScreensOK

\* A command: the authority is checked again, and only a screen in the map, whose
\* channel is open, is sent anything.
LEMMA ControlKeeps ==
  ASSUME ScreensIInv, NEW k \in Controllers, Control(k)
  PROVE  ScreensIInv'
  <1>T. ScreensTypeOK /\ MapsFinite /\ ScreensTyped
    BY ScreenFacts DEF ScreensIInv, ScreensOK
  <1>0. controller[k].at = "checked" /\ UNCHANGED <<screens, tickets, authority, shut, clock, receiver>>
    BY DEF Control
  <1>1. controller[k].token \in Tokens /\ authority[controller[k].token] # Undrawn /\ controller[k].message \in Commands
    BY <1>0 DEF ScreensIInv, ScreensOK, SocketsOK, SocketOK, Controlling
  <1>2. PICK t \in Tokens, s \in ScreenIds, m \in Commands :
          t = controller[k].token /\ s = authority[t].screen /\ m = controller[k].message
    BY <1>T, <1>1, ScreenFacts
  <1> DEFINE present == t \in sessions /\ Unexpired(authority[t].expires) /\ s \in screens /\ presence[s].connected
             taken == present /\ Len(presence[s].commands) < ChannelCap
  <1>3. /\ presence' = IF present THEN [presence EXCEPT ![s] = Sent(presence[s], m)] ELSE presence
        /\ panicked' = (panicked \/ (present /\ presence[s].closed))
        /\ sessions' \subseteq sessions
        /\ controller' = [controller EXCEPT ![k] =
             [controller[k] EXCEPT !.at = IF taken THEN "reading" ELSE "closing", !.message = Undrawn]]
    BY <1>2 DEF Control
  <1>4. PICK c \in Sockets : controller' = [controller EXCEPT ![k] = c] /\ c.at \in {"reading", "closing"} /\ c.token = t
    <2>1. PICK x \in {"reading", "closing"} : x = IF taken THEN "reading" ELSE "closing"
      OBVIOUS
    <2>2. controller[k] \in Sockets
      BY <1>T, ScreenFacts
    <2> DEFINE c == [controller[k] EXCEPT !.at = x, !.message = Undrawn]
    <2>3. c \in Sockets
      BY <2>2, ScreenValues
    <2>4. controller' = [controller EXCEPT ![k] = c]
      BY <1>3, <2>1
    <2>5. c.at = x /\ c.token = t
      BY <1>2, <2>2 DEF Sockets
    <2> QED
      BY <2>3, <2>4, <2>5
  <1>5. /\ controller' \in [Controllers -> Sockets] /\ controller'[k] = c
        /\ \A x \in Controllers : x # k => controller'[x] = controller[x]
    BY <1>T, <1>4 DEF ScreensTyped
  <1>6. IsFiniteSet(sessions') /\ Cardinality(sessions') <= MaxAuthorities
    <2>1. IsFiniteSet(sessions') /\ Cardinality(sessions') <= Cardinality(sessions)
      BY <1>T, <1>3, FS_Subset DEF MapsFinite
    <2>2. Cardinality(sessions) \in Nat /\ Cardinality(sessions') \in Nat
      BY <1>T, <2>1, FS_CardinalityType DEF MapsFinite
    <2> QED
      BY <1>T, <2>1, <2>2, ScreensAssumption DEF ScreensTyped
  <1> HIDE DEF present, taken
  <1>7. /\ presence' \in [ScreenIds -> {Undrawn} \cup Presences]
        /\ \A x \in ScreenIds : presence'[x] = Undrawn <=> presence[x] = Undrawn
        /\ \A x \in ScreenIds : presence[x] # Undrawn =>
             /\ presence'[x].connected = presence[x].connected /\ presence'[x].closed = presence[x].closed
             /\ Len(presence'[x].commands) <= ChannelCap
             /\ \/ presence'[x] = presence[x]
                \/ /\ presence[x].connected
                   /\ presence'[x].commands = Append(presence[x].commands, m)
                   /\ presence'[x].view = Applied(presence[x].view, m)
    <2>1. \A x \in ScreenIds : presence[x] # Undrawn => Len(presence[x].commands) <= ChannelCap
      BY <1>T DEF ScreensTyped
    <2>2. CASE ~present
      <3>1. presence' = presence
        BY <1>3, <2>2
      <3> QED
        BY <1>T, <2>1, <3>1 DEF ScreensTyped
    <2>3. CASE present
      <3>1. presence[s] # Undrawn /\ presence[s] \in Presences /\ presence[s].connected
        BY <1>T, <2>3, ScreenFacts DEF present
      <3>2. PICK p \in Presences :
              /\ p = Sent(presence[s], m) /\ Len(p.commands) <= ChannelCap
              /\ p.connected = presence[s].connected /\ p.closed = presence[s].closed
              /\ \/ p = presence[s]
                 \/ p.commands = Append(presence[s].commands, m) /\ p.view = Applied(presence[s].view, m)
        BY <2>1, <3>1, SentFacts
      <3>3. p # Undrawn
        BY UndrawnAssumption
      <3>4. presence' = [presence EXCEPT ![s] = p]
        BY <1>3, <2>3, <3>2
      <3>5. /\ presence'[s] = p /\ \A x \in ScreenIds : x # s => presence'[x] = presence[x]
            /\ presence' \in [ScreenIds -> {Undrawn} \cup Presences]
        BY <1>T, <3>4 DEF ScreensTyped
      <3> QED
        BY <2>1, <3>1, <3>2, <3>3, <3>5
    <2> QED
      BY <2>2, <2>3
  <1>8. panicked' = FALSE
    BY <1>3 DEF present, ScreensIInv, ScreensOK, ChannelsOpen, NoChannelPanic
  <1>9. ScreensTyped'
    <2>1. \A x \in sessions' : x \in Tokens /\ authority'[x] # Undrawn
      BY <1>T, <1>0, <1>3, ScreenFacts
    <2> QED
      BY <1>T, <1>0, <1>5, <1>6, <1>7, <1>8, <2>1 DEF ScreensTyped
  <1>10. ScreensTypeOK'
    BY <1>9, ScreensTyping, PTL
  <1>11. ScreensReported'
    <2> SUFFICES ASSUME NEW x \in ScreenIds, receiver[x].at \in Serving
                 PROVE  Leads(receiver[x].shown, receiver[x].held \o presence'[x].commands, presence'[x].view)
      BY <1>0 DEF ScreensReported, ScreenReported
    <2>1. Leads(receiver[x].shown, receiver[x].held \o presence[x].commands, presence[x].view)
      BY DEF ScreensIInv, ScreensOK, ScreensReported, ScreenReported
    <2>2. /\ presence[x] # Undrawn /\ presence[x].commands \in Seq(Commands)
          /\ receiver[x].held \in Seq(Commands) /\ receiver[x].shown \in Views
      BY <1>T, ScreenFacts DEF ScreensIInv, ScreensOK, ReceiversOK, ReceiverOK, Serving
    <2>3. CASE presence'[x] = presence[x]
      BY <2>1, <2>3
    <2>4. CASE /\ presence'[x].commands = Append(presence[x].commands, m)
               /\ presence'[x].view = Applied(presence[x].view, m)
      <3>1. PICK cs \in Seq(Commands) : cs = receiver[x].held \o presence[x].commands
              /\ receiver[x].held \o Append(presence[x].commands, m) = Append(cs, m)
        <4>1. \A hs, cs \in Seq(Commands) : hs \o cs \in Seq(Commands) /\ hs \o Append(cs, m) = Append(hs \o cs, m)
          BY PendingFacts
        <4> QED
          BY <2>2, <4>1, Zenon
      <3>2. Leads(receiver[x].shown, Append(cs, m), Applied(presence[x].view, m))
        BY <2>1, <2>2, <3>1, LeadsAppend
      <3> QED
        BY <2>4, <3>1, <3>2
    <2> QED
      BY <1>7, <2>2, <2>3, <2>4
  <1>12. FreshScreens'
    BY <1>7 DEF ScreensIInv, ScreensOK, FreshScreens, FreshScreen
  <1>13. ReceiversOK'
    BY <1>0, <1>7 DEF ScreensIInv, ScreensOK, ReceiversOK, ReceiverOK
  <1>14. SocketsOK'
    BY <1>0, <1>1, <1>2, <1>4, <1>5 DEF ScreensIInv, ScreensOK, SocketsOK, SocketOK, Controlling
  <1>15. ControlExclusive'
    BY <1>0, <1>2, <1>4, <1>5 DEF ScreensIInv, ScreensOK, ControlExclusive
  <1>16. AuthoritiesHaveReceivers'
    BY <1>T, <1>0, <1>3, <1>7, ScreenFacts DEF ScreensIInv, ScreensOK, AuthoritiesHaveReceivers
  <1>17. (ChannelsOpen /\ TicketsUsedOnce)'
    BY <1>T, <1>0, <1>7, ScreenFacts DEF ScreensIInv, ScreensOK, ChannelsOpen, TicketsUsedOnce, ScreensTyped
  <1>18. (MapsFinite /\ NoChannelPanic)'
    BY <1>0, <1>6, <1>8 DEF ScreensIInv, ScreensOK, MapsFinite, NoChannelPanic
  <1> QED
    BY <1>10, <1>11, <1>12, <1>13, <1>14, <1>15, <1>16, <1>17, <1>18 DEF ScreensIInv, ScreensOK

\* The authority ends with its socket.
LEMMA CloseKeeps ==
  ASSUME ScreensIInv, NEW k \in Controllers, CloseControl(k)
  PROVE  ScreensIInv'
  <1>T. ScreensTypeOK /\ MapsFinite /\ ScreensTyped
    BY ScreenFacts DEF ScreensIInv, ScreensOK
  <1>0. /\ UNCHANGED <<screens, presence, tickets, authority, shut, clock, receiver, panicked>>
        /\ sessions' \subseteq sessions
    BY DEF CloseControl
  <1>1. PICK c \in Sockets : controller' = [controller EXCEPT ![k] = c] /\ c.at = "done"
    <2>1. [NoController EXCEPT !.at = "done"] \in Sockets
      BY ScreenValues
    <2>2. [NoController EXCEPT !.at = "done"].at = "done"
      BY DEF NoController
    <2> QED
      BY <2>1, <2>2 DEF CloseControl
  <1>2. /\ controller' \in [Controllers -> Sockets] /\ controller'[k] = c
        /\ \A x \in Controllers : x # k => controller'[x] = controller[x]
    BY <1>T, <1>1 DEF ScreensTyped
  <1>3. IsFiniteSet(sessions') /\ Cardinality(sessions') <= MaxAuthorities
    <2>1. IsFiniteSet(sessions') /\ Cardinality(sessions') <= Cardinality(sessions)
      BY <1>T, <1>0, FS_Subset DEF MapsFinite
    <2>2. Cardinality(sessions) \in Nat /\ Cardinality(sessions') \in Nat
      BY <1>T, <2>1, FS_CardinalityType DEF MapsFinite
    <2> QED
      BY <1>T, <2>1, <2>2, ScreensAssumption DEF ScreensTyped
  <1>4. ScreensTyped'
    BY <1>T, <1>0, <1>2, <1>3 DEF ScreensTyped
  <1>5. ScreensTypeOK'
    BY <1>4, ScreensTyping, PTL
  <1>6. (SocketsOK /\ ControlExclusive)'
    BY <1>0, <1>1, <1>2 DEF ScreensIInv, ScreensOK, SocketsOK, SocketOK, Controlling, ControlExclusive
  <1>7. (MapsFinite /\ ChannelsOpen /\ FreshScreens /\ ReceiversOK /\ ScreensReported /\ TicketsUsedOnce
           /\ AuthoritiesHaveReceivers /\ NoChannelPanic)'
    BY <1>0, <1>3 DEF ScreensIInv, ScreensOK, MapsFinite, ChannelsOpen, FreshScreens, FreshScreen, ReceiversOK, ReceiverOK,
       ScreensReported, ScreenReported, TicketsUsedOnce, AuthoritiesHaveReceivers, NoChannelPanic
  <1> QED
    BY <1>5, <1>6, <1>7 DEF ScreensIInv, ScreensOK

\* Shutdown closes every channel of the map once and empties the maps.
LEMMA ShutdownKeeps ==
  ASSUME ScreensIInv, ShutdownScreens
  PROVE  ScreensIInv'
  <1>T. ScreensTypeOK /\ MapsFinite /\ ScreensTyped
    BY ScreenFacts DEF ScreensIInv, ScreensOK
  <1>0. /\ screens' = {} /\ sessions' = {} /\ tickets' = {} /\ shut' = TRUE
        /\ panicked' = (panicked \/ \E s \in screens : presence[s].closed)
        /\ UNCHANGED <<authority, clock, receiver, controller>>
    BY DEF ShutdownScreens, ScreensAfterShutdown
  <1> DEFINE ended(s) == [presence[s] EXCEPT !.closed = TRUE, !.cancelled = TRUE]
  <1>1. presence' = [s \in ScreenIds |-> IF s \in screens THEN ended(s) ELSE presence[s]]
    BY DEF ShutdownScreens
  <1>2. \A s \in screens : s \in ScreenIds /\ presence[s] # Undrawn /\ presence[s] \in Presences
    BY <1>T, ScreenFacts
  <1>3. \A s \in screens : ended(s) \in Presences
    BY <1>2, ScreenValues
  <1>4. \A s \in screens : /\ ended(s).connected = presence[s].connected /\ ended(s).view = presence[s].view
                            /\ ended(s).commands = presence[s].commands
    BY <1>2 DEF Presences
  <1> HIDE DEF ended
  <1>5. /\ presence' \in [ScreenIds -> {Undrawn} \cup Presences]
        /\ \A s \in ScreenIds : presence'[s] = Undrawn <=> presence[s] = Undrawn
        /\ \A s \in ScreenIds : presence[s] # Undrawn =>
             /\ presence'[s].connected = presence[s].connected /\ presence'[s].view = presence[s].view
             /\ presence'[s].commands = presence[s].commands
    <2>1. presence' \in [ScreenIds -> {Undrawn} \cup Presences]
      BY <1>T, <1>1, <1>3 DEF ScreensTyped
    <2>2. \A s \in ScreenIds : presence'[s] = Undrawn <=> presence[s] = Undrawn
      BY <1>1, <1>2, <1>3, UndrawnAssumption
    <2>3. \A s \in ScreenIds : presence[s] # Undrawn =>
             /\ presence'[s].connected = presence[s].connected /\ presence'[s].view = presence[s].view
             /\ presence'[s].commands = presence[s].commands
      BY <1>1, <1>4
    <2> QED
      BY <2>1, <2>2, <2>3
  <1>6. panicked' = FALSE
    BY <1>0 DEF ScreensIInv, ScreensOK, ChannelsOpen, NoChannelPanic
  <1>7. /\ IsFiniteSet(screens') /\ Cardinality(screens') <= MaxScreens
        /\ IsFiniteSet(sessions') /\ Cardinality(sessions') <= MaxAuthorities
    BY <1>0, FS_EmptySet, ScreensAssumption
  <1>8. ScreensTyped'
    BY <1>T, <1>0, <1>5, <1>6, <1>7 DEF ScreensTyped
  <1>9. ScreensTypeOK'
    BY <1>8, ScreensTyping, PTL
  <1>10. FreshScreens'
    BY <1>5 DEF ScreensIInv, ScreensOK, FreshScreens, FreshScreen
  <1>11. ReceiversOK'
    BY <1>0, <1>5 DEF ScreensIInv, ScreensOK, ReceiversOK, ReceiverOK
  <1>12. ScreensReported'
    BY <1>0, <1>5 DEF ScreensIInv, ScreensOK, ScreensReported, ScreenReported, ReceiversOK, ReceiverOK, Serving
  <1>13. (ChannelsOpen /\ TicketsUsedOnce /\ AuthoritiesHaveReceivers)'
    BY <1>0 DEF ChannelsOpen, TicketsUsedOnce, AuthoritiesHaveReceivers
  <1>14. (MapsFinite /\ SocketsOK /\ ControlExclusive /\ NoChannelPanic)'
    BY <1>0, <1>6, <1>7 DEF ScreensIInv, ScreensOK, MapsFinite, SocketsOK, SocketOK, Controlling, ControlExclusive, NoChannelPanic
  <1> QED
    BY <1>9, <1>10, <1>11, <1>12, <1>13, <1>14 DEF ScreensIInv, ScreensOK

\* Time passes, or nothing happens.
LEMMA TickKeeps ==
  ASSUME ScreensIInv, ScreenTick \/ UNCHANGED screenVars
  PROVE  ScreensIInv'
  <1>T. ScreensTypeOK /\ ScreensTyped
    BY ScreenFacts DEF ScreensIInv
  <1>1. UNCHANGED <<screens, presence, tickets, sessions, authority, shut, receiver, controller, panicked>>
    BY DEF ScreenTick, screenVars, managerVars
  <1>2. clock' \in 0 .. MaxScreenTime
    BY <1>T, ScreensAssumption DEF ScreensTyped, ScreenTick, screenVars
  <1>3. ScreensTyped'
    BY <1>T, <1>1, <1>2 DEF ScreensTyped
  <1>4. ScreensTypeOK'
    BY <1>3, ScreensTyping, PTL
  <1>5. ScreensOK'
    BY <1>1 DEF ScreensIInv, ScreensOK, MapsFinite, ChannelsOpen, FreshScreens, FreshScreen, ReceiversOK, ReceiverOK,
       ScreensReported, ScreenReported, SocketsOK, SocketOK, Controlling, TicketsUsedOnce, AuthoritiesHaveReceivers,
       ControlExclusive, NoChannelPanic
  <1> QED
    BY <1>4, <1>5 DEF ScreensIInv

-----------------------------------------------------------------------------
(* The theorems.                                                           *)

\* Every step keeps the invariant.
LEMMA ScreensStepKeeps == ScreensIInv /\ [ScreensNext]_screenVars => ScreensIInv'
  <1> SUFFICES ASSUME ScreensIInv, [ScreensNext]_screenVars PROVE ScreensIInv'
    OBVIOUS
  <1>1. ASSUME NEW s \in ScreenIds, ReceiverStep(s) \/ ReceiverClosed(s) PROVE ScreensIInv'
    BY <1>1, AcceptKeeps, DeliverKeeps, TakeKeeps, DisconnectKeeps, ClosedKeeps DEF ReceiverStep, ReceiverClosed
  <1>2. ASSUME NEW k \in Controllers,
               ControllerStep(k) \/ ControlReadFails(k) \/ \E c \in Commands, ok \in BOOLEAN : ReadMessage(k, c, ok)
        PROVE  ScreensIInv'
    BY <1>2, ControlKeeps, CloseKeeps, ReadKeeps DEF ControllerStep
  <1> QED
    BY <1>1, <1>2, ListKeeps, ShutdownKeeps, LeaveKeeps, TickKeeps, AdvertiseKeeps, ConnectKeeps, AuthorizeKeeps,
       OpenKeeps DEF ScreensNext

\* The invariant holds in every reachable state.
LEMMA ScreensInductive == ScreensSpec => []ScreensIInv
  <1>1. ScreensInit => ScreensIInv
    <2> SUFFICES ASSUME ScreensInit PROVE ScreensIInv
      OBVIOUS
    <2>1. /\ \A s \in ScreenIds : presence[s] = Undrawn /\ receiver[s] = NoReceiver
          /\ \A k \in Controllers : controller[k] = NoController
          /\ screens = {} /\ tickets = {} /\ sessions = {} /\ panicked = FALSE
      BY DEF ScreensInit
    <2>2. /\ NoReceiver.at = "none" /\ NoReceiver.shown = IdleView /\ NoReceiver.held = <<>>
          /\ NoController.at = "none"
      BY DEF NoReceiver, NoController
    <2>3. MapsFinite /\ Cardinality(screens) = 0 /\ Cardinality(sessions) = 0
      BY <2>1, FS_EmptySet DEF MapsFinite
    <2>4. receiver \in [ScreenIds -> Receivers] /\ controller \in [Controllers -> Sockets]
      BY ScreenValues DEF ScreensInit
    <2>5. ScreensTyped
      <3>1. presence \in [ScreenIds -> {Undrawn} \cup Presences] /\ authority \in [Tokens -> {Undrawn} \cup Authorities]
        BY DEF ScreensInit
      <3>2. clock = 0 /\ shut = FALSE /\ 0 \in 0 .. MaxScreenTime /\ 0 <= MaxScreens /\ 0 <= MaxAuthorities
        BY ScreensAssumption DEF ScreensInit
      <3> QED
        BY <2>1, <2>3, <2>4, <3>1, <3>2 DEF ScreensTyped
    <2>6. ScreensTypeOK
      BY <2>5, ScreensTyping
    <2>7. ScreensOK
      BY <2>1, <2>2, <2>3 DEF ScreensOK, ChannelsOpen, FreshScreens, FreshScreen, ReceiversOK, ReceiverOK,
         ScreensReported, ScreenReported, Serving, SocketsOK, SocketOK, Controlling, TicketsUsedOnce,
         AuthoritiesHaveReceivers, ControlExclusive, NoChannelPanic
    <2> QED
      BY <2>6, <2>7 DEF ScreensIInv
  <1> QED
    BY <1>1, ScreensStepKeeps, PTL DEF ScreensSpec

\* However receivers, controllers, pruning and shutdown interleave, a ticket is used
\* once, every control authority is over a connected screen and held by one socket,
\* the maps keep their limits, and no channel is closed twice or sent to when closed.
THEOREM ScreensCorrect == ScreensSpec => []ScreensInv
  <1>1. ScreensIInv => ScreensInv
    BY DEF ScreensIInv, ScreensOK, ScreensInv
  <1> QED
    BY <1>1, ScreensInductive, PTL

\* What List reports of a connected screen is what its receiver shows once it was
\* sent every command accepted for it, in order, for channels of any capacity.
THEOREM ReportsWhatIsShown == ScreensSpec => []ReportedIsShown
  <1>1. ScreensIInv => ReportedIsShown
    <2> SUFFICES ASSUME ScreensIInv, NEW s \in screens, receiver[s].at \in Serving
                 PROVE  presence[s].view = Replayed(receiver[s].shown, receiver[s].held \o presence[s].commands)
      BY DEF ReportedIsShown, Serving
    <2>1. /\ s \in ScreenIds /\ presence[s].commands \in Seq(Commands) /\ receiver[s].held \in Seq(Commands)
      BY ScreenFacts DEF ScreensIInv
    <2>2. receiver[s].held \o presence[s].commands \in Seq(Commands)
      BY <2>1
    <2>3. Leads(receiver[s].shown, receiver[s].held \o presence[s].commands, presence[s].view)
      BY <2>1 DEF ScreensIInv, ScreensOK, ScreensReported, ScreenReported
    <2> QED
      BY <2>2, <2>3, ReplayedIs
  <1> QED
    BY <1>1, ScreensInductive, PTL
=============================================================================
