------------------------------ MODULE Screens ------------------------------
(**************************************************************************)
(* Screen presence and control: screens.Manager and the two WebSocket       *)
(* handlers over it.  A receiver advertises a screen, connects with its     *)
(* one-use ticket and is sent commands through a bounded channel; a         *)
(* controller is authorized for a connected screen and sends commands until *)
(* its authority expires, it hands off or the receiver leaves.              *)
(*                                                                          *)
(* Every critical section of the manager's mutex is one action; a handler   *)
(* may be overtaken between two of them.  Random identifiers are members of *)
(* ScreenIds and Tokens that are used once.                                 *)
(**************************************************************************)
EXTENDS Integers, Sequences, FiniteSets

CONSTANTS
  ScreenIds,       \* identifiers of screens, each with its one ticket
  Tokens,          \* control tokens
  Controllers,     \* control sockets
  Profiles,        \* viewer profiles
  Undrawn,         \* an identifier not drawn yet, no message
  MaxScreens,      \* advertised screens (128 in the code)
  MaxAuthorities,  \* control sessions (128 in the code)
  ChannelCap,      \* buffered commands of one screen (8 in the code)
  ScreenTTL,       \* life of a ticket, an unconnected screen and a token
  MaxScreenTime    \* bound on the clock
ASSUME ScreensAssumption ==
  /\ MaxScreens \in Nat /\ MaxAuthorities \in Nat /\ ChannelCap \in Nat \ {0}
  /\ ScreenTTL \in Nat \ {0} /\ MaxScreenTime \in Nat

VARIABLES
  screens,     \* Manager.screens: the advertised screens
  presence,    \* their presence records; those no longer in the map too
  tickets,     \* Manager.tickets: the screens whose ticket is unused
  sessions,    \* Manager.sessions: the valid control tokens
  authority,   \* their authority records
  shut,        \* Manager.closed
  clock,       \* time.Now
  receiver,    \* the receiver handler of each screen
  controller,  \* the control handlers
  panicked     \* a channel was closed twice or sent to after its close

managerVars == <<screens, presence, tickets, sessions, authority, shut>>
screenVars == <<managerVars, clock, receiver, controller, panicked>>

\* What a screen shows: its state, whether it has an item, and its position.
IdleView == [state |-> "available", item |-> FALSE, position |-> 0]
Views == [state : {"available", "playing", "paused"}, item : BOOLEAN, position : 0 .. 1]
Commands == {[type |-> "play", position |-> 1], [type |-> "seek", position |-> 0],
             [type |-> "pause", position |-> 0], [type |-> "handoff", position |-> 0]}

Presences == [owner : Profiles, expires : Nat, connected : BOOLEAN, view : Views,
              commands : Seq(Commands), closed : BOOLEAN, cancelled : BOOLEAN]
Authorities == [screen : ScreenIds, expires : Nat, claimed : BOOLEAN]
ASSUME UndrawnAssumption == Undrawn \notin Presences \cup Authorities \cup Tokens \cup Commands

\* The maps, records and handlers are well formed, and no channel is over full.
ScreensTypeOK ==
  /\ screens \subseteq ScreenIds /\ tickets \subseteq screens
  /\ presence \in [ScreenIds -> {Undrawn} \cup Presences]
  /\ \A s \in ScreenIds : IF presence[s] = Undrawn THEN s \notin screens
                          ELSE Len(presence[s].commands) <= ChannelCap
  /\ authority \in [Tokens -> {Undrawn} \cup Authorities]
  /\ sessions \subseteq {t \in Tokens : authority[t] # Undrawn}
  /\ Cardinality(screens) <= MaxScreens /\ Cardinality(sessions) <= MaxAuthorities
  /\ shut \in BOOLEAN /\ clock \in 0 .. MaxScreenTime /\ panicked \in BOOLEAN
  /\ receiver \in [ScreenIds -> [at : {"none", "accepting", "open", "sending", "closing", "done"},
                                 selected : BOOLEAN, held : Seq(Commands), shown : Views]]
  /\ controller \in [Controllers -> [at : {"none", "reading", "checked", "closing", "done"},
                                     selected : BOOLEAN, token : {Undrawn} \cup Tokens,
                                     message : {Undrawn} \cup Commands]]

NoReceiver == [at |-> "none", selected |-> TRUE, held |-> <<>>, shown |-> IdleView]
NoController == [at |-> "none", selected |-> TRUE, token |-> Undrawn, message |-> Undrawn]

ScreensInit ==
  /\ screens = {} /\ presence = [s \in ScreenIds |-> Undrawn] /\ tickets = {}
  /\ sessions = {} /\ authority = [t \in Tokens |-> Undrawn]
  /\ shut = FALSE /\ clock = 0 /\ panicked = FALSE
  /\ receiver = [s \in ScreenIds |-> NoReceiver]
  /\ controller = [k \in Controllers |-> NoController]

-----------------------------------------------------------------------------
(* The manager.                                                            *)

Unexpired(expires) == clock < expires

\* pruneLocked: what is left of the maps.  A pruned screen was never connected:
\* its context is cancelled, its channel stays open.
UnexpiredTickets == {s \in tickets : Unexpired(presence[s].expires)}
UnexpiredSessions == {t \in sessions : Unexpired(authority[t].expires)}
KeptScreens == {s \in screens : presence[s].connected \/ Unexpired(presence[s].expires)}
Cancelled(gone) == [s \in ScreenIds |-> IF s \in gone THEN [presence[s] EXCEPT !.cancelled = TRUE]
                                        ELSE presence[s]]
Pruned == Cancelled(screens \ KeptScreens)

PruneLocked ==
  /\ screens' = KeptScreens /\ tickets' = UnexpiredTickets
  /\ sessions' = UnexpiredSessions /\ presence' = Pruned

\* List and ListAll prune before they answer.
ListScreens ==
  /\ PruneLocked
  /\ UNCHANGED <<authority, shut, clock, receiver, controller, panicked>>

Advertise(s, profile) ==
  /\ ~shut /\ presence[s] = Undrawn
  /\ Cardinality(KeptScreens) < MaxScreens
  /\ screens' = KeptScreens \cup {s}
  /\ tickets' = UnexpiredTickets \cup {s}
  /\ sessions' = UnexpiredSessions
  /\ presence' = [Pruned EXCEPT ![s] =
       [owner |-> profile, expires |-> clock + ScreenTTL, connected |-> FALSE, view |-> IdleView,
        commands |-> <<>>, closed |-> FALSE, cancelled |-> FALSE]]
  /\ UNCHANGED <<authority, shut, clock, receiver, controller, panicked>>

\* Either outcome of ConnectReceiver uses the ticket up.
TicketAfter(s) == tickets \ {s}

Connectable(s, profile) ==
  s \in tickets /\ s \in screens /\ presence[s].owner = profile
    /\ Unexpired(presence[s].expires) /\ ~shut

ConnectReceiver(s, profile) ==
  /\ presence[s] # Undrawn /\ receiver[s].at = "none"
  /\ tickets' = TicketAfter(s)
  /\ IF Connectable(s, profile)
     THEN /\ presence' = [presence EXCEPT ![s] = [@ EXCEPT !.connected = TRUE, !.view.state = "available"]]
          /\ receiver' = [receiver EXCEPT ![s].at = "accepting"]
     ELSE UNCHANGED <<presence, receiver>>
  /\ UNCHANGED <<screens, sessions, authority, shut, clock, controller, panicked>>

\* disconnect acts only on the presence the map still has.
StillCurrent(s) == s \in screens

\* Mutant of SessionsAfter: the authorities over a departed screen are kept.
SessionsKept(s) == sessions

\* The authorities over a screen go with its receiver.
SessionsAfter(s) == {t \in sessions : authority[t].screen # s}

Disconnect(s) ==
  /\ receiver[s].at = "closing"
  /\ receiver' = [receiver EXCEPT ![s] = [NoReceiver EXCEPT !.at = "done"]]
  /\ IF StillCurrent(s)
     THEN /\ screens' = screens \ {s} /\ sessions' = SessionsAfter(s)
          /\ presence' = [presence EXCEPT ![s] = [@ EXCEPT !.closed = TRUE, !.cancelled = TRUE]]
          /\ panicked' = (panicked \/ presence[s].closed)
     ELSE UNCHANGED <<screens, sessions, presence, panicked>>
  /\ UNCHANGED <<tickets, authority, shut, clock, controller>>

Authorize(t, s, profile) ==
  /\ authority[t] = Undrawn
  /\ s \in KeptScreens /\ presence[s].connected /\ presence[s].owner = profile
  /\ Cardinality(UnexpiredSessions) < MaxAuthorities
  /\ screens' = KeptScreens /\ tickets' = UnexpiredTickets /\ presence' = Pruned
  /\ sessions' = UnexpiredSessions \cup {t}
  /\ authority' = [authority EXCEPT ![t] =
       [screen |-> s, expires |-> clock + ScreenTTL, claimed |-> FALSE]]
  /\ UNCHANGED <<shut, clock, receiver, controller, panicked>>

\* The checks of ControlContext on the authority.
Claimable(t) ==
  t \in sessions /\ ~authority[t].claimed /\ ~shut /\ Unexpired(authority[t].expires)

\* screenControl up to its loop: ControlContext claims the authority; when the
\* upgrade fails the deferred cancel releases it.
OpenControl(k, t, profile, accepted) ==
  /\ controller[k].at = "none" /\ Claimable(t)
  /\ LET s == authority[t].screen IN
       presence[s].owner = profile /\ s \in screens /\ presence[s].connected
  /\ authority' = [authority EXCEPT ![t].claimed = TRUE]
  /\ controller' = [controller EXCEPT ![k] =
       [@ EXCEPT !.at = IF accepted THEN "reading" ELSE "closing", !.token = t]]
  /\ UNCHANGED <<screens, presence, tickets, sessions, shut, clock, receiver, panicked>>

\* The effect of a command on what the screen shows.
Applied(view, command) ==
  CASE command.type = "play" -> [state |-> "playing", item |-> TRUE, position |-> command.position]
    [] command.type = "pause" -> [view EXCEPT !.state = "paused"]
    [] command.type = "seek" -> [view EXCEPT !.position = command.position]
    [] command.type = "handoff" -> IdleView

\* Mutant of Sent: the screen is updated before the channel takes the command.
SentOptimistically(p, command) ==
  IF Len(p.commands) < ChannelCap
  THEN [p EXCEPT !.commands = Append(@, command), !.view = Applied(@, command)]
  ELSE [p EXCEPT !.view = Applied(@, command)]

\* The non-blocking send: a full channel drops the command and leaves the view.
Sent(p, command) ==
  IF Len(p.commands) < ChannelCap
  THEN [p EXCEPT !.commands = Append(@, command), !.view = Applied(@, command)]
  ELSE p

\* Control: the authority is checked again for every command.
Control(k) ==
  LET t == controller[k].token
      s == authority[t].screen
      valid == t \in sessions
      live == valid /\ Unexpired(authority[t].expires)
      present == live /\ s \in screens /\ presence[s].connected
      taken == present /\ Len(presence[s].commands) < ChannelCap
  IN
  /\ controller[k].at = "checked"
  /\ presence' = IF present THEN [presence EXCEPT ![s] = Sent(@, controller[k].message)] ELSE presence
  /\ panicked' = (panicked \/ (present /\ presence[s].closed))
  /\ sessions' = IF valid /\ (~live \/ (taken /\ controller[k].message.type = "handoff"))
                 THEN sessions \ {t} ELSE sessions
  /\ controller' = [controller EXCEPT ![k] =
       [@ EXCEPT !.at = IF taken THEN "reading" ELSE "closing", !.message = Undrawn]]
  /\ UNCHANGED <<screens, tickets, authority, shut, clock, receiver>>

\* The cancel function ControlContext returned: the authority ends with its socket.
CloseControl(k) ==
  /\ controller[k].at = "closing"
  /\ controller' = [controller EXCEPT ![k] = [NoController EXCEPT !.at = "done"]]
  /\ sessions' = sessions \ {controller[k].token}
  /\ UNCHANGED <<screens, presence, tickets, authority, shut, clock, receiver, panicked>>

ScreensAfterShutdown == {}

ShutdownScreens ==
  /\ ~shut /\ shut' = TRUE
  /\ presence' = [s \in ScreenIds |-> IF s \in screens
                    THEN [presence[s] EXCEPT !.closed = TRUE, !.cancelled = TRUE] ELSE presence[s]]
  /\ panicked' = (panicked \/ \E s \in screens : presence[s].closed)
  /\ screens' = ScreensAfterShutdown /\ sessions' = {} /\ tickets' = {}
  /\ UNCHANGED <<authority, clock, receiver, controller>>

-----------------------------------------------------------------------------
(* The socket handlers between their calls of the manager.                 *)

\* websocket.Accept; a failed upgrade disconnects.
AcceptReceiver(s, accepted) ==
  /\ receiver[s].at = "accepting"
  /\ receiver' = [receiver EXCEPT ![s].at = IF accepted THEN "open" ELSE "closing"]
  /\ UNCHANGED <<managerVars, clock, controller, panicked>>

\* The receiver's loop takes the next command, or finds the channel closed.
TakeCommand(s) ==
  /\ receiver[s].at = "open"
  /\ IF presence[s].commands = <<>>
     THEN /\ presence[s].closed
          /\ receiver' = [receiver EXCEPT ![s].at = "closing"] /\ presence' = presence
     ELSE /\ receiver' = [receiver EXCEPT ![s] =
            [@ EXCEPT !.at = "sending", !.held = <<Head(presence[s].commands)>>]]
          /\ presence' = [presence EXCEPT ![s].commands = Tail(@)]
  /\ UNCHANGED <<screens, tickets, sessions, authority, shut, clock, controller, panicked>>

\* The command is written unless the session behind the socket changed profile
\* or the write fails.
DeliverCommand(s, written) ==
  /\ receiver[s].at = "sending"
  /\ receiver' = [receiver EXCEPT ![s] =
       IF written /\ receiver[s].selected
       THEN [receiver[s] EXCEPT !.at = "open", !.held = <<>>,
                                !.shown = Applied(receiver[s].shown, receiver[s].held[1])]
       ELSE [receiver[s] EXCEPT !.at = "closing"]]
  /\ UNCHANGED <<managerVars, clock, controller, panicked>>

\* The peer closes the receiver's socket, or shutdown cancelled its context.
ReceiverClosed(s) ==
  /\ receiver[s].at = "open"
  /\ receiver' = [receiver EXCEPT ![s].at = "closing"]
  /\ UNCHANGED <<managerVars, clock, controller, panicked>>

\* The context ControlContext returned: authority expiry and receiver lifetime.
ControlContextDone(k) ==
  LET t == controller[k].token IN
    ~Unexpired(authority[t].expires) \/ presence[authority[t].screen].cancelled

\* screenControl reads a message; a changed profile, another protocol version or
\* an item the profile may not see closes the socket.
ReadMessage(k, message, allowed) ==
  /\ controller[k].at = "reading" /\ ~ControlContextDone(k)
  /\ controller' = [controller EXCEPT ![k] =
       IF allowed /\ @.selected THEN [@ EXCEPT !.at = "checked", !.message = message]
       ELSE [@ EXCEPT !.at = "closing"]]
  /\ UNCHANGED <<managerVars, clock, receiver, panicked>>

\* Mutant of ControlReadFails: the read is not bounded by the authority's context.
ControlReadUnbounded(k) ==
  /\ controller[k].at = "reading" /\ ~ControlContextDone(k)
  /\ controller' = [controller EXCEPT ![k].at = "closing"]
  /\ UNCHANGED <<managerVars, clock, receiver, panicked>>

\* The read fails: the peer closed, or the context is done.
ControlReadFails(k) ==
  /\ controller[k].at = "reading"
  /\ controller' = [controller EXCEPT ![k].at = "closing"]
  /\ UNCHANGED <<managerVars, clock, receiver, panicked>>

-----------------------------------------------------------------------------
(* The environment.                                                        *)

\* The browser session behind a socket selects another profile or logs out.
LeaveProfile ==
  /\ \/ \E s \in ScreenIds : receiver[s].at \in {"open", "sending"} /\ receiver[s].selected
          /\ receiver' = [receiver EXCEPT ![s].selected = FALSE] /\ controller' = controller
     \/ \E k \in Controllers : controller[k].at \in {"reading", "checked"} /\ controller[k].selected
          /\ controller' = [controller EXCEPT ![k].selected = FALSE] /\ receiver' = receiver
  /\ UNCHANGED <<managerVars, clock, panicked>>

ScreenTick ==
  /\ clock < MaxScreenTime /\ clock' = clock + 1
  /\ UNCHANGED <<managerVars, receiver, controller, panicked>>

ReceiverStep(s) ==
  \/ \E ok \in BOOLEAN : AcceptReceiver(s, ok) \/ DeliverCommand(s, ok)
  \/ TakeCommand(s) \/ Disconnect(s)
ReceiverCancelled(s) == shut /\ ReceiverClosed(s)
ControllerStep(k) == Control(k) \/ CloseControl(k)
ControllerCancelled(k) ==
  controller[k].token # Undrawn /\ ControlContextDone(k) /\ ControlReadFails(k)

ScreensNext ==
  \/ ListScreens \/ ShutdownScreens \/ LeaveProfile \/ ScreenTick
  \/ \E s \in ScreenIds, p \in Profiles :
       Advertise(s, p) \/ ConnectReceiver(s, p) \/ \E t \in Tokens : Authorize(t, s, p)
  \/ \E k \in Controllers, t \in Tokens, p \in Profiles, ok \in BOOLEAN : OpenControl(k, t, p, ok)
  \/ \E s \in ScreenIds : ReceiverStep(s) \/ ReceiverClosed(s)
  \/ \E k \in Controllers : ControllerStep(k) \/ ControlReadFails(k)
       \/ \E c \in Commands, ok \in BOOLEAN : ReadMessage(k, c, ok)

\* A running handler goes on; a blocked read or receive returns once its
\* context is done.  Peers, clients and the clock owe nothing.
ScreensFairness ==
  /\ \A s \in ScreenIds : WF_screenVars(ReceiverStep(s)) /\ WF_screenVars(ReceiverCancelled(s))
  /\ \A k \in Controllers : WF_screenVars(ControllerStep(k)) /\ WF_screenVars(ControllerCancelled(k))

ScreensSpec == ScreensInit /\ [][ScreensNext]_screenVars /\ ScreensFairness

-----------------------------------------------------------------------------

\* No channel is closed twice and nothing is sent to a closed one (either would
\* panic the server), however disconnect, shutdown and Control interleave.
NoChannelPanic == ~panicked

\* Every control authority is over a screen whose receiver is still connected:
\* when a receiver leaves, what could control it goes too.
AuthoritiesHaveReceivers ==
  \A t \in sessions : authority[t].screen \in screens /\ presence[authority[t].screen].connected

\* One authority is held by one socket: a token presented twice opens no second
\* control connection.
ControlExclusive ==
  \A j, k \in Controllers :
    j # k /\ {controller[j].at, controller[k].at} \cap {"none", "done"} = {}
      => controller[j].token # controller[k].token

\* What a screen shows after the commands of a sequence, one after the other.
Replayed(view, commands) ==
  LET after[n \in 0 .. Len(commands)] ==
        IF n = 0 THEN view ELSE Applied(after[n - 1], commands[n])
  IN after[Len(commands)]

\* What List reports for a screen is what its receiver shows once it has been
\* sent everything accepted for it: a command dropped by a full channel is not
\* reported, an accepted one is neither lost nor reordered.
ReportedIsShown ==
  \A s \in screens : presence[s].connected /\ receiver[s].at \in {"accepting", "open", "sending"} =>
    presence[s].view = Replayed(receiver[s].shown, receiver[s].held \o presence[s].commands)

\* A ticket that is still valid has not admitted anybody: its screen is not connected
\* and has had no receiver, also none that is gone.
TicketsUsedOnce ==
  \A s \in ScreenIds : s \in tickets => receiver[s].at = "none" /\ ~presence[s].connected

\* What the maps and channels may hold: well-typed, tickets unused, every authority
\* over a connected screen and held by one socket at most, no channel closed twice
\* or sent to when closed.
ScreensInv == ScreensTypeOK /\ TicketsUsedOnce /\ AuthoritiesHaveReceivers /\ ControlExclusive /\ NoChannelPanic

\* Shutdown ends every receiver and control connection, whatever their peers do.
SocketsEndAfterShutdown ==
  shut ~> /\ \A s \in ScreenIds : receiver[s].at \in {"none", "done"}
          /\ \A k \in Controllers : controller[k].at \in {"none", "done"}

\* A control connection whose receiver left, or whose authority expired, ends.
OrphanControlsEnd ==
  \A k \in Controllers :
    (controller[k].token # Undrawn /\ ControlContextDone(k)) ~> controller[k].at = "done"

\* No socket outlives what it serves: the server, the receiver or the authority.
SocketsEnd == SocketsEndAfterShutdown /\ OrphanControlsEnd
=============================================================================
