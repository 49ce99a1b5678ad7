------------------------------- MODULE Console -------------------------------
(***************************************************************************)
(* The staff's open pages and what keeps them up to date: the requests of   *)
(* the staff and the events they announce (OrdersService, CallsService,     *)
(* RealtimeService), the gateway that lets a socket into its shop's room,   *)
(* and RealtimeProvider, which refreshes the page on every event.           *)
(***************************************************************************)
EXTENDS Naturals, Sequences, FiniteSets, SequencesExt, FiniteSetsExt

CONSTANTS
  Visits,     \* visits of a page of the app, each with its own provider
  Sales,      \* bound: orders of the shop
  MaxWrites   \* bound: writes

ASSUME ConsoleAssumption == MaxWrites \in Nat

VARIABLES
  table,     \* the orders of the shop, each with its latest call
  request,   \* the request in progress (bound: one at a time) and the visit it came from
  writes,    \* writes so far
  valid,     \* is the session's token still accepted?
  room,      \* sockets the server has in the shop's room
  socket,    \* per visit: its socket, as the browser sees it
  wire,      \* per visit: events on their way to it
  page,      \* per visit: what it shows, and the refresh in progress
  excused    \* history, per visit: changed since its last read without an event for it

consoleVars == <<table, request, writes, valid, room, socket, wire, page, excused>>

Sale == [order : {"none", "pending", "confirmed", "cancelled"}, call : {"none", "queued", "over"}]
NoSale == [order |-> "none", call |-> "none"]
Tables == [Sales -> Sale]
Operations == {"create", "import", "status", "delete", "queue", "queueAll"}
NoRequest == [op |-> "none", stage |-> "none"]

\* "asked": a render was requested; "read": its data were read, the answer is on its way.
Blank == [mounted |-> FALSE, shown |-> [s \in Sales |-> NoSale], refresh |-> "none",
          read |-> [s \in Sales |-> NoSale], again |-> FALSE]
Left == [Blank EXCEPT !.again = TRUE]  \* each visit happens once

ConsoleTypeOK ==
  /\ table \in Tables /\ writes \in 0 .. MaxWrites /\ valid \in BOOLEAN
  /\ request \in [op : Operations, stage : {"write", "emit", "answer"}, on : Sales, by : Visits] \cup {NoRequest}
  /\ room \subseteq Visits
  /\ socket \in [Visits -> {"none", "asking", "opening", "open", "down", "closed"}]
  /\ \A v \in Visits : wire[v] \in Seq({"order", "call"})
  /\ page \in [Visits -> [mounted : BOOLEAN, shown : Tables, refresh : {"none", "asked", "read"},
                          read : Tables, again : BOOLEAN]]
  /\ excused \in [Visits -> BOOLEAN]

ConsoleInit ==
  /\ table \in [Sales -> {NoSale, [order |-> "pending", call |-> "none"]}] /\ writes = 0 /\ valid = TRUE
  /\ request = NoRequest /\ room = {}
  /\ socket = [v \in Visits |-> "none"] /\ wire = [v \in Visits |-> <<>>]
  /\ page = [v \in Visits |-> Blank] /\ excused = [v \in Visits |-> FALSE]

serverVars == <<table, request, writes, valid>>
eventVars == <<room, socket, wire>>
pageVars == <<page, excused>>

-----------------------------------------------------------------------------
(* A page and its refreshes *)

\* One refresh at a time: what is asked meanwhile is done once more afterwards.
Refreshed(pg) ==
  IF pg.refresh = "none" THEN [pg EXCEPT !.refresh = "asked"] ELSE [pg EXCEPT !.again = TRUE]

\* The server renders the page before the browser mounts it.
OpensPage(v) ==
  /\ page[v] = Blank /\ valid /\ socket[v] = "none"
  /\ page' = [page EXCEPT ![v].read = table, ![v].refresh = "read"]
  /\ excused' = [excused EXCEPT ![v] = FALSE]
  /\ UNCHANGED <<serverVars, eventVars>>

Mount(v) ==
  /\ ~page[v].mounted /\ page[v].refresh = "read"
  /\ page' = [page EXCEPT ![v].mounted = TRUE, ![v].shown = page[v].read, ![v].refresh = "none"]
  /\ socket' = [socket EXCEPT ![v] = "asking"]
  /\ UNCHANGED <<serverVars, room, wire, excused>>

\* The data of a refresh; without a valid session it leads to the login page instead.
Read(v) ==
  /\ page[v].mounted /\ page[v].refresh = "asked" /\ valid
  /\ page' = [page EXCEPT ![v].refresh = "read", ![v].read = table]
  /\ excused' = [excused EXCEPT ![v] = FALSE]
  /\ UNCHANGED <<serverVars, eventVars>>

Render(v) ==
  /\ page[v].mounted /\ page[v].refresh = "read"
  /\ page' = [page EXCEPT ![v].shown = page[v].read, ![v].again = FALSE,
                          ![v].refresh = IF page[v].again THEN "asked" ELSE "none"]
  /\ UNCHANGED <<serverVars, eventVars, excused>>

\* Cleanup disconnects the socket this provider knows of.
Disconnected(v) == IF socket[v] = "asking" THEN "asking" ELSE "closed"

Unmount(v) ==
  /\ page[v].mounted
  /\ page' = [page EXCEPT ![v] = Left]
  /\ socket' = [socket EXCEPT ![v] = Disconnected(v)]
  /\ room' = room \ {v} /\ wire' = [wire EXCEPT ![v] = <<>>]
  /\ UNCHANGED <<serverVars, excused>>

-----------------------------------------------------------------------------
(* RealtimeProvider and RealtimeGateway *)

\* Mutated form: the effect may have been cleaned up while the token was fetched.
StillWantedAnyway(v) == TRUE

StillWanted(v) == page[v].mounted

\* /api/ws-token answers: with the cookie's token, or not at all.
TokenArrives(v) ==
  /\ socket[v] = "asking"
  /\ socket' = [socket EXCEPT ![v] = IF StillWanted(v) THEN "opening" ELSE "closed"]
  /\ UNCHANGED <<serverVars, room, wire, pageVars>>

TokenFails(v) ==
  /\ socket[v] = "asking" /\ socket' = [socket EXCEPT ![v] = "closed"]
  /\ UNCHANGED <<serverVars, room, wire, pageVars>>

\* handleConnection: the token and its user are looked up, then the socket joins.
Connects(v) ==
  /\ socket[v] \in {"opening", "down"} /\ valid
  /\ socket' = [socket EXCEPT ![v] = "open"] /\ room' = room \cup {v}
  /\ UNCHANGED <<serverVars, wire, pageVars>>

\* A socket the server disconnects is not reconnected; ten failed attempts end the others.
IsRefused(v) ==
  /\ socket[v] = "down" \/ (socket[v] = "opening" /\ ~valid)
  /\ socket' = [socket EXCEPT ![v] = "closed"]
  /\ UNCHANGED <<serverVars, room, wire, pageVars>>

\* What was on the wire is lost, and nothing is fetched on the reconnection.
Lost(v) == excused[v] \/ wire[v] # <<>>
ConnectionDrops(v) ==
  /\ socket[v] = "open"
  /\ socket' = [socket EXCEPT ![v] = "down"] /\ room' = room \ {v}
  /\ wire' = [wire EXCEPT ![v] = <<>>] /\ excused' = [excused EXCEPT ![v] = Lost(v)]
  /\ UNCHANGED <<serverVars, page>>

\* Every event is noted (the bell keeps thirty) and refreshes the page.
EventArrives(v) ==
  /\ wire[v] # <<>> /\ page[v].mounted
  /\ wire' = [wire EXCEPT ![v] = Tail(@)]
  /\ page' = [page EXCEPT ![v] = Refreshed(@)]
  /\ UNCHANGED <<serverVars, room, socket, excused>>

-----------------------------------------------------------------------------
(* Requests *)

\* Mutated form: the event is emitted before the row is written.
EmitFirst(op, stage) ==
  CASE stage = "none" -> "emit" [] stage = "emit" -> "write" [] stage = "write" -> "answer"

\* Written, announced, answered; queueAllPending announces nothing.
After(op, stage) ==
  CASE stage = "none" -> "write"
    [] stage = "write" -> IF op = "queueAll" THEN "answer" ELSE "emit"
    [] stage = "emit" -> "answer"

Submit(v, op, s) ==
  /\ page[v].mounted /\ request = NoRequest /\ writes < MaxWrites
  /\ request' = [op |-> op, stage |-> After(op, "none"), on |-> s, by |-> v]
  /\ UNCHANGED <<table, writes, valid, eventVars, pageVars>>

SetSale(s, order, call) == [table EXCEPT ![s] = [order |-> order, call |-> call]]
Queueable(s) == table[s].order = "pending" /\ table[s].call \in {"none", "over"}
Queued == [s \in Sales |-> IF Queueable(s) THEN [table[s] EXCEPT !.call = "queued"] ELSE table[s]]

\* The outcomes of a request that is not refused.
Effects(op, s) ==
  CASE op = "create" -> IF table[s] = NoSale THEN {SetSale(s, "pending", "none")} ELSE {}
    [] op = "import" -> {[x \in Sales |-> IF table[x] = NoSale THEN SetSale(x, "pending", "none")[x]
                                          ELSE table[x]]}
    [] op = "status" -> IF table[s] = NoSale THEN {}
                        ELSE {SetSale(s, o, table[s].call) : o \in {"confirmed", "cancelled"}}
    [] op = "delete" -> IF table[s] = NoSale THEN {} ELSE {SetSale(s, "none", "none")}
    [] op = "queue" -> IF Queueable(s) THEN {SetSale(s, "pending", "queued")} ELSE {}
    [] op = "queueAll" -> {Queued}

Event(op) == IF op = "queue" THEN "call" ELSE "order"

Advanced == [request EXCEPT !.stage = After(request.op, @)]

Write ==
  /\ request.stage = "write" /\ writes < MaxWrites
  /\ \E after \in Effects(request.op, request.on) : table' = after
  /\ writes' = writes + 1 /\ request' = Advanced
  /\ excused' = IF request.op = "queueAll" THEN [v \in Visits |-> TRUE] ELSE excused
  /\ UNCHANGED <<valid, eventVars, page>>

\* A 404 or 409: the page shows the message, nothing is announced or refreshed.
Refuse ==
  /\ request.stage = "write" /\ (writes = MaxWrites \/ Effects(request.op, request.on) = {})
  /\ request' = NoRequest
  /\ UNCHANGED <<table, writes, valid, eventVars, pageVars>>

Emit ==
  /\ request.stage = "emit" /\ request' = Advanced
  /\ wire' = [x \in Visits |-> IF x \in room THEN Append(wire[x], Event(request.op)) ELSE wire[x]]
  /\ excused' = [x \in Visits |-> excused[x] \/ x \notin room]
  /\ UNCHANGED <<table, writes, valid, room, socket, page>>

\* The action's revalidatePath renders the page of its user again.
ActionAnswers ==
  /\ request.stage = "answer" /\ request' = NoRequest
  /\ LET v == request.by
     IN  page' = IF page[v].mounted THEN [page EXCEPT ![v] = Refreshed(@)] ELSE page
  /\ UNCHANGED <<table, writes, valid, eventVars, excused>>

\* The dispatcher, the callbacks and the orchestrator write without an event.
CallMoves(s) ==
  /\ writes < MaxWrites /\ writes' = writes + 1
  /\ \/ /\ table[s].call = "queued"
        /\ \E o \in {table[s].order, "confirmed"} : table' = SetSale(s, o, "over")
     \/ Queueable(s) /\ table' = [table EXCEPT ![s].call = "queued"]
  /\ excused' = [v \in Visits |-> TRUE]
  /\ UNCHANGED <<request, valid, eventVars, page>>

\* The API restarts: its requests are gone and its sockets drop.
Restart ==
  /\ request # NoRequest \/ room # {}
  /\ request' = NoRequest /\ room' = {}
  /\ socket' = [v \in Visits |-> IF v \in room THEN "down" ELSE socket[v]]
  /\ wire' = [v \in Visits |-> <<>>] /\ excused' = [v \in Visits |-> TRUE]
  /\ UNCHANGED <<table, writes, valid, page>>

\* The password is changed on another device.
SessionRevoked == valid /\ valid' = FALSE /\ UNCHANGED <<table, request, writes, eventVars, pageVars>>

PageStep(v) ==
  \/ OpensPage(v) \/ Mount(v) \/ Read(v) \/ Render(v) \/ Unmount(v)
  \/ TokenArrives(v) \/ TokenFails(v) \/ Connects(v) \/ IsRefused(v) \/ ConnectionDrops(v)
  \/ EventArrives(v)

RequestStep ==
  \/ \E v \in Visits, op \in Operations, s \in Sales : Submit(v, op, s)
  \/ Write \/ Refuse \/ Emit \/ ActionAnswers

ConsoleNext ==
  \/ (\E v \in Visits : PageStep(v)) \/ RequestStep
  \/ \E s \in Sales : CallMoves(s)
  \/ Restart \/ SessionRevoked

ConsoleSpec == ConsoleInit /\ [][ConsoleNext]_consoleVars

-----------------------------------------------------------------------------
Behind(v) ==
  CASE page[v].refresh = "none" -> page[v].shown # table
    [] page[v].refresh = "read" -> page[v].read # table
    [] page[v].refresh = "asked" -> FALSE

(***************************************************************************)
(* A page catches up: while it shows, or is about to show, something older  *)
(* than the table, an event or another refresh is on its way to it or will  *)
(* be announced, unless the change came without an event for it: written by *)
(* the calling subsystem or queue-all, or while its socket was not joined.  *)
(***************************************************************************)
PageCatchesUp ==
  \A v \in Visits :
    page[v].mounted /\ Behind(v) =>
      \/ excused[v] \/ wire[v] # <<>> \/ page[v].again
      \/ request.stage = "emit"

(***************************************************************************)
(* No socket outlives its page: a page that was left, before or after its   *)
(* token came, has no socket that is open or would open, and the room holds *)
(* only sockets of pages that are there.                                    *)
(***************************************************************************)
NoSocketOutlivesPage ==
  /\ \A v \in Visits : socket[v] \in {"opening", "open", "down"} => page[v].mounted
  /\ room = {v \in Visits : socket[v] = "open"}

(***************************************************************************)
(* The open pages stay current: each catches up with the table, and none is  *)
(* outlived by its socket.                                                   *)
(***************************************************************************)
PagesStayCurrent == PageCatchesUp /\ NoSocketOutlivesPage
=============================================================================
