----------------------------- MODULE ScreenProofs -----------------------------
(***************************************************************************)
(* What the staff and the merchants see and send: the live pages, and the   *)
(* forms of the app.  For every number of visits, entries and requests.     *)
(***************************************************************************)
EXTENDS Console, Forms, FiniteSetTheorems, WellFoundedInduction, TLAPS

---------------------------------------------------------------------------
(* The open pages of the staff *)

PageRow == [mounted : BOOLEAN, shown : Tables, refresh : {"none", "asked", "read"}, read : Tables, again : BOOLEAN]
Served == [op : Operations, stage : {"write", "emit", "answer"}, on : Sales, by : Visits]

(* Older than the table: what a page shows, or what its next render will show. *)
Stale(v) ==
  \/ page[v].mounted /\ page[v].refresh = "none" /\ page[v].shown # table
  \/ page[v].refresh = "read" /\ page[v].read # table

Coming(v) == excused[v] \/ wire[v] # <<>> \/ page[v].again \/ request.stage = "emit"

(* A page that is not mounted was not opened, waits for its first render, or was left. *)
ConsoleInv ==
  /\ ConsoleTypeOK /\ wire \in [Visits -> Seq({"order", "call"})]
  /\ NoSocketOutlivesPage
  /\ \A v \in Visits : ~page[v].mounted /\ page[v].refresh # "none" => page[v].refresh = "read" /\ ~page[v].again
  /\ \A v \in Visits : Stale(v) => Coming(v)

LEMMA BlankPages == NoSale \in Sale /\ Blank \in PageRow /\ Left \in PageRow
<1>1. NoSale \in Sale
  BY DEF NoSale, Sale
<1> QED BY <1>1 DEF Blank, Left, PageRow, Tables

LEMMA ConsoleStart == ConsoleInit => ConsoleInv
<1> SUFFICES ASSUME ConsoleInit PROVE ConsoleInv
  OBVIOUS
<1>1. table \in Tables
  BY DEF ConsoleInit, Tables, NoSale, Sale
<1>2. /\ \A v \in Visits : page[v] = Blank /\ socket[v] = "none" /\ wire[v] = <<>>
      /\ page \in [Visits -> PageRow]
  BY BlankPages DEF ConsoleInit
<1>3. ConsoleTypeOK
  BY <1>1, <1>2, ConsoleAssumption DEF ConsoleInit, ConsoleTypeOK, PageRow
<1>4. NoSocketOutlivesPage /\ wire \in [Visits -> Seq({"order", "call"})]
  BY <1>2 DEF ConsoleInit, NoSocketOutlivesPage
<1>5. \A v \in Visits : ~page[v].mounted /\ page[v].refresh = "none"
  BY <1>2 DEF Blank
<1> QED BY <1>3, <1>4, <1>5 DEF ConsoleInv, Stale

SocketStates == {"none", "asking", "opening", "open", "down", "closed"}

(* The types, without the sequences of events. *)
LEMMA ConsoleShape ==
  ASSUME ConsoleTypeOK
  PROVE  /\ page \in [Visits -> PageRow] /\ socket \in [Visits -> SocketStates]
         /\ excused \in [Visits -> BOOLEAN] /\ room \subseteq Visits
         /\ request \in Served \cup {NoRequest} /\ table \in Tables
         /\ writes \in 0 .. MaxWrites /\ valid \in BOOLEAN
BY DEF ConsoleTypeOK, PageRow, Served, SocketStates

LEMMA TypesFrom ==
  ASSUME page' \in [Visits -> PageRow], socket' \in [Visits -> SocketStates],
         excused' \in [Visits -> BOOLEAN], room' \subseteq Visits,
         request' \in Served \cup {NoRequest}, table' \in Tables,
         writes' \in 0 .. MaxWrites, valid' \in BOOLEAN,
         wire' \in [Visits -> Seq({"order", "call"})]
  PROVE  ConsoleTypeOK'
BY DEF ConsoleTypeOK, PageRow, Served, SocketStates

(* The fields of a page. *)
LEMMA PageFields ==
  ASSUME NEW pg \in PageRow
  PROVE  /\ pg.mounted \in BOOLEAN /\ pg.again \in BOOLEAN /\ pg.refresh \in {"none", "asked", "read"}
         /\ pg.shown \in Tables /\ pg.read \in Tables
BY DEF PageRow

LEMMA RefreshedPage ==
  ASSUME NEW pg \in PageRow
  PROVE  /\ Refreshed(pg) \in PageRow /\ Refreshed(pg).mounted = pg.mounted
         /\ \/ pg.refresh = "none" /\ Refreshed(pg).refresh = "asked"
            \/ pg.refresh # "none" /\ Refreshed(pg).refresh = pg.refresh /\ Refreshed(pg).again
BY DEF PageRow, Refreshed

(* What a step of one visit must do for it: the others are as they were. *)
LEMMA VisitKeeps ==
  ASSUME ConsoleInv, NEW v \in Visits, NEW pg \in PageRow, NEW sk \in SocketStates, NEW ex \in BOOLEAN,
         NEW w \in Seq({"order", "call"}),
         page' = [page EXCEPT ![v] = pg], socket' = [socket EXCEPT ![v] = sk],
         excused' = [excused EXCEPT ![v] = ex], wire' = [wire EXCEPT ![v] = w],
         UNCHANGED <<table, request, writes, valid>>,
         room' = IF sk = "open" THEN room \cup {v} ELSE room \ {v},
         sk \in {"opening", "open", "down"} => pg.mounted,
         ~pg.mounted /\ pg.refresh # "none" => pg.refresh = "read" /\ ~pg.again,
         \/ pg.mounted /\ pg.refresh = "none" /\ pg.shown # table
         \/ pg.refresh = "read" /\ pg.read # table
         => ex \/ w # <<>> \/ pg.again \/ request.stage = "emit"
  PROVE  ConsoleInv'
<1>1. /\ page \in [Visits -> PageRow] /\ socket \in [Visits -> SocketStates]
      /\ excused \in [Visits -> BOOLEAN] /\ room \subseteq Visits
      /\ request \in Served \cup {NoRequest} /\ table \in Tables
      /\ writes \in 0 .. MaxWrites /\ valid \in BOOLEAN
  BY ConsoleShape DEF ConsoleInv
<1>2. wire \in [Visits -> Seq({"order", "call"})]
  BY DEF ConsoleInv
<1>3. /\ page' \in [Visits -> PageRow] /\ socket' \in [Visits -> SocketStates]
      /\ excused' \in [Visits -> BOOLEAN] /\ wire' \in [Visits -> Seq({"order", "call"})]
  BY <1>1, <1>2
<1>4. /\ page'[v] = pg /\ socket'[v] = sk /\ excused'[v] = ex /\ wire'[v] = w
      /\ \A u \in Visits : u # v =>
           page'[u] = page[u] /\ socket'[u] = socket[u] /\ excused'[u] = excused[u] /\ wire'[u] = wire[u]
  BY <1>1, <1>2
<1>5. ConsoleTypeOK'
  BY <1>1, <1>3, TypesFrom
<1>6. NoSocketOutlivesPage'
  <2>1. \A u \in Visits : socket[u] \in {"opening", "open", "down"} => page[u].mounted
    BY DEF ConsoleInv, NoSocketOutlivesPage
  <2>2. \A u \in Visits : socket'[u] \in {"opening", "open", "down"} => page'[u].mounted
    BY <1>4, <2>1
  <2>3. \A u : u \in room <=> u \in Visits /\ socket[u] = "open"
    BY DEF ConsoleInv, NoSocketOutlivesPage
  <2>4. \A u : u \in room' <=> u \in Visits /\ socket'[u] = "open"
    <3>1. CASE sk = "open"
      BY <1>4, <2>3, <3>1
    <3>2. CASE sk # "open"
      BY <1>4, <2>3, <3>2
    <3> QED BY <3>1, <3>2
  <2> QED BY <2>2, <2>4 DEF NoSocketOutlivesPage
<1>7. \A u \in Visits : ~page'[u].mounted /\ page'[u].refresh # "none" => page'[u].refresh = "read" /\ ~page'[u].again
  BY <1>4 DEF ConsoleInv
<1>8. ASSUME NEW u \in Visits PROVE Stale(u)' => Coming(u)'
  <2>1. CASE u = v
    BY <1>4, <2>1 DEF Stale, Coming
  <2>2. CASE u # v
    BY <1>4, <2>2 DEF Stale, Coming, ConsoleInv
  <2> QED BY <2>1, <2>2
<1> QED BY <1>3, <1>5, <1>6, <1>7, <1>8 DEF ConsoleInv

(* What the invariant says of one visit. *)
LEMMA VisitFacts ==
  ASSUME ConsoleInv, NEW v \in Visits
  PROVE  /\ page[v] \in PageRow /\ socket[v] \in SocketStates /\ excused[v] \in BOOLEAN
         /\ wire[v] \in Seq({"order", "call"}) /\ table \in Tables
         /\ page = [page EXCEPT ![v] = page[v]] /\ socket = [socket EXCEPT ![v] = socket[v]]
         /\ excused = [excused EXCEPT ![v] = excused[v]] /\ wire = [wire EXCEPT ![v] = wire[v]]
         /\ room = (IF socket[v] = "open" THEN room \cup {v} ELSE room \ {v})
         /\ socket[v] \in {"opening", "open", "down"} => page[v].mounted
         /\ ~page[v].mounted /\ page[v].refresh # "none" => page[v].refresh = "read" /\ ~page[v].again
         /\ Stale(v) => Coming(v)
<1>1. /\ page \in [Visits -> PageRow] /\ socket \in [Visits -> SocketStates]
      /\ excused \in [Visits -> BOOLEAN] /\ table \in Tables
      /\ wire \in [Visits -> Seq({"order", "call"})]
  BY ConsoleShape DEF ConsoleInv
<1>2. /\ page = [page EXCEPT ![v] = page[v]] /\ socket = [socket EXCEPT ![v] = socket[v]]
      /\ excused = [excused EXCEPT ![v] = excused[v]] /\ wire = [wire EXCEPT ![v] = wire[v]]
  BY <1>1
<1>3. v \in room <=> socket[v] = "open"
  BY DEF ConsoleInv, NoSocketOutlivesPage
<1>4. room = (IF socket[v] = "open" THEN room \cup {v} ELSE room \ {v})
  BY <1>3
<1>5. socket[v] \in {"opening", "open", "down"} => page[v].mounted
  BY DEF ConsoleInv, NoSocketOutlivesPage
<1> QED BY <1>1, <1>2, <1>4, <1>5 DEF ConsoleInv

LEMMA OpensPageKeeps ==
  ASSUME ConsoleInv, NEW v \in Visits, OpensPage(v)
  PROVE  ConsoleInv'
<1> DEFINE pg == [page[v] EXCEPT !.read = table, !.refresh = "read"]
<1>1. /\ page[v] \in PageRow /\ socket[v] \in SocketStates /\ wire[v] \in Seq({"order", "call"}) /\ table \in Tables
      /\ socket = [socket EXCEPT ![v] = socket[v]] /\ wire = [wire EXCEPT ![v] = wire[v]]
      /\ room = (IF socket[v] = "open" THEN room \cup {v} ELSE room \ {v})
  BY VisitFacts
<1>0. ~page[v].mounted /\ ~page[v].again
  BY DEF OpensPage, Blank
<1>2. pg \in PageRow /\ ~pg.mounted /\ ~pg.again /\ pg.refresh = "read" /\ pg.read = table
  BY <1>0, <1>1 DEF PageRow
<1>3. page' = [page EXCEPT ![v] = pg]
  BY DEF OpensPage
<1>4. /\ excused' = [excused EXCEPT ![v] = FALSE] /\ socket' = socket /\ wire' = wire /\ room' = room
      /\ UNCHANGED <<table, request, writes, valid>> /\ socket[v] = "none"
  BY DEF OpensPage, serverVars, eventVars
<1> HIDE DEF pg
<1> QED BY <1>1, <1>2, <1>3, <1>4, VisitKeeps

LEMMA MountKeeps ==
  ASSUME ConsoleInv, NEW v \in Visits, Mount(v)
  PROVE  ConsoleInv'
<1> DEFINE pg == [page[v] EXCEPT !.mounted = TRUE, !.shown = page[v].read, !.refresh = "none"]
<1>1. /\ page[v] \in PageRow /\ excused[v] \in BOOLEAN /\ wire[v] \in Seq({"order", "call"}) /\ table \in Tables
      /\ excused = [excused EXCEPT ![v] = excused[v]] /\ wire = [wire EXCEPT ![v] = wire[v]]
      /\ room = (IF socket[v] = "open" THEN room \cup {v} ELSE room \ {v})
      /\ socket[v] \in {"opening", "open", "down"} => page[v].mounted
      /\ Stale(v) => Coming(v)
  BY VisitFacts
<1>2. pg \in PageRow /\ pg.mounted /\ pg.again = page[v].again /\ pg.refresh = "none" /\ pg.shown = page[v].read
  BY <1>1 DEF PageRow
<1>3. page' = [page EXCEPT ![v] = pg] /\ ~page[v].mounted /\ page[v].refresh = "read"
  BY DEF Mount
<1>4. /\ excused' = excused /\ socket' = [socket EXCEPT ![v] = "asking"] /\ wire' = wire /\ room' = room
      /\ UNCHANGED <<table, request, writes, valid>>
  BY DEF Mount, serverVars
<1>5. room' = (IF "asking" = "open" THEN room \cup {v} ELSE room \ {v})
  BY <1>1, <1>3, <1>4
<1>6. pg.shown # table => excused[v] \/ wire[v] # <<>> \/ pg.again \/ request.stage = "emit"
  BY <1>1, <1>2, <1>3 DEF Stale, Coming
<1>7. "asking" \in SocketStates
  BY DEF SocketStates
<1> HIDE DEF pg
<1> QED BY <1>1, <1>2, <1>3, <1>4, <1>5, <1>6, <1>7, VisitKeeps

LEMMA ReadKeeps ==
  ASSUME ConsoleInv, NEW v \in Visits, Read(v)
  PROVE  ConsoleInv'
<1> DEFINE pg == [page[v] EXCEPT !.refresh = "read", !.read = table]
<1>1. /\ page[v] \in PageRow /\ socket[v] \in SocketStates /\ wire[v] \in Seq({"order", "call"}) /\ table \in Tables
      /\ socket = [socket EXCEPT ![v] = socket[v]] /\ wire = [wire EXCEPT ![v] = wire[v]]
      /\ room = (IF socket[v] = "open" THEN room \cup {v} ELSE room \ {v})
  BY VisitFacts
<1>2. pg \in PageRow /\ pg.mounted /\ pg.refresh = "read" /\ pg.read = table
  BY <1>1 DEF PageRow, Read
<1>3. page' = [page EXCEPT ![v] = pg]
  BY DEF Read
<1>4. /\ excused' = [excused EXCEPT ![v] = FALSE] /\ socket' = socket /\ wire' = wire /\ room' = room
      /\ UNCHANGED <<table, request, writes, valid>>
  BY DEF Read, serverVars, eventVars
<1> HIDE DEF pg
<1> QED BY <1>1, <1>2, <1>3, <1>4, VisitKeeps

LEMMA RenderKeeps ==
  ASSUME ConsoleInv, NEW v \in Visits, Render(v)
  PROVE  ConsoleInv'
<1> DEFINE pg == [page[v] EXCEPT !.shown = page[v].read, !.again = FALSE,
                                 !.refresh = IF page[v].again THEN "asked" ELSE "none"]
<1>1. /\ page[v] \in PageRow /\ socket[v] \in SocketStates /\ excused[v] \in BOOLEAN
      /\ wire[v] \in Seq({"order", "call"})
      /\ socket = [socket EXCEPT ![v] = socket[v]] /\ wire = [wire EXCEPT ![v] = wire[v]]
      /\ excused = [excused EXCEPT ![v] = excused[v]]
      /\ room = (IF socket[v] = "open" THEN room \cup {v} ELSE room \ {v})
      /\ Stale(v) => Coming(v)
  BY VisitFacts
<1>2. /\ pg \in PageRow /\ pg.mounted /\ pg.shown = page[v].read
      /\ pg.refresh = (IF page[v].again THEN "asked" ELSE "none")
  BY <1>1 DEF PageRow, Render
<1>3. page' = [page EXCEPT ![v] = pg] /\ page[v].refresh = "read"
  BY DEF Render
<1>4. /\ excused' = excused /\ socket' = socket /\ wire' = wire /\ room' = room
      /\ UNCHANGED <<table, request, writes, valid>>
  BY DEF Render, serverVars, eventVars
<1>5. pg.refresh = "none" /\ pg.shown # table => excused[v] \/ wire[v] # <<>> \/ request.stage = "emit"
  BY <1>1, <1>2, <1>3 DEF Stale, Coming
<1>6. pg.refresh # "read" /\ excused' = [excused EXCEPT ![v] = excused[v]]
  BY <1>1, <1>2, <1>4
<1>7. /\ socket' = [socket EXCEPT ![v] = socket[v]] /\ wire' = [wire EXCEPT ![v] = wire[v]]
      /\ room' = (IF socket[v] = "open" THEN room \cup {v} ELSE room \ {v})
      /\ UNCHANGED <<table, request, writes, valid>>
  BY <1>1, <1>4
<1>8. \/ pg.mounted /\ pg.refresh = "none" /\ pg.shown # table
      \/ pg.refresh = "read" /\ pg.read # table
      => excused[v] \/ wire[v] # <<>> \/ pg.again \/ request.stage = "emit"
  BY <1>5, <1>6
<1>9. /\ page' = [page EXCEPT ![v] = pg] /\ pg.mounted /\ pg \in PageRow
      /\ socket[v] \in SocketStates /\ excused[v] \in BOOLEAN /\ wire[v] \in Seq({"order", "call"})
  BY <1>1, <1>2, <1>3
<1> HIDE DEF pg
<1> QED BY <1>6, <1>7, <1>8, <1>9, VisitKeeps

LEMMA UnmountKeeps ==
  ASSUME ConsoleInv, NEW v \in Visits, Unmount(v)
  PROVE  ConsoleInv'
<1>1. /\ excused[v] \in BOOLEAN /\ excused = [excused EXCEPT ![v] = excused[v]]
  BY VisitFacts
<1> DEFINE sk == Disconnected(v)
           w == <<>>
<1>2. Left \in PageRow /\ ~Left.mounted /\ Left.refresh = "none"
  BY BlankPages DEF Left, Blank
<1>3. sk \in SocketStates /\ sk \notin {"opening", "open", "down"}
  BY DEF Disconnected, SocketStates
<1>4. /\ page' = [page EXCEPT ![v] = Left] /\ socket' = [socket EXCEPT ![v] = sk]
      /\ excused' = excused /\ wire' = [wire EXCEPT ![v] = w]
      /\ room' = room \ {v} /\ UNCHANGED <<table, request, writes, valid>>
  BY DEF Unmount, serverVars
<1>5. w \in Seq({"order", "call"})
  OBVIOUS
<1>6. room' = (IF sk = "open" THEN room \cup {v} ELSE room \ {v})
  BY <1>3, <1>4
<1> HIDE DEF sk, w
<1>7. \/ Left.mounted /\ Left.refresh = "none" /\ Left.shown # table
      \/ Left.refresh = "read" /\ Left.read # table
      => excused[v] \/ w # <<>> \/ Left.again \/ request.stage = "emit"
  BY <1>2
<1> QED BY <1>1, <1>2, <1>3, <1>4, <1>5, <1>6, <1>7, VisitKeeps

(* A step of a socket that leaves its page and the room's view of it consistent. *)
LEMMA SocketKeeps ==
  ASSUME ConsoleInv, NEW v \in Visits, NEW sk \in SocketStates, NEW ex \in BOOLEAN,
         NEW w \in Seq({"order", "call"}),
         page' = page, socket' = [socket EXCEPT ![v] = sk],
         excused' = [excused EXCEPT ![v] = ex], wire' = [wire EXCEPT ![v] = w],
         UNCHANGED <<table, request, writes, valid>>,
         room' = IF sk = "open" THEN room \cup {v} ELSE room \ {v},
         sk \in {"opening", "open", "down"} => page[v].mounted,
         excused[v] \/ wire[v] # <<>> => ex \/ w # <<>>
  PROVE  ConsoleInv'
<1>1. /\ page[v] \in PageRow /\ page = [page EXCEPT ![v] = page[v]]
      /\ ~page[v].mounted /\ page[v].refresh # "none" => page[v].refresh = "read" /\ ~page[v].again
      /\ Stale(v) => Coming(v)
  BY VisitFacts
<1>2. page' = [page EXCEPT ![v] = page[v]]
  BY <1>1
<1>3. \/ page[v].mounted /\ page[v].refresh = "none" /\ page[v].shown # table
      \/ page[v].refresh = "read" /\ page[v].read # table
      => ex \/ w # <<>> \/ page[v].again \/ request.stage = "emit"
  BY <1>1 DEF Stale, Coming
<1> QED BY <1>1, <1>2, <1>3, VisitKeeps

LEMMA SocketStepKeeps ==
  ASSUME ConsoleInv, NEW v \in Visits,
         TokenArrives(v) \/ TokenFails(v) \/ Connects(v) \/ IsRefused(v)
  PROVE  ConsoleInv'
<1>1. /\ page[v] \in PageRow /\ excused[v] \in BOOLEAN /\ wire[v] \in Seq({"order", "call"})
      /\ excused = [excused EXCEPT ![v] = excused[v]] /\ wire = [wire EXCEPT ![v] = wire[v]]
      /\ room = (IF socket[v] = "open" THEN room \cup {v} ELSE room \ {v})
      /\ socket[v] \in {"opening", "open", "down"} => page[v].mounted
  BY VisitFacts
<1>2. /\ excused' = [excused EXCEPT ![v] = excused[v]] /\ wire' = [wire EXCEPT ![v] = wire[v]]
      /\ page' = page /\ UNCHANGED <<table, request, writes, valid>>
  BY <1>1 DEF TokenArrives, TokenFails, Connects, IsRefused, serverVars, pageVars
<1>3. PICK sk \in {"opening", "open", "closed"} :
        /\ socket' = [socket EXCEPT ![v] = sk]
        /\ sk = "opening" => page[v].mounted
        /\ sk = "open" => socket[v] \in {"opening", "down"} /\ room' = room \cup {v}
        /\ sk # "open" => socket[v] # "open" /\ room' = room
  BY DEF TokenArrives, TokenFails, Connects, IsRefused, StillWanted
<1>4. sk \in SocketStates /\ (sk \in {"opening", "open", "down"} => page[v].mounted)
  BY <1>1, <1>3 DEF SocketStates
<1>5. room' = IF sk = "open" THEN room \cup {v} ELSE room \ {v}
  BY <1>1, <1>3
<1>6. excused[v] \/ wire[v] # <<>> => excused[v] \/ wire[v] # <<>>
  OBVIOUS
<1> QED BY <1>1, <1>2, <1>3, <1>4, <1>5, <1>6, SocketKeeps

LEMMA DropKeeps ==
  ASSUME ConsoleInv, NEW v \in Visits, ConnectionDrops(v)
  PROVE  ConsoleInv'
<1> DEFINE w == <<>>
           sk == "down"
<1>1. /\ excused[v] \in BOOLEAN /\ (socket[v] = "open" => page[v].mounted)
  BY VisitFacts
<1>2. /\ page' = page /\ socket' = [socket EXCEPT ![v] = sk] /\ excused' = [excused EXCEPT ![v] = Lost(v)]
      /\ wire' = [wire EXCEPT ![v] = w] /\ UNCHANGED <<table, request, writes, valid>>
      /\ room' = room \ {v} /\ socket[v] = "open"
  BY DEF ConnectionDrops, serverVars
<1>3. /\ sk \in SocketStates /\ w \in Seq({"order", "call"}) /\ Lost(v) \in BOOLEAN
      /\ sk \in {"opening", "open", "down"} => page[v].mounted
      /\ excused[v] \/ wire[v] # <<>> => Lost(v) \/ w # <<>>
  BY <1>1, <1>2 DEF SocketStates, Lost
<1>4. room' = IF sk = "open" THEN room \cup {v} ELSE room \ {v}
  BY <1>2
<1> HIDE DEF w, sk
<1> QED BY <1>2, <1>3, <1>4, SocketKeeps

LEMMA EventKeeps ==
  ASSUME ConsoleInv, NEW v \in Visits, EventArrives(v)
  PROVE  ConsoleInv'
<1> DEFINE w == Tail(wire[v])
           pg == Refreshed(page[v])
<1>1. /\ page[v] \in PageRow /\ socket[v] \in SocketStates /\ excused[v] \in BOOLEAN
      /\ wire[v] \in Seq({"order", "call"})
      /\ socket = [socket EXCEPT ![v] = socket[v]] /\ excused = [excused EXCEPT ![v] = excused[v]]
      /\ room = (IF socket[v] = "open" THEN room \cup {v} ELSE room \ {v})
  BY VisitFacts
<1>2. /\ page' = [page EXCEPT ![v] = pg] /\ wire' = [wire EXCEPT ![v] = w]
      /\ socket' = [socket EXCEPT ![v] = socket[v]] /\ excused' = [excused EXCEPT ![v] = excused[v]]
      /\ room' = (IF socket[v] = "open" THEN room \cup {v} ELSE room \ {v})
      /\ UNCHANGED <<table, request, writes, valid>> /\ page[v].mounted /\ wire[v] # <<>>
  BY <1>1 DEF EventArrives, serverVars
<1>3. w \in Seq({"order", "call"})
  BY <1>1, <1>2
<1>4. /\ pg \in PageRow /\ pg.mounted
      /\ \/ pg.refresh = "asked"
         \/ pg.refresh # "none" /\ pg.again
  BY <1>1, <1>2, RefreshedPage
<1>5. \/ pg.mounted /\ pg.refresh = "none" /\ pg.shown # table
      \/ pg.refresh = "read" /\ pg.read # table
      => excused[v] \/ w # <<>> \/ pg.again \/ request.stage = "emit"
  BY <1>4
<1> HIDE DEF w, pg
<1> QED BY <1>1, <1>2, <1>3, <1>4, <1>5, VisitKeeps

LEMMA PageStepKeeps ==
  ASSUME ConsoleInv, NEW v \in Visits, PageStep(v)
  PROVE  ConsoleInv'
BY OpensPageKeeps, MountKeeps, ReadKeeps, RenderKeeps, UnmountKeeps, SocketStepKeeps, DropKeeps, EventKeeps
DEF PageStep

(* A step of the server, which leaves the sockets alone and every page mounted or not as it was. *)
LEMMA ServerKeeps ==
  ASSUME ConsoleInv, UNCHANGED <<room, socket>>,
         page' \in [Visits -> PageRow], \A v \in Visits : page'[v].mounted = page[v].mounted,
         \A v \in Visits : ~page'[v].mounted => page'[v] = page[v],
         excused' \in [Visits -> BOOLEAN], wire' \in [Visits -> Seq({"order", "call"})],
         request' \in Served \cup {NoRequest}, table' \in Tables,
         writes' \in 0 .. MaxWrites, valid' \in BOOLEAN,
         \A v \in Visits : Stale(v)' => Coming(v)'
  PROVE  ConsoleInv'
<1>1. socket \in [Visits -> SocketStates] /\ room \subseteq Visits
  BY ConsoleShape DEF ConsoleInv
<1>2. ConsoleTypeOK'
  BY <1>1, TypesFrom
<1>3. NoSocketOutlivesPage'
  BY DEF ConsoleInv, NoSocketOutlivesPage
<1>4. \A v \in Visits : ~page'[v].mounted /\ page'[v].refresh # "none" => page'[v].refresh = "read" /\ ~page'[v].again
  BY DEF ConsoleInv
<1> QED BY <1>2, <1>3, <1>4 DEF ConsoleInv

LEMMA SubmitKeeps ==
  ASSUME ConsoleInv, NEW v \in Visits, NEW op \in Operations, NEW s \in Sales, Submit(v, op, s)
  PROVE  ConsoleInv'
<1>1. /\ page \in [Visits -> PageRow] /\ excused \in [Visits -> BOOLEAN]
      /\ table \in Tables /\ writes \in 0 .. MaxWrites /\ valid \in BOOLEAN
  BY ConsoleShape DEF ConsoleInv
<1>2. wire \in [Visits -> Seq({"order", "call"})] /\ \A u \in Visits : Stale(u) => Coming(u)
  BY DEF ConsoleInv
<1>3. UNCHANGED <<table, writes, valid, room, socket, wire, page, excused>>
  BY DEF Submit, eventVars, pageVars
<1>4. request' \in Served
  BY DEF Submit, Served, After
<1>5. request.stage # "emit"
  BY DEF Submit, NoRequest
<1>6. \A u \in Visits : Stale(u)' => Coming(u)'
  BY <1>2, <1>3, <1>5 DEF Stale, Coming
<1> QED BY <1>1, <1>2, <1>3, <1>4, <1>6, ServerKeeps

(* What a request writes is a table again. *)
LEMMA EffectsAreTables ==
  ASSUME table \in Tables, NEW op \in Operations, NEW s \in Sales, NEW after \in Effects(op, s)
  PROVE  after \in Tables
<1>1. ASSUME NEW o \in {"none", "pending", "confirmed", "cancelled"}, NEW c \in {"none", "queued", "over"},
             NEW x \in Sales
      PROVE  SetSale(x, o, c) \in Tables
  BY DEF SetSale, Tables, Sale
<1>2. table[s].call \in {"none", "queued", "over"}
  BY DEF Tables, Sale
<1>3. CASE op = "create" \/ op = "delete" \/ op = "queue"
  BY <1>1, <1>3 DEF Effects
<1>4. CASE op = "status"
  <2>1. PICK o \in {"confirmed", "cancelled"} : after = SetSale(s, o, table[s].call)
    BY <1>4 DEF Effects
  <2> QED BY <1>1, <1>2, <2>1
<1>5. CASE op = "import"
  <2>1. after = [x \in Sales |-> IF table[x] = NoSale THEN SetSale(x, "pending", "none")[x] ELSE table[x]]
    BY <1>5 DEF Effects
  <2>2. \A x \in Sales : SetSale(x, "pending", "none")[x] \in Sale /\ table[x] \in Sale
    BY <1>1 DEF Tables
  <2> QED BY <2>1, <2>2 DEF Tables
<1>6. CASE op = "queueAll"
  <2>1. after = Queued
    BY <1>6 DEF Effects
  <2>2. ASSUME NEW x \in Sales
        PROVE  table[x] \in Sale /\ [table[x] EXCEPT !.call = "queued"] \in Sale
    BY DEF Tables, Sale
  <2> QED BY <2>1, <2>2 DEF Queued, Tables
<1> QED BY <1>3, <1>4, <1>5, <1>6 DEF Operations

LEMMA WriteKeeps ==
  ASSUME ConsoleInv, Write
  PROVE  ConsoleInv'
<1>1. /\ page \in [Visits -> PageRow] /\ excused \in [Visits -> BOOLEAN] /\ request \in Served \cup {NoRequest}
      /\ table \in Tables /\ writes \in 0 .. MaxWrites /\ valid \in BOOLEAN
  BY ConsoleShape DEF ConsoleInv
<1>2. wire \in [Visits -> Seq({"order", "call"})]
  BY DEF ConsoleInv
<1>3. UNCHANGED <<valid, room, socket, wire, page>> /\ writes' \in 0 .. MaxWrites
  BY <1>1, ConsoleAssumption DEF Write, eventVars
<1>4. request \in Served /\ request.stage = "write"
  BY <1>1 DEF Write, NoRequest
<1>5. request.op \in Operations /\ request.on \in Sales
  BY <1>4 DEF Served
<1>6. table' \in Tables
  BY <1>1, <1>5, EffectsAreTables DEF Write
<1>7. request' \in Served /\ request'.stage = IF request.op = "queueAll" THEN "answer" ELSE "emit"
  BY <1>4, <1>5 DEF Write, Advanced, After, Served
<1>8. excused' \in [Visits -> BOOLEAN] /\ \A u \in Visits : excused'[u] \/ request'.stage = "emit"
  BY <1>1, <1>7 DEF Write
<1>9. \A u \in Visits : Stale(u)' => Coming(u)'
  BY <1>8 DEF Coming
<1> QED BY <1>1, <1>2, <1>3, <1>6, <1>7, <1>8, <1>9, ServerKeeps

LEMMA RefuseKeeps ==
  ASSUME ConsoleInv, Refuse
  PROVE  ConsoleInv'
<1>1. /\ page \in [Visits -> PageRow] /\ excused \in [Visits -> BOOLEAN]
      /\ table \in Tables /\ writes \in 0 .. MaxWrites /\ valid \in BOOLEAN
  BY ConsoleShape DEF ConsoleInv
<1>2. wire \in [Visits -> Seq({"order", "call"})] /\ \A u \in Visits : Stale(u) => Coming(u)
  BY DEF ConsoleInv
<1>3. UNCHANGED <<table, writes, valid, room, socket, wire, page, excused>>
  BY DEF Refuse, eventVars, pageVars
<1>4. request' \in Served \cup {NoRequest} /\ request.stage # "emit"
  BY DEF Refuse
<1>5. \A u \in Visits : Stale(u)' => Coming(u)'
  BY <1>2, <1>3, <1>4 DEF Stale, Coming
<1> QED BY <1>1, <1>2, <1>3, <1>4, <1>5, ServerKeeps

LEMMA EmitKeeps ==
  ASSUME ConsoleInv, Emit
  PROVE  ConsoleInv'
<1>1. /\ page \in [Visits -> PageRow] /\ excused \in [Visits -> BOOLEAN] /\ request \in Served \cup {NoRequest}
      /\ table \in Tables /\ writes \in 0 .. MaxWrites /\ valid \in BOOLEAN
  BY ConsoleShape DEF ConsoleInv
<1>2. wire \in [Visits -> Seq({"order", "call"})]
  BY DEF ConsoleInv
<1>3. UNCHANGED <<table, writes, valid, room, socket, page>>
  BY DEF Emit
<1>4. request \in Served /\ request.stage = "emit"
  BY <1>1 DEF Emit, NoRequest
<1>5. request' \in Served
  BY <1>4 DEF Emit, Advanced, After, Served
<1>6. Event(request.op) \in {"order", "call"}
  BY DEF Event
<1>7. ASSUME NEW u \in Visits
      PROVE  /\ Append(wire[u], Event(request.op)) \in Seq({"order", "call"})
             /\ Append(wire[u], Event(request.op)) # <<>>
  <2>1. wire[u] \in Seq({"order", "call"})
    BY <1>2
  <2>2. Append(wire[u], Event(request.op)) \in Seq({"order", "call"})
    BY <1>6, <2>1
  <2>3. Len(Append(wire[u], Event(request.op))) = Len(wire[u]) + 1 /\ Len(wire[u]) \in Nat
    BY <1>6, <2>1
  <2>4. Append(wire[u], Event(request.op)) # <<>>
    <3> SUFFICES ASSUME Append(wire[u], Event(request.op)) = <<>> PROVE FALSE
      OBVIOUS
    <3>1. Len(<<>>) = 0
      OBVIOUS
    <3>2. Len(wire[u]) + 1 = 0
      BY <2>3, <3>1
    <3> QED BY <2>3, <3>2
  <2> QED BY <2>2, <2>4
<1>8. /\ wire' \in [Visits -> Seq({"order", "call"})]
      /\ \A u \in Visits : u \in room => wire'[u] # <<>>
  <2>1. wire' = [x \in Visits |-> IF x \in room THEN Append(wire[x], Event(request.op)) ELSE wire[x]]
    BY DEF Emit
  <2>2. \A x \in Visits : wire[x] \in Seq({"order", "call"})
    BY <1>2
  <2> QED BY <1>7, <2>1, <2>2
<1>9. excused' \in [Visits -> BOOLEAN] /\ \A u \in Visits : u \notin room => excused'[u]
  BY <1>1 DEF Emit
<1>10. \A u \in Visits : Stale(u)' => Coming(u)'
  BY <1>8, <1>9 DEF Coming
<1> QED BY <1>1, <1>3, <1>5, <1>8, <1>9, <1>10, ServerKeeps

LEMMA AnswerKeeps ==
  ASSUME ConsoleInv, ActionAnswers
  PROVE  ConsoleInv'
<1>1. /\ page \in [Visits -> PageRow] /\ excused \in [Visits -> BOOLEAN] /\ request \in Served \cup {NoRequest}
      /\ table \in Tables /\ writes \in 0 .. MaxWrites /\ valid \in BOOLEAN
  BY ConsoleShape DEF ConsoleInv
<1>2. wire \in [Visits -> Seq({"order", "call"})] /\ \A u \in Visits : Stale(u) => Coming(u)
  BY DEF ConsoleInv
<1>3. UNCHANGED <<table, writes, valid, room, socket, wire, excused>> /\ request' = NoRequest
  BY DEF ActionAnswers, eventVars
<1>4. request \in Served /\ request.stage # "emit"
  BY <1>1 DEF ActionAnswers, NoRequest
<1> DEFINE v == request.by
           pg == Refreshed(page[v])
<1>5. v \in Visits /\ page[v] \in PageRow
  BY <1>1, <1>4 DEF Served
<1>6. /\ pg \in PageRow /\ pg.mounted = page[v].mounted
      /\ \/ pg.refresh = "asked"
         \/ pg.refresh # "none" /\ pg.again
  BY <1>5, RefreshedPage
<1>7. page' = IF page[v].mounted THEN [page EXCEPT ![v] = pg] ELSE page
  BY DEF ActionAnswers
<1> HIDE DEF pg, v
<1>8. /\ page' \in [Visits -> PageRow]
      /\ \A u \in Visits : u # v => page'[u] = page[u]
      /\ page'[v] = page[v] \/ (page[v].mounted /\ page'[v] = pg)
  BY <1>1, <1>5, <1>6, <1>7
<1>9. \A u \in Visits : page'[u].mounted = page[u].mounted /\ (~page'[u].mounted => page'[u] = page[u])
  BY <1>5, <1>6, <1>8
<1>10. ASSUME NEW u \in Visits PROVE Stale(u)' => Coming(u)'
  <2>1. CASE page'[u] = page[u]
    BY <1>2, <1>3, <1>4, <2>1 DEF Stale, Coming
  <2>2. CASE u = v /\ page'[v] = pg
    BY <1>6, <2>2 DEF Stale, Coming
  <2> QED BY <1>8, <2>1, <2>2
<1> QED BY <1>1, <1>2, <1>3, <1>8, <1>9, <1>10, ServerKeeps

LEMMA CallMovesKeeps ==
  ASSUME ConsoleInv, NEW s \in Sales, CallMoves(s)
  PROVE  ConsoleInv'
<1>1. /\ page \in [Visits -> PageRow] /\ request \in Served \cup {NoRequest}
      /\ table \in Tables /\ writes \in 0 .. MaxWrites /\ valid \in BOOLEAN
  BY ConsoleShape DEF ConsoleInv
<1>2. wire \in [Visits -> Seq({"order", "call"})]
  BY DEF ConsoleInv
<1>3. UNCHANGED <<request, valid, room, socket, wire, page>> /\ writes' \in 0 .. MaxWrites
  BY <1>1, ConsoleAssumption DEF CallMoves, eventVars
<1>4. excused' = [u \in Visits |-> TRUE]
  BY DEF CallMoves
<1>5. table' \in Tables
  <2>1. ASSUME NEW o \in {table[s].order, "confirmed"}
        PROVE  SetSale(s, o, "over") \in Tables
    BY <1>1 DEF SetSale, Tables, Sale
  <2>2. [table EXCEPT ![s].call = "queued"] \in Tables
    BY <1>1 DEF Tables, Sale
  <2> QED BY <2>1, <2>2 DEF CallMoves
<1>6. \A u \in Visits : Stale(u)' => Coming(u)'
  BY <1>4 DEF Coming
<1> QED BY <1>1, <1>2, <1>3, <1>4, <1>5, <1>6, ServerKeeps

LEMMA RestartKeeps ==
  ASSUME ConsoleInv, Restart
  PROVE  ConsoleInv'
<1>1. /\ page \in [Visits -> PageRow] /\ socket \in [Visits -> SocketStates] /\ room \subseteq Visits
      /\ table \in Tables /\ writes \in 0 .. MaxWrites /\ valid \in BOOLEAN
  BY ConsoleShape DEF ConsoleInv
<1>2. UNCHANGED <<table, writes, valid, page>> /\ request' = NoRequest /\ room' = {}
  BY DEF Restart
<1>3. /\ wire' = [u \in Visits |-> <<>>] /\ excused' = [u \in Visits |-> TRUE]
      /\ socket' = [u \in Visits |-> IF u \in room THEN "down" ELSE socket[u]]
  BY DEF Restart
<1>4. /\ \A u \in Visits : socket[u] \in {"opening", "open", "down"} => page[u].mounted
      /\ room = {u \in Visits : socket[u] = "open"}
  BY DEF ConsoleInv, NoSocketOutlivesPage
<1>5. socket' \in [Visits -> SocketStates] /\ wire' \in [Visits -> Seq({"order", "call"})]
  BY <1>1, <1>3 DEF SocketStates
<1>6. ConsoleTypeOK'
  BY <1>1, <1>2, <1>3, <1>5, TypesFrom
<1>7. \A u \in Visits : socket'[u] # "open" /\ (socket'[u] \in {"opening", "down"} => page'[u].mounted)
  BY <1>2, <1>3, <1>4
<1>8. NoSocketOutlivesPage'
  BY <1>2, <1>7 DEF NoSocketOutlivesPage
<1>9. \A u \in Visits : ~page'[u].mounted /\ page'[u].refresh # "none" => page'[u].refresh = "read" /\ ~page'[u].again
  BY <1>2 DEF ConsoleInv
<1>10. \A u \in Visits : Stale(u)' => Coming(u)'
  BY <1>3 DEF Coming
<1> QED BY <1>5, <1>6, <1>8, <1>9, <1>10 DEF ConsoleInv

LEMMA ConsoleKept == ConsoleInv /\ [ConsoleNext]_consoleVars => ConsoleInv'
<1> SUFFICES ASSUME ConsoleInv, [ConsoleNext]_consoleVars PROVE ConsoleInv'
  OBVIOUS
<1>1. CASE UNCHANGED consoleVars \/ SessionRevoked
  <2>1. /\ UNCHANGED <<table, request, writes, room, socket, wire, page, excused>>
        /\ valid' = valid \/ valid' = FALSE
    BY <1>1 DEF consoleVars, SessionRevoked, eventVars, pageVars
  <2>2. /\ page \in [Visits -> PageRow] /\ excused \in [Visits -> BOOLEAN]
        /\ request \in Served \cup {NoRequest}
        /\ table \in Tables /\ writes \in 0 .. MaxWrites /\ valid \in BOOLEAN
    BY ConsoleShape DEF ConsoleInv
  <2>3. wire \in [Visits -> Seq({"order", "call"})] /\ \A u \in Visits : Stale(u) => Coming(u)
    BY DEF ConsoleInv
  <2>4. \A u \in Visits : Stale(u)' => Coming(u)'
    BY <2>1, <2>3 DEF Stale, Coming
  <2>5. valid' \in BOOLEAN
    BY <2>1, <2>2
  <2> QED BY <2>1, <2>2, <2>3, <2>4, <2>5, ServerKeeps
<1>2. CASE \E v \in Visits : PageStep(v)
  BY <1>2, PageStepKeeps
<1>3. CASE RequestStep
  BY <1>3, SubmitKeeps, WriteKeeps, RefuseKeeps, EmitKeeps, AnswerKeeps DEF RequestStep
<1>4. CASE \E s \in Sales : CallMoves(s)
  BY <1>4, CallMovesKeeps
<1>5. CASE Restart
  BY <1>5, RestartKeeps
<1> QED BY <1>1, <1>2, <1>3, <1>4, <1>5 DEF ConsoleNext

LEMMA ConsoleInvHolds == ConsoleSpec => []ConsoleInv
BY ConsoleStart, ConsoleKept, PTL DEF ConsoleSpec

LEMMA CurrentFromInvariant == ConsoleInv => PagesStayCurrent
<1> SUFFICES ASSUME ConsoleInv PROVE PagesStayCurrent
  OBVIOUS
<1>1. page \in [Visits -> PageRow]
  BY ConsoleShape DEF ConsoleInv
<1>2. ASSUME NEW v \in Visits, page[v].mounted, Behind(v)
      PROVE  excused[v] \/ wire[v] # <<>> \/ page[v].again \/ request.stage = "emit"
  <2>1. page[v].refresh \in {"none", "asked", "read"}
    BY <1>1 DEF PageRow
  <2>2. Stale(v)
    BY <1>2, <2>1 DEF Behind, Stale
  <2> QED BY <2>2 DEF ConsoleInv, Coming
<1> QED BY <1>2 DEF PagesStayCurrent, PageCatchesUp, ConsoleInv

(***************************************************************************)
(* The open pages of the staff stay current, however many are open and      *)
(* however many orders the shop has: what a page does not show yet is on its *)
(* way to it, unless it was written without an event, and no socket of the   *)
(* gateway's room belongs to a page that was left.                           *)
(***************************************************************************)
THEOREM PagesAreCurrent == ConsoleSpec => []PagesStayCurrent
BY ConsoleInvHolds, CurrentFromInvariant, PTL

---------------------------------------------------------------------------
(* The cards of the settings *)

Texts(k) == [Fields(k) -> FieldValues]

CardShape(c) ==
  /\ c.kind \in Cards /\ c.mounted \in Texts(c.kind) /\ c.given \in Texts(c.kind)
  /\ c.shows \in Texts(c.kind) /\ c.sent \in Texts(c.kind)
  /\ c.touched \in BOOLEAN /\ c.stage \in {"idle", "sent", "saved", "refused"}
  /\ c.status \in {"none", "saved", "refused"}
  /\ c = [kind |-> c.kind, mounted |-> c.mounted, given |-> c.given, shows |-> c.shows, preview |-> c.preview, stage |-> c.stage,
          sent |-> c.sent, values |-> c.values, status |-> c.status, touched |-> c.touched]

(* While a save is under way, what was sent still stands in the card, unless it was touched. *)
CardInv ==
  /\ CardShape(card) /\ savedRow \in Texts(card.kind) /\ others \in Nat
  /\ card.stage # "idle" /\ ~card.touched => card.shows = card.sent
  /\ card.stage = "saved" /\ others = 0 => savedRow = card.sent
  /\ CardTellsTheTruth

LEMMA CardsStart == SettingsInit => CardInv
<1> SUFFICES ASSUME SettingsInit PROVE CardInv
  OBVIOUS
<1>1. PICK k \in Cards :
        /\ savedRow \in Usual(k)
        /\ card = [kind |-> k, mounted |-> savedRow, given |-> savedRow, shows |-> savedRow,
                   preview |-> FALSE, stage |-> "idle", sent |-> savedRow, values |-> NoValues, status |-> "none", touched |-> FALSE]
        /\ others = 0
  BY DEF SettingsInit
<1>2. savedRow \in Texts(k)
  BY <1>1 DEF Usual, CardRows, Texts
<1>3. /\ card.kind = k /\ card.mounted = savedRow /\ card.given = savedRow /\ card.shows = savedRow /\ card.sent = savedRow
      /\ card.stage = "idle" /\ card.status = "none" /\ ~card.preview
  BY <1>1
<1>4. CardShape(card)
  BY <1>1, <1>2 DEF CardShape
<1>5. CardTellsTheTruth
  BY <1>3 DEF CardTellsTheTruth
<1> QED BY <1>1, <1>2, <1>3, <1>4, <1>5 DEF CardInv

(* A select is left out of the request only when it is empty, and emptied then. *)
LEMMA WrittenAsSent ==
  ASSUME NEW c, CardShape(c)
  PROVE  Written(c) = c.sent
<1> DEFINE d == [c EXCEPT !.shows = c.sent]
<1>1. d.kind = c.kind /\ d.shows = c.sent
  BY DEF CardShape
<1>2. DOMAIN Body(d) = {g \in Fields(c.kind) : g \in Selects => c.sent[g] # ""}
  BY <1>1 DEF Body
<1>3. \A f \in Fields(c.kind) : (IF f \in DOMAIN Body(d) THEN c.sent[f] ELSE "") = c.sent[f]
  BY <1>2
<1>4. c.sent = [f \in Fields(c.kind) |-> c.sent[f]]
  BY DEF CardShape, Texts
<1>5. Written(c) = [f \in Fields(c.kind) |-> IF f \in DOMAIN Body(d) THEN c.sent[f] ELSE ""]
  BY DEF Written
<1> HIDE DEF d
<1> QED BY <1>3, <1>4, <1>5

(* What a merchant does to a card hides the result of its last save. *)
LEMMA EditKeepsCard ==
  ASSUME CardInv, NEW t \in Texts(card.kind), card.kind # "avatar",
         card' = [card EXCEPT !.shows = t, !.status = "none", !.touched = card.stage # "idle"],
         UNCHANGED <<savedRow, saves, others>>
  PROVE  CardInv'
<1>1. CardShape(card) /\ savedRow \in Texts(card.kind) /\ others \in Nat
  BY DEF CardInv
<1>2. /\ card'.kind = card.kind /\ card'.mounted = card.mounted /\ card'.given = card.given /\ card'.shows = t /\ card'.preview = card.preview
      /\ card'.stage = card.stage /\ card'.sent = card.sent /\ card'.values = card.values
      /\ card'.status = "none" /\ card'.touched = (card.stage # "idle")
  BY <1>1 DEF CardShape
<1>3. card' = [kind |-> card.kind, mounted |-> card.mounted, given |-> card.given, shows |-> t, preview |-> card.preview, stage |-> card.stage,
               sent |-> card.sent, values |-> card.values, status |-> "none", touched |-> card.stage # "idle"]
  BY <1>1 DEF CardShape
<1>4. CardShape(card)'
  BY <1>1, <1>2, <1>3 DEF CardShape
<1>5. CardTellsTheTruth'
  BY <1>2 DEF CardTellsTheTruth
<1> QED BY <1>1, <1>2, <1>4, <1>5 DEF CardInv

(* A save takes what the card shows. *)
LEMMA SendKeepsCard ==
  ASSUME CardInv, NEW t \in Texts(card.kind), NEW p, NEW s \in {"none", "saved", "refused"},
         card' = Sends([card EXCEPT !.shows = t, !.preview = p, !.status = s]),
         UNCHANGED <<savedRow, others>>
  PROVE  CardInv'
<1>1. CardShape(card) /\ savedRow \in Texts(card.kind) /\ others \in Nat
  BY DEF CardInv
<1>0. card = [kind |-> card.kind, mounted |-> card.mounted, given |-> card.given, shows |-> card.shows, preview |-> card.preview,
              stage |-> card.stage, sent |-> card.sent, values |-> card.values, status |-> card.status,
              touched |-> card.touched]
  BY <1>1 DEF CardShape
<1>a. PICK c : c = [card EXCEPT !.shows = t, !.preview = p, !.status = s]
  OBVIOUS
<1>2. c = [kind |-> card.kind, mounted |-> card.mounted, given |-> card.given, shows |-> t, preview |-> p, stage |-> card.stage,
           sent |-> card.sent, values |-> card.values, status |-> s, touched |-> card.touched]
  BY <1>a, <1>1 DEF CardShape
<1>3. card' = [c EXCEPT !.stage = "sent", !.sent = c.shows, !.touched = FALSE]
  BY <1>a DEF Sends
<1>4. card' = [kind |-> card.kind, mounted |-> card.mounted, given |-> card.given, shows |-> t, preview |-> p, stage |-> "sent",
               sent |-> t, values |-> card.values, status |-> s, touched |-> FALSE]
  BY <1>2, <1>3
<1>5. /\ card'.kind = card.kind /\ card'.mounted = card.mounted /\ card'.given = card.given /\ card'.shows = t /\ card'.preview = p
      /\ card'.stage = "sent" /\ card'.sent = t /\ card'.values = card.values /\ card'.status = s
      /\ card'.touched = FALSE
  BY <1>4
<1>6. CardShape(card)'
  BY <1>1, <1>4, <1>5 DEF CardShape
<1>7. CardTellsTheTruth'
  BY <1>5 DEF CardTellsTheTruth
<1> QED BY <1>1, <1>5, <1>6, <1>7 DEF CardInv

LEMMA MerchantKeepsCard ==
  ASSUME CardInv,
         \/ \E f \in Fields(card.kind) : \E x \in Typable(f) : Type(f, x)
         \/ \E x \in FieldValues : PickPicture(x)
         \/ SaveCard \/ ResetAppearance \/ RefusePicture \/ RemovePicture
  PROVE  CardInv'
<1>1. CardShape(card) /\ savedRow \in Texts(card.kind) /\ others \in Nat
  BY DEF CardInv
<1>2. card = [kind |-> card.kind, mounted |-> card.mounted, given |-> card.given, shows |-> card.shows, preview |-> card.preview,
              stage |-> card.stage, sent |-> card.sent, values |-> card.values, status |-> card.status,
              touched |-> card.touched]
  BY <1>1 DEF CardShape
<1>3. ASSUME NEW f \in Fields(card.kind), NEW x \in Typable(f), Type(f, x)
      PROVE  CardInv'
  <2>1. x \in FieldValues
    BY SettingsAssumption DEF Typable
  <2>2. [card.shows EXCEPT ![f] = x] \in Texts(card.kind)
    BY <1>1, <2>1 DEF CardShape, Texts
  <2>3. card' = [card EXCEPT !.shows = [card.shows EXCEPT ![f] = x], !.status = "none", !.touched = card.stage # "idle"]
    BY <1>2, <1>3 DEF Type
  <2> QED BY <1>3, <2>2, <2>3, EditKeepsCard DEF Type
<1>4. CASE ResetAppearance
  <2>1. DefaultLook \in Texts(card.kind)
    <3>1. Fields(card.kind) = {"accentColor", "themeMode"}
      BY <1>4 DEF ResetAppearance, Fields
    <3>2. "" \in FieldValues /\ System \in FieldValues
      BY SettingsAssumption
    <3>3. DOMAIN DefaultLook = {"accentColor", "themeMode"}
      BY DEF DefaultLook
    <3>4. DefaultLook["accentColor"] = "" /\ DefaultLook["themeMode"] = System
      BY DEF DefaultLook
    <3>5. DefaultLook = [f \in DOMAIN DefaultLook |-> DefaultLook[f]]
      BY DEF DefaultLook
    <3>6. DefaultLook \in [{"accentColor", "themeMode"} -> FieldValues]
      BY <3>2, <3>3, <3>4, <3>5
    <3> QED BY <3>1, <3>6 DEF Texts
  <2>2. card.kind # "avatar"
    BY <1>4 DEF ResetAppearance
  <2> QED BY <1>4, <2>1, <2>2, EditKeepsCard DEF ResetAppearance
<1>5. CASE SaveCard
  <2>1. card = [card EXCEPT !.shows = card.shows, !.preview = card.preview, !.status = card.status]
    BY <1>2
  <2>2. card.shows \in Texts(card.kind) /\ card.status \in {"none", "saved", "refused"}
    BY <1>1 DEF CardShape
  <2> QED BY <1>5, <2>1, <2>2, SendKeepsCard DEF SaveCard
<1>6. ASSUME NEW x \in FieldValues, PickPicture(x)
      PROVE  CardInv'
  <2>1. card.kind = "avatar" /\ "file" \in Fields(card.kind)
    BY <1>6 DEF PickPicture, Fields
  <2>2. [card.shows EXCEPT !["file"] = x] \in Texts(card.kind)
    BY <1>1, <2>1 DEF CardShape, Texts
  <2>3. card' = Sends([card EXCEPT !.shows = [card.shows EXCEPT !["file"] = x], !.preview = TRUE, !.status = "none"])
    BY <1>2, <1>6 DEF PickPicture
  <2> QED BY <1>6, <2>2, <2>3, SendKeepsCard DEF PickPicture
<1>7. CASE RemovePicture
  <2>1. card.kind = "avatar" /\ "" \in FieldValues
    BY <1>7, SettingsAssumption DEF RemovePicture
  <2>2. [card.shows EXCEPT !["file"] = ""] \in Texts(card.kind)
    BY <1>1, <2>1 DEF CardShape, Texts
  <2>3. [card EXCEPT !.shows["file"] = ""] =
          [card EXCEPT !.shows = [card.shows EXCEPT !["file"] = ""], !.preview = card.preview, !.status = card.status]
    BY <1>2
  <2>4. card.status \in {"none", "saved", "refused"}
    BY <1>1 DEF CardShape
  <2>5. card' = Sends([card EXCEPT !.shows = [card.shows EXCEPT !["file"] = ""], !.preview = card.preview,
                                   !.status = card.status])
    BY <1>7, <2>3 DEF RemovePicture
  <2>6. UNCHANGED <<savedRow, others>>
    BY <1>7 DEF RemovePicture
  <2> QED BY <2>2, <2>4, <2>5, <2>6, SendKeepsCard
<1>8. CASE RefusePicture
  <2>1. /\ card' = [kind |-> card.kind, mounted |-> card.mounted, given |-> card.given, shows |-> card.shows, preview |-> card.preview,
                    stage |-> card.stage, sent |-> card.sent, values |-> card.values, status |-> "none",
                    touched |-> card.touched]
        /\ savedRow' = savedRow /\ others' = others /\ card.kind = "avatar" /\ card.stage = "idle"
    BY <1>2, <1>8 DEF RefusePicture
  <2>2. CardShape(card)'
    BY <1>1, <2>1 DEF CardShape
  <2>3. CardTellsTheTruth'
    BY <2>1 DEF CardTellsTheTruth, CardInv
  <2> QED BY <1>1, <2>1, <2>2, <2>3 DEF CardInv
<1> QED BY <1>3, <1>4, <1>5, <1>6, <1>7, <1>8

(* The card that an answer leaves: the inputs and boxes of a shop card are reset to what pick gives them. *)
LEMMA AnswerToCard ==
  ASSUME NEW c, CardShape(c), NEW r \in Texts(c.kind), c.stage \in {"saved", "refused"}
  PROVE  LET d == AfterAnswer(c, r)
         IN  /\ CardShape(d) /\ d.kind = c.kind /\ d.stage = "idle" /\ d.sent = c.sent /\ d.status = c.stage
             /\ d.given = (IF c.stage = "saved" THEN r ELSE c.given) /\ d.mounted = c.mounted
             /\ c.kind \in ShopCards =>
                  \A f \in Fields(c.kind) \ Selects :
                    d.shows[f] = IF c.stage = "refused" THEN c.sent[f] ELSE d.given[f]
             /\ c.kind = "avatar" => d.shows = d.given /\ ~d.preview
             /\ c.kind \in {"profile", "appearance"} => d.shows = c.shows /\ d.touched = c.touched
<1>1. /\ c.kind \in Cards /\ c.mounted \in Texts(c.kind) /\ c.given \in Texts(c.kind)
      /\ c.shows \in Texts(c.kind) /\ c.sent \in Texts(c.kind)
      /\ c.touched \in BOOLEAN
      /\ c = [kind |-> c.kind, mounted |-> c.mounted, given |-> c.given, shows |-> c.shows, preview |-> c.preview, stage |-> c.stage,
              sent |-> c.sent, values |-> c.values, status |-> c.status, touched |-> c.touched]
  BY DEF CardShape
<1>2. PICK g \in Texts(c.kind) : g = IF c.stage = "saved" THEN r ELSE c.given
  BY <1>1
<1>3. PICK vals : vals = ReturnedValues(c)
  OBVIOUS
<1>4. PICK d : d = [c EXCEPT !.stage = "idle", !.status = c.stage, !.values = ReturnedValues(c),
                             !.given = IF c.stage = "saved" THEN r ELSE c.given]
  OBVIOUS
<1>5. d = [kind |-> c.kind, mounted |-> c.mounted, given |-> g, shows |-> c.shows, preview |-> c.preview, stage |-> "idle",
           sent |-> c.sent, values |-> vals, status |-> c.stage, touched |-> c.touched]
  BY <1>1, <1>2, <1>3, <1>4
<1>6. AfterAnswer(c, r) = CASE c.kind \in ShopCards -> [d EXCEPT !.shows = ShowsDefaults(d), !.touched = FALSE]
                            [] c.kind = "avatar" -> [d EXCEPT !.shows = d.given, !.preview = FALSE]
                            [] OTHER -> d
  BY <1>4 DEF AfterAnswer
<1>7. /\ d.kind = c.kind /\ d.mounted = c.mounted /\ d.given = g /\ d.shows = c.shows /\ d.stage = "idle" /\ d.sent = c.sent
      /\ d.values = vals /\ d.status = c.stage /\ d.touched = c.touched
  BY <1>5
<1>8. CASE c.kind \in ShopCards
  <2>1. PICK e : e = AfterAnswer(c, r)
    OBVIOUS
  <2>2. PICK sh : sh = ShowsDefaults(d)
    OBVIOUS
  <2>3. e = [kind |-> c.kind, mounted |-> c.mounted, given |-> g, shows |-> sh, preview |-> c.preview, stage |-> "idle",
             sent |-> c.sent, values |-> vals, status |-> c.stage, touched |-> FALSE]
    <3>1. e = [d EXCEPT !.shows = sh, !.touched = FALSE]
      BY <1>6, <1>8, <2>1, <2>2 DEF ShopCards
    <3> QED BY <1>5, <3>1
  <2>4. sh = [f \in Fields(c.kind) |->
                IF f \in Selects THEN c.mounted[f] ELSE IF f \in DOMAIN vals THEN vals[f] ELSE g[f]]
    BY <1>7, <2>2 DEF ShowsDefaults, Pick
  <2>5. ASSUME NEW f \in Fields(c.kind) \ Selects
        PROVE  sh[f] = IF c.stage = "refused" THEN c.sent[f] ELSE g[f]
    <3>1. CASE c.stage = "saved"
      <4>1. DOMAIN vals = {}
        BY <1>3, <3>1 DEF ReturnedValues, NoValues
      <4> QED BY <2>4, <3>1, <4>1
    <3>2. CASE c.stage = "refused"
      <4>1. PICK b : b = [c EXCEPT !.shows = c.sent]
        OBVIOUS
      <4>2. b.kind = c.kind /\ b.shows = c.sent
        BY <1>1, <4>1
      <4>3. vals = Body(b)
        BY <1>3, <1>8, <3>2, <4>1 DEF ReturnedValues
      <4>4. vals = [x \in {y \in Fields(c.kind) : y \in Selects => c.sent[y] # ""} |-> c.sent[x]]
        BY <4>2, <4>3 DEF Body
      <4>5. f \in DOMAIN vals /\ vals[f] = c.sent[f]
        BY <4>4
      <4> QED BY <2>4, <3>2, <4>5
    <3> QED BY <3>1, <3>2
  <2>6. sh \in Texts(c.kind)
    <3>1. ASSUME NEW f \in Fields(c.kind) PROVE sh[f] \in FieldValues
      <4>1. CASE f \in Selects
        BY <1>1, <2>4, <4>1 DEF Texts
      <4>2. CASE f \notin Selects
        BY <1>1, <1>2, <2>5, <4>2 DEF Texts
      <4> QED BY <4>1, <4>2
    <3> QED BY <2>4, <3>1 DEF Texts
  <2>7. /\ e.kind = c.kind /\ e.mounted = c.mounted /\ e.given = g /\ e.shows = sh /\ e.stage = "idle" /\ e.sent = c.sent
        /\ e.values = vals /\ e.status = c.stage /\ e.touched = FALSE /\ e.preview = c.preview
    BY <2>3
  <2>8. CardShape(e)
    BY <1>1, <2>3, <2>6, <2>7 DEF CardShape
  <2> QED BY <1>2, <1>8, <2>1, <2>5, <2>7, <2>8 DEF ShopCards
<1>9. CASE c.kind = "avatar"
  <2>1. PICK e : e = AfterAnswer(c, r)
    OBVIOUS
  <2>2. e = [kind |-> c.kind, mounted |-> c.mounted, given |-> g, shows |-> g, preview |-> FALSE, stage |-> "idle",
             sent |-> c.sent, values |-> vals, status |-> c.stage, touched |-> c.touched]
    BY <1>5, <1>6, <1>7, <1>9, <2>1 DEF ShopCards
  <2>3. /\ e.kind = c.kind /\ e.mounted = c.mounted /\ e.given = g /\ e.shows = g /\ e.stage = "idle" /\ e.sent = c.sent
        /\ e.values = vals /\ e.status = c.stage /\ e.touched = c.touched /\ e.preview = FALSE
    BY <2>2
  <2>4. CardShape(e)
    BY <1>1, <2>2, <2>3 DEF CardShape
  <2> QED BY <1>2, <1>9, <2>1, <2>3, <2>4 DEF ShopCards
<1>10. CASE c.kind \in {"profile", "appearance"}
  <2>1. AfterAnswer(c, r) = d
    BY <1>6, <1>10 DEF ShopCards
  <2>2. CardShape(d)
    BY <1>1, <1>5, <1>7 DEF CardShape
  <2> QED BY <1>2, <1>7, <1>10, <2>1, <2>2 DEF ShopCards
<1> QED BY <1>1, <1>8, <1>9, <1>10 DEF Cards, ShopCards

LEMMA AnswerKeepsCard ==
  ASSUME CardInv, CardAnswers
  PROVE  CardInv'
<1>1. /\ CardShape(card) /\ savedRow \in Texts(card.kind) /\ others \in Nat
      /\ card.stage # "idle" /\ ~card.touched => card.shows = card.sent
      /\ card.stage = "saved" /\ others = 0 => savedRow = card.sent
  BY DEF CardInv
<1>2. card.stage \in {"saved", "refused"} /\ savedRow' = savedRow /\ others' = others /\ card' = AfterAnswer(card, savedRow)
  BY DEF CardAnswers
<1>3. /\ CardShape(card') /\ card'.kind = card.kind /\ card'.stage = "idle" /\ card'.sent = card.sent
      /\ card'.status = card.stage
      /\ card'.given = IF card.stage = "saved" THEN savedRow ELSE card.given
      /\ card.kind \in ShopCards =>
           \A f \in Fields(card.kind) \ Selects :
             card'.shows[f] = IF card.stage = "refused" THEN card.sent[f] ELSE card'.given[f]
      /\ card.kind = "avatar" => card'.shows = card'.given /\ ~card'.preview
      /\ card.kind \in {"profile", "appearance"} => card'.shows = card.shows /\ card'.touched = card.touched
  BY <1>1, <1>2, AnswerToCard
<1>4. card.kind \in Cards /\ card'.shows \in Texts(card.kind) /\ card'.given \in Texts(card.kind)
  BY <1>1, <1>3 DEF CardShape
<1>5. card.kind \in ShopCards \/ card.kind = "avatar" \/ card.kind \in {"profile", "appearance"}
  BY <1>4 DEF Cards, ShopCards
<1>6. ASSUME ~card'.touched, card'.status = "saved", others = 0, NEW f \in Fields(card.kind) \ Selects
      PROVE  card'.shows[f] = savedRow[f]
  <2>1. card'.given = savedRow /\ card.stage = "saved"
    BY <1>3, <1>6
  <2>2. CASE card.kind \in ShopCards
    BY <1>3, <2>1, <2>2
  <2>3. CASE card.kind = "avatar"
    BY <1>3, <2>1, <2>3
  <2>4. CASE card.kind \in {"profile", "appearance"}
    BY <1>1, <1>3, <1>6, <2>1, <2>4
  <2> QED BY <1>5, <2>2, <2>3, <2>4
<1>7. ASSUME ~card'.touched, card'.status = "refused", card.kind # "avatar", NEW f \in Fields(card.kind) \ Selects
      PROVE  card'.shows[f] = card'.sent[f]
  <2>1. CASE card.kind \in ShopCards
    BY <1>3, <1>7, <2>1
  <2>2. CASE card.kind \in {"profile", "appearance"}
    BY <1>1, <1>3, <1>7, <2>2
  <2> QED BY <1>5, <1>7, <2>1, <2>2
<1>8. CardTellsTheTruth'
  BY <1>2, <1>3, <1>6, <1>7 DEF CardTellsTheTruth
<1> QED BY <1>1, <1>2, <1>3, <1>8 DEF CardInv

LEMMA ServerKeepsCard ==
  ASSUME CardInv, AcceptSave \/ RefuseSave
  PROVE  CardInv'
<1>1. /\ CardShape(card) /\ savedRow \in Texts(card.kind) /\ others \in Nat
      /\ card.stage # "idle" /\ ~card.touched => card.shows = card.sent
  BY DEF CardInv
<1>2. PICK answer \in {"saved", "refused"} :
        /\ card' = [card EXCEPT !.stage = answer] /\ others' = others /\ card.stage = "sent"
        /\ savedRow' = savedRow \/ savedRow' = Written(card)
        /\ answer = "saved" => savedRow' = Written(card)
  BY DEF AcceptSave, RefuseSave
<1>3. Written(card) = card.sent /\ card.sent \in Texts(card.kind)
  BY <1>1, WrittenAsSent DEF CardShape
<1>4. card' = [kind |-> card.kind, mounted |-> card.mounted, given |-> card.given, shows |-> card.shows, preview |-> card.preview,
               stage |-> answer, sent |-> card.sent, values |-> card.values, status |-> card.status,
               touched |-> card.touched]
  BY <1>1, <1>2 DEF CardShape
<1>5. /\ card'.kind = card.kind /\ card'.mounted = card.mounted /\ card'.given = card.given /\ card'.shows = card.shows /\ card'.stage = answer
      /\ card'.sent = card.sent /\ card'.status = card.status /\ card'.touched = card.touched
  BY <1>4
<1>6. CardShape(card)'
  BY <1>1, <1>4, <1>5 DEF CardShape
<1>7. CardTellsTheTruth'
  BY <1>5 DEF CardTellsTheTruth
<1> QED BY <1>1, <1>2, <1>3, <1>5, <1>6, <1>7 DEF CardInv

LEMMA OtherWindowKeepsCard ==
  ASSUME CardInv, NEW r \in Usual(card.kind), SavesElsewhere(r)
  PROVE  CardInv'
<1>1. savedRow' \in Texts(card.kind) /\ others' = others + 1 /\ card' = card
  BY DEF SavesElsewhere, Usual, CardRows, Texts
<1>2. others' \in Nat /\ others' # 0
  BY <1>1 DEF CardInv
<1>3. CardTellsTheTruth'
  BY <1>1, <1>2 DEF CardInv, CardTellsTheTruth
<1>4. CardShape(card)'
  BY <1>1 DEF CardInv, CardShape
<1> QED BY <1>1, <1>2, <1>3, <1>4 DEF CardInv

LEMMA CardsKept == CardInv /\ [SettingsNext]_settingsVars => CardInv'
<1> SUFFICES ASSUME CardInv, [SettingsNext]_settingsVars PROVE CardInv'
  OBVIOUS
<1>1. CASE UNCHANGED settingsVars
  BY <1>1 DEF settingsVars, CardInv, CardShape, CardTellsTheTruth
<1>2. CASE SettingsNext
  BY <1>2, MerchantKeepsCard, AnswerKeepsCard, ServerKeepsCard, OtherWindowKeepsCard DEF SettingsNext
<1> QED BY <1>1, <1>2

---------------------------------------------------------------------------
(* The studio of the Voice Lab *)

LabRows == [stage : CallStages, version : Nat \ {0}] \cup {NotThere}
LabRuns == [kind : {"details", "dispatch", "create"}, call : KnownCalls, held : BOOLEAN,
            answer : {"none", "ok", "failed"}, row : LabRows]
Studio == [selected : KnownCalls, shown : KnownCalls, row : LabRows, list : [KnownCalls -> LabRows],
           audio : KnownCalls \cup {Silence}, heard : BOOLEAN, polling : BOOLEAN, notice : {"none", "success", "error"}]

(* A test order is created once, a dispatch is of a call that is there, and the answer with the
   details of a call is as old as what the page shows of it, or newer. *)
RunOK(r) ==
  /\ r.kind = "create" => r.held /\ r.call = TestCall /\ (r.answer = "none" => calls[TestCall] = NotThere)
  /\ r.kind = "dispatch" => calls[r.call] # NotThere
  /\ r.kind = "details" /\ r.answer = "ok" =>
       /\ newest[r.call].version <= r.row.version /\ lab.list[r.call].version <= r.row.version
       /\ r.row.version <= calls[r.call].version

(* The actions run one at a time: only the first can have its answer. *)
LineOK ==
  /\ line \in Seq(LabRuns)
  /\ \A i \in 1 .. Len(line) : RunOK(line[i]) /\ (i # 1 => line[i].answer = "none")
  /\ \A i, j \in 1 .. Len(line) : line[i].kind = "create" /\ line[j].kind = "create" => i = j

LabInv ==
  /\ calls \in [KnownCalls -> LabRows] /\ newest \in [KnownCalls -> LabRows] /\ lab \in Studio
  /\ LineOK
  /\ \A c \in KnownCalls : newest[c].version <= calls[c].version /\ lab.list[c].version <= calls[c].version
  /\ lab.row.version <= calls[lab.shown].version
  /\ StudioTellsOneCall

LEMMA RowsHaveVersions ==
  ASSUME NEW r \in LabRows
  PROVE  r.version \in Nat /\ (r = NotThere <=> r.version = 0) /\ NotThere \in LabRows /\ NotThere.version = 0
         /\ NotThere.stage = "none"
BY DEF LabRows, NotThere

LEMMA LabStart == LabInit => LabInv
<1> SUFFICES ASSUME LabInit PROVE LabInv
  OBVIOUS
<1>1. calls \in [KnownCalls -> LabRows]
  BY DEF LabInit, LabRows
<1>2. PICK c \in LabCalls : lab =
        [selected |-> c, shown |-> c, row |-> calls[c], list |-> calls,
         audio |-> Silence, heard |-> FALSE, polling |-> TRUE, notice |-> "none"]
  BY DEF LabInit
<1>3. c \in KnownCalls
  BY DEF KnownCalls
<1>4. /\ lab \in Studio /\ lab.shown = c /\ lab.row = calls[c] /\ lab.list = calls
      /\ ~lab.heard
  BY <1>1, <1>2, <1>3 DEF Studio
<1>5. newest = [x \in KnownCalls |-> IF x = c THEN calls[x] ELSE NotThere] /\ line = <<>>
  BY <1>4 DEF LabInit
<1>6. \A x \in KnownCalls : calls[x] \in LabRows /\ newest[x] \in LabRows
  BY <1>1, <1>5, RowsHaveVersions
<1>7. newest \in [KnownCalls -> LabRows]
  BY <1>5, <1>6
<1>8. LineOK
  BY <1>5 DEF LineOK
<1>9. \A x \in KnownCalls : newest[x].version <= calls[x].version /\ lab.list[x].version <= calls[x].version
  BY <1>4, <1>5, <1>6, RowsHaveVersions
<1>10. lab.row.version <= calls[lab.shown].version
  BY <1>3, <1>4, <1>6, RowsHaveVersions
<1>11. StudioTellsOneCall
  BY <1>3, <1>4, <1>5, <1>6, RowsHaveVersions DEF StudioTellsOneCall
<1> QED BY <1>1, <1>4, <1>7, <1>8, <1>9, <1>10, <1>11 DEF LabInv

LEMMA LabFields ==
  ASSUME NEW l \in Studio
  PROVE  /\ l.selected \in KnownCalls /\ l.shown \in KnownCalls /\ l.row \in LabRows
         /\ l.list \in [KnownCalls -> LabRows] /\ l.audio \in KnownCalls \cup {Silence} /\ l.heard \in BOOLEAN
BY DEF Studio

(* One more action is asked for; the page may select a call or take its notice away. *)
LEMMA AskKeeps ==
  ASSUME LabInv, NEW kind \in {"details", "dispatch", "create"}, NEW c \in KnownCalls, NEW held \in BOOLEAN,
         Asks(LabRun(kind, c, held)),
         kind = "dispatch" => calls[c] # NotThere,
         kind = "create" => held /\ c = TestCall /\ calls[c] = NotThere /\ ~Busy,
         lab' \in Studio, lab'.shown = lab.shown, lab'.row = lab.row, lab'.list = lab.list,
         lab'.audio \in {lab.audio, Silence}, lab'.heard = lab.heard
  PROVE  LabInv'
<1> DEFINE run == LabRun(kind, c, held)
<1>1. /\ calls \in [KnownCalls -> LabRows] /\ newest \in [KnownCalls -> LabRows] /\ lab \in Studio
      /\ \A x \in KnownCalls : newest[x].version <= calls[x].version /\ lab.list[x].version <= calls[x].version
      /\ lab.row.version <= calls[lab.shown].version
  BY DEF LabInv
<1>2. /\ line \in Seq(LabRuns)
      /\ \A i \in 1 .. Len(line) : RunOK(line[i]) /\ (i # 1 => line[i].answer = "none")
      /\ \A i, j \in 1 .. Len(line) : line[i].kind = "create" /\ line[j].kind = "create" => i = j
  BY DEF LabInv, LineOK
<1>3. calls' = calls /\ newest' = newest /\ line' = Append(line, run)
  BY DEF Asks
<1>4. run \in LabRuns /\ run.kind = kind /\ run.call = c /\ run.held = held /\ run.answer = "none"
  BY RowsHaveVersions DEF LabRun, LabRuns, LabRows
<1> HIDE DEF run
<1>5. /\ line' \in Seq(LabRuns) /\ Len(line') = Len(line) + 1 /\ Len(line) \in Nat
      /\ line'[Len(line) + 1] = run /\ \A i \in 1 .. Len(line) : line'[i] = line[i]
  BY <1>2, <1>3, <1>4
<1>6. ASSUME NEW i \in 1 .. Len(line)
      PROVE  RunOK(line[i])'
  <2>1. RunOK(line[i]) /\ line'[i] = line[i]
    BY <1>2, <1>5
  <2> QED BY <1>3, <2>1 DEF RunOK
<1>7. RunOK(line[Len(line)])'
  BY <1>3, <1>4, <1>5 DEF RunOK
<1>8. kind = "create" => \A i \in 1 .. Len(line) : line[i].kind # "create"
  <2>1. ASSUME kind = "create", NEW i \in 1 .. Len(line), line[i].kind = "create" PROVE FALSE
    <3>1. line[i].held /\ i \in DOMAIN line
      BY <1>2, <2>1 DEF RunOK
    <3> QED BY <2>1, <3>1 DEF Busy
  <2> QED BY <2>1
<1>9. LineOK'
  <2>1. ASSUME NEW i \in 1 .. Len(line')
        PROVE  RunOK(line[i])' /\ (i # 1 => line'[i].answer = "none")
    <3>1. CASE i \in 1 .. Len(line)
      BY <1>2, <1>5, <1>6, <3>1
    <3>2. CASE i = Len(line')
      BY <1>4, <1>5, <1>7, <3>2
    <3> QED BY <1>5, <3>1, <3>2
  <2>2. ASSUME NEW i \in 1 .. Len(line'), NEW j \in 1 .. Len(line'), line'[i].kind = "create", line'[j].kind = "create"
        PROVE  i = j
    BY <1>2, <1>4, <1>5, <1>8, <2>2
  <2> QED BY <1>5, <2>1, <2>2 DEF LineOK
<1>10. StudioTellsOneCall'
  BY <1>1, <1>3, LabFields DEF StudioTellsOneCall, LabInv
<1> QED BY <1>1, <1>3, <1>9, <1>10 DEF LabInv

LEMMA ClicksKeep ==
  ASSUME LabInv, NEW c \in KnownCalls, SelectCall(c) \/ DispatchClicked(c)
  PROVE  LabInv'
<1>1. /\ calls \in [KnownCalls -> LabRows] /\ lab \in Studio
      /\ \A x \in KnownCalls : lab.list[x].version <= calls[x].version
      /\ lab.row.version <= calls[lab.shown].version
  BY DEF LabInv
<1>2. Silence \in KnownCalls \cup {Silence} /\ lab.list \in [KnownCalls -> LabRows] /\ lab.row \in LabRows
  BY <1>1, LabFields
<1>3. CASE SelectCall(c)
  <2>1. lab' = [lab EXCEPT !.selected = c, !.audio = Silence] /\ Asks(LabRun("details", c, TRUE))
    BY <1>3 DEF SelectCall
  <2>2. /\ lab' \in Studio /\ lab'.shown = lab.shown /\ lab'.row = lab.row /\ lab'.list = lab.list
        /\ lab'.audio \in {lab.audio, Silence} /\ lab'.heard = lab.heard
    BY <1>1, <1>2, <2>1 DEF Studio
  <2> QED BY <2>1, <2>2, AskKeeps
<1>4. CASE DispatchClicked(c)
  <2>1. /\ lab' = [lab EXCEPT !.notice = "none"] /\ Asks(LabRun("dispatch", c, TRUE))
        /\ MayDispatchFrom(lab.list[c]) \/ (lab.shown = c /\ MayDispatchFrom(lab.row))
    BY <1>4 DEF DispatchClicked
  <2>2. /\ lab' \in Studio /\ lab'.shown = lab.shown /\ lab'.row = lab.row /\ lab'.list = lab.list
        /\ lab'.audio \in {lab.audio, Silence} /\ lab'.heard = lab.heard
    BY <1>1, <2>1 DEF Studio
  <2>3. ASSUME NEW r \in LabRows, MayDispatchFrom(r), r.version <= calls[c].version
        PROVE  calls[c] # NotThere
    <3>1. r # NotThere
      BY <2>3, RowsHaveVersions DEF MayDispatchFrom
    <3>2. calls[c] \in LabRows /\ r.version # 0 /\ r.version \in Nat
      BY <1>1, <3>1, RowsHaveVersions
    <3> QED BY <2>3, <3>2, RowsHaveVersions
  <2>4. calls[c] # NotThere
    <3>1. CASE MayDispatchFrom(lab.list[c])
      BY <1>1, <1>2, <2>3, <3>1
    <3>2. CASE lab.shown = c /\ MayDispatchFrom(lab.row)
      BY <1>1, <1>2, <2>3, <3>2
    <3> QED BY <2>1, <3>1, <3>2
  <2> QED BY <2>1, <2>2, <2>4, AskKeeps
<1> QED BY <1>3, <1>4

LEMMA PollsKeep ==
  ASSUME LabInv, PollFires \/ RefreshClicked \/ CreateSubmitted
  PROVE  LabInv'
<1>1. lab \in Studio
  BY DEF LabInv
<1>2. CASE PollFires \/ RefreshClicked
  <2>1. lab' = lab /\ Asks(LabRun("details", lab.selected, FALSE)) /\ lab.selected \in KnownCalls
    BY <1>1, <1>2, LabFields DEF PollFires, RefreshClicked
  <2> QED BY <1>1, <2>1, AskKeeps
<1>3. CASE CreateSubmitted
  <2>1. /\ lab' = [lab EXCEPT !.notice = "none"] /\ Asks(LabRun("create", TestCall, TRUE)) /\ ~Busy
        /\ calls[TestCall] = NotThere /\ TestCall \in KnownCalls
    BY <1>3 DEF CreateSubmitted, KnownCalls
  <2>2. /\ lab' \in Studio /\ lab'.shown = lab.shown /\ lab'.row = lab.row /\ lab'.list = lab.list
        /\ lab'.audio \in {lab.audio, Silence} /\ lab'.heard = lab.heard
    BY <1>1, <2>1 DEF Studio
  <2> QED BY <2>1, <2>2, AskKeeps
<1> QED BY <1>2, <1>3

(* Calls only get newer. *)
LEMMA NewerCallsKeep ==
  ASSUME LabInv, calls' \in [KnownCalls -> LabRows],
         \A c \in KnownCalls : calls[c].version <= calls'[c].version,
         lab' = lab, newest' = newest
  PROVE  /\ newest' \in [KnownCalls -> LabRows] /\ lab' \in Studio
         /\ \A c \in KnownCalls : newest'[c].version <= calls'[c].version /\ lab'.list[c].version <= calls'[c].version
         /\ lab'.row.version <= calls'[lab'.shown].version
         /\ \A c \in KnownCalls : calls[c] # NotThere => calls'[c] # NotThere
         /\ StudioTellsOneCall'
<1>1. /\ calls \in [KnownCalls -> LabRows] /\ newest \in [KnownCalls -> LabRows] /\ lab \in Studio
      /\ \A x \in KnownCalls : newest[x].version <= calls[x].version /\ lab.list[x].version <= calls[x].version
      /\ lab.row.version <= calls[lab.shown].version
  BY DEF LabInv
<1>2. lab.shown \in KnownCalls /\ lab.row \in LabRows /\ lab.list \in [KnownCalls -> LabRows]
  BY <1>1, LabFields
<1>3. ASSUME NEW c \in KnownCalls
      PROVE  /\ newest[c].version <= calls'[c].version /\ lab.list[c].version <= calls'[c].version
             /\ calls[c] # NotThere => calls'[c] # NotThere
             /\ \A r \in LabRows : r.version <= calls[c].version => r.version <= calls'[c].version
  <2>1. newest[c] \in LabRows /\ lab.list[c] \in LabRows /\ calls[c] \in LabRows /\ calls'[c] \in LabRows
    BY <1>1, <1>2
  <2>2. /\ newest[c].version \in Nat /\ lab.list[c].version \in Nat /\ calls[c].version \in Nat
        /\ calls'[c].version \in Nat /\ \A r \in LabRows : r.version \in Nat
    BY <2>1, RowsHaveVersions
  <2>3. calls[c] # NotThere => calls'[c] # NotThere
    BY <2>1, <2>2, RowsHaveVersions
  <2> QED BY <1>1, <2>2, <2>3
<1>4. StudioTellsOneCall'
  BY DEF StudioTellsOneCall, LabInv
<1> QED BY <1>1, <1>2, <1>3, <1>4

LEMMA CallsMoveOn ==
  ASSUME LabInv, NEW c \in KnownCalls, CallGoesOn(c)
  PROVE  LabInv'
<1>1. calls \in [KnownCalls -> LabRows]
  BY DEF LabInv
<1>2. PICK s \in NextStages(calls[c].stage) : calls' = [calls EXCEPT ![c] = MovedTo(calls[c], s)]
  BY DEF CallGoesOn
<1>3. lab' = lab /\ line' = line /\ newest' = newest
  BY DEF CallGoesOn
<1>4. calls[c].stage # "none" /\ s \in CallStages
  BY <1>2 DEF NextStages, CallStages
<1>5. MovedTo(calls[c], s) \in LabRows /\ MovedTo(calls[c], s).version = calls[c].version + 1 /\ calls[c].version \in Nat
  BY <1>1, <1>4, RowsHaveVersions DEF MovedTo, LabRows
<1>6. calls' \in [KnownCalls -> LabRows] /\ \A x \in KnownCalls : calls[x].version <= calls'[x].version
  <2>1. \A x \in KnownCalls : calls[x].version \in Nat
    BY <1>1, RowsHaveVersions
  <2> QED BY <1>1, <1>2, <1>5, <2>1
<1>7. calls[TestCall] = NotThere => calls'[TestCall] = NotThere
  <2>1. calls[c] # NotThere /\ TestCall \in KnownCalls
    BY <1>1, <1>4 DEF NotThere, KnownCalls
  <2> QED BY <1>1, <1>2, <2>1
<1>8. ASSUME NEW i \in 1 .. Len(line)
      PROVE  RunOK(line[i])'
  <2>1. RunOK(line[i]) /\ line \in Seq(LabRuns)
    BY DEF LabInv, LineOK
  <2>2. line[i] \in LabRuns
    BY <2>1
  <2>3. line[i].call \in KnownCalls /\ line[i].row \in LabRows
    BY <2>2 DEF LabRuns
  <2>4. line[i].row.version \in Nat /\ calls[line[i].call].version \in Nat /\ calls'[line[i].call].version \in Nat
    BY <1>1, <1>6, <2>3, RowsHaveVersions
  <2>5. calls[line[i].call] # NotThere => calls'[line[i].call] # NotThere
    BY <1>3, <1>6, <2>3, NewerCallsKeep
  <2> QED BY <1>3, <1>6, <1>7, <2>1, <2>3, <2>4, <2>5 DEF RunOK
<1>9. LineOK'
  BY <1>3, <1>8 DEF LabInv, LineOK
<1> QED BY <1>3, <1>6, <1>9, NewerCallsKeep DEF LabInv

(* The first action gets its answer; what it did to the calls makes none of them older. *)
LEMMA SaysKeeps ==
  ASSUME LabInv, line # <<>>, NEW a \in {"ok", "failed"}, NEW r \in LabRows, Says(a, r),
         lab' = lab, newest' = newest,
         calls' \in [KnownCalls -> LabRows], \A c \in KnownCalls : calls[c].version <= calls'[c].version,
         line[1].kind # "create" /\ calls[TestCall] = NotThere => calls'[TestCall] = NotThere,
         line[1].kind = "details" /\ a = "ok" => r = calls[line[1].call] /\ calls' = calls
  PROVE  LabInv'
<1>1. /\ line \in Seq(LabRuns) /\ calls \in [KnownCalls -> LabRows]
      /\ \A i \in 1 .. Len(line) : RunOK(line[i]) /\ (i # 1 => line[i].answer = "none")
      /\ \A i, j \in 1 .. Len(line) : line[i].kind = "create" /\ line[j].kind = "create" => i = j
      /\ \A x \in KnownCalls : newest[x].version <= calls[x].version /\ lab.list[x].version <= calls[x].version
  BY DEF LabInv, LineOK
<1>2. 1 \in 1 .. Len(line) /\ line[1] \in LabRuns /\ Len(line) \in Nat
  BY <1>1
<1>3. PICK run : run = [line[1] EXCEPT !.answer = a, !.row = r]
  OBVIOUS
<1>4. run \in LabRuns /\ run.kind = line[1].kind /\ run.call = line[1].call /\ run.held = line[1].held
      /\ run.answer = a /\ run.row = r /\ run.call \in KnownCalls
  BY <1>2, <1>3 DEF LabRuns
<1>5. line' = [line EXCEPT ![1] = run]
  BY <1>3 DEF Says
<1>6. /\ line' \in Seq(LabRuns) /\ Len(line') = Len(line) /\ line'[1] = run
      /\ \A i \in 1 .. Len(line) : i # 1 => line'[i] = line[i]
  BY <1>1, <1>2, <1>4, <1>5
<1>7. \A c \in KnownCalls : calls[c] # NotThere => calls'[c] # NotThere
  BY NewerCallsKeep
<1>8. ASSUME NEW i \in 1 .. Len(line), i # 1
      PROVE  RunOK(line[i])'
  <2>1. RunOK(line[i]) /\ line'[i] = line[i] /\ line[i] \in LabRuns /\ line[i].answer = "none"
    BY <1>1, <1>6, <1>8
  <2>2. line[i].call \in KnownCalls
    BY <2>1 DEF LabRuns
  <2>3. line[i].kind = "create" => line[1].kind # "create"
    BY <1>1, <1>2, <1>8
  <2> QED BY <1>7, <2>1, <2>2, <2>3 DEF RunOK
<1>9. RunOK(line[1])'
  <2>1. RunOK(line[1])
    BY <1>1, <1>2
  <2>2. CASE run.kind = "details" /\ a = "ok"
    <3>1. /\ newest[run.call].version <= r.version /\ lab.list[run.call].version <= r.version
          /\ r.version <= calls'[run.call].version
      <4>1. r = calls[run.call] /\ r.version \in Nat
        BY <1>4, <2>2, RowsHaveVersions
      <4> QED BY <1>1, <1>4, <2>2, <4>1
    <3> QED BY <1>4, <1>6, <2>2, <3>1 DEF RunOK
  <2>3. CASE ~(run.kind = "details" /\ a = "ok")
    BY <1>4, <1>6, <1>7, <2>1, <2>3 DEF RunOK
  <2> QED BY <2>2, <2>3
<1>10. LineOK'
  <2>1. ASSUME NEW i \in 1 .. Len(line')
        PROVE  RunOK(line[i])' /\ (i # 1 => line'[i].answer = "none")
    BY <1>1, <1>6, <1>8, <1>9
  <2>2. ASSUME NEW i \in 1 .. Len(line'), NEW j \in 1 .. Len(line'), line'[i].kind = "create", line'[j].kind = "create"
        PROVE  i = j
    <3>1. line[i].kind = "create" /\ line[j].kind = "create"
      BY <1>4, <1>6, <2>2
    <3> QED BY <1>1, <1>6, <3>1
  <2> QED BY <1>6, <2>1, <2>2 DEF LineOK
<1> QED BY <1>10, NewerCallsKeep DEF LabInv

LEMMA HeadOfLine ==
  ASSUME LabInv, line # <<>>
  PROVE  Head(line) = line[1] /\ line[1] \in LabRuns /\ line[1].call \in KnownCalls /\ line[1].row \in LabRows
         /\ RunOK(line[1]) /\ 1 \in 1 .. Len(line) /\ calls \in [KnownCalls -> LabRows]
<1>1. line \in Seq(LabRuns) /\ calls \in [KnownCalls -> LabRows]
  BY DEF LabInv, LineOK
<1>2. Head(line) = line[1] /\ line[1] \in LabRuns /\ 1 \in 1 .. Len(line)
  BY <1>1
<1>3. RunOK(line[1])
  BY <1>2 DEF LabInv, LineOK
<1> QED BY <1>1, <1>2, <1>3 DEF LabRuns

LEMMA AnswersKeep ==
  ASSUME LabInv, DetailsRead \/ DispatchDone \/ CreateDone \/ CreateTooLate \/ RunFails
  PROVE  LabInv'
<1>1. line # <<>> /\ lab' = lab /\ newest' = newest
  BY DEF DetailsRead, DispatchDone, CreateDone, CreateTooLate, RunFails, AtHead
<1>2. /\ Head(line) = line[1] /\ line[1].call \in KnownCalls /\ line[1].row \in LabRows
      /\ RunOK(line[1]) /\ calls \in [KnownCalls -> LabRows]
  BY <1>1, HeadOfLine
<1>3. /\ NotThere \in LabRows /\ NotThere.version = 0 /\ TestCall \in KnownCalls
      /\ \A x \in KnownCalls : calls[x].version \in Nat /\ (calls[x] = NotThere <=> calls[x].version = 0)
  BY <1>2, RowsHaveVersions DEF KnownCalls, LabRows
<1>4. CASE RunFails
  BY <1>1, <1>2, <1>3, <1>4, SaysKeeps DEF RunFails
<1>5. CASE DetailsRead
  <2>1. calls[line[1].call] \in LabRows
    BY <1>2
  <2>2. PICK a \in {"ok", "failed"} : Says(a, calls[line[1].call])
    BY <1>2, <1>5 DEF DetailsRead
  <2>3. calls' = calls
    BY <1>5 DEF DetailsRead
  <2> QED BY <1>1, <1>2, <1>3, <2>1, <2>2, <2>3, SaysKeeps
<1>6. CASE DispatchDone
  <2>1. /\ line[1].kind = "dispatch" /\ line[1].answer = "none" /\ Says("ok", NotThere)
    BY <1>2, <1>6 DEF DispatchDone, AtHead
  <2>2. calls[line[1].call] # NotThere
    BY <1>2, <2>1 DEF RunOK
  <2>3. PICK r \in DispatchedFrom(calls[line[1].call]) : calls' = [calls EXCEPT ![line[1].call] = r]
    BY <1>2, <1>6 DEF DispatchDone
  <2>4. r \in LabRows /\ calls[line[1].call].version <= r.version
    <3>1. calls[line[1].call] \in LabRows
      BY <1>2
    <3>2. MovedTo(calls[line[1].call], "dispatched") \in LabRows /\ MovedTo(calls[line[1].call], "over") \in LabRows
      BY <1>2, <1>3 DEF MovedTo, LabRows, CallStages
    <3>3. /\ MovedTo(calls[line[1].call], "dispatched").version = calls[line[1].call].version + 1
          /\ MovedTo(calls[line[1].call], "over").version = calls[line[1].call].version + 1
      BY DEF MovedTo
    <3>4. r \in {calls[line[1].call], MovedTo(calls[line[1].call], "dispatched"), MovedTo(calls[line[1].call], "over")}
      BY <2>3 DEF DispatchedFrom
    <3> QED BY <1>2, <1>3, <3>1, <3>2, <3>3, <3>4
  <2>5. calls' \in [KnownCalls -> LabRows] /\ \A c \in KnownCalls : calls[c].version <= calls'[c].version
    BY <1>2, <1>3, <2>3, <2>4
  <2>6. calls[TestCall] = NotThere => calls'[TestCall] = NotThere
    BY <1>2, <1>3, <2>2, <2>3
  <2> QED BY <1>1, <1>3, <2>1, <2>5, <2>6, SaysKeeps
<1>7. CASE CreateDone \/ CreateTooLate
  <2>1. line[1].kind = "create" /\ line[1].answer = "none"
    BY <1>2, <1>7 DEF CreateDone, CreateTooLate, AtHead
  <2>2. PICK a \in {"ok", "failed"} : Says(a, NotThere)
    BY <1>7 DEF CreateDone, CreateTooLate
  <2>3. PICK s \in {"queued", "dispatched", "over"} : calls' = [calls EXCEPT ![TestCall] = [stage |-> s, version |-> 1]]
    BY <1>7 DEF CreateDone, CreateTooLate
  <2>4. [stage |-> s, version |-> 1] \in LabRows
    BY DEF LabRows, CallStages
  <2>5. calls[TestCall].version = 0
    BY <1>2, <1>3, <2>1 DEF RunOK
  <2>6. calls' \in [KnownCalls -> LabRows] /\ \A c \in KnownCalls : calls[c].version <= calls'[c].version
    BY <1>2, <1>3, <2>3, <2>4, <2>5
  <2> QED BY <1>1, <1>3, <2>1, <2>2, <2>6, SaysKeeps
<1> QED BY <1>4, <1>5, <1>6, <1>7

(* The first action ends; at most one that reads details follows it. *)
LEMMA ShorterLine ==
  ASSUME LabInv, line # <<>>, calls' = calls, line' = Tail(line)
  PROVE  LineOK'
<1>1. /\ line \in Seq(LabRuns)
      /\ \A i \in 1 .. Len(line) : RunOK(line[i]) /\ (i # 1 => line[i].answer = "none")
      /\ \A i, j \in 1 .. Len(line) : line[i].kind = "create" /\ line[j].kind = "create" => i = j
  BY DEF LabInv, LineOK
<1>2. /\ line' \in Seq(LabRuns) /\ Len(line') = Len(line) - 1 /\ Len(line) \in Nat
      /\ \A i \in 1 .. Len(line) - 1 : line'[i] = line[i + 1]
  BY <1>1
<1>3. ASSUME NEW i \in 1 .. Len(line')
      PROVE  RunOK(line[i])' /\ line'[i].answer = "none"
  <2>1. i + 1 \in 1 .. Len(line) /\ i + 1 # 1 /\ line'[i] = line[i + 1]
    BY <1>2
  <2>2. RunOK(line[i + 1]) /\ line[i + 1].answer = "none"
    BY <1>1, <2>1
  <2> QED BY <2>1, <2>2 DEF RunOK
<1>4. ASSUME NEW i \in 1 .. Len(line'), NEW j \in 1 .. Len(line'), line'[i].kind = "create", line'[j].kind = "create"
      PROVE  i = j
  <2>1. /\ i + 1 \in 1 .. Len(line) /\ j + 1 \in 1 .. Len(line) /\ line[i + 1].kind = "create"
        /\ line[j + 1].kind = "create"
    BY <1>2, <1>4
  <2>2. i + 1 = j + 1
    BY <1>1, <2>1
  <2> QED BY <2>2
<1> QED BY <1>2, <1>3, <1>4 DEF LineOK

LEMMA DetailsLast ==
  ASSUME LabInv, line # <<>>, calls' = calls, NEW c \in KnownCalls,
         line' = Append(Tail(line), LabRun("details", c, TRUE))
  PROVE  LineOK'
<1> DEFINE run == LabRun("details", c, TRUE)
<1>1. /\ line \in Seq(LabRuns)
      /\ \A i \in 1 .. Len(line) : RunOK(line[i]) /\ (i # 1 => line[i].answer = "none")
      /\ \A i, j \in 1 .. Len(line) : line[i].kind = "create" /\ line[j].kind = "create" => i = j
  BY DEF LabInv, LineOK
<1>2. run \in LabRuns /\ run.kind = "details" /\ run.answer = "none"
  BY RowsHaveVersions DEF LabRun, LabRuns, LabRows
<1> HIDE DEF run
<1>3. /\ Tail(line) \in Seq(LabRuns) /\ Len(Tail(line)) = Len(line) - 1 /\ Len(line) \in Nat \ {0}
      /\ \A i \in 1 .. Len(line) - 1 : Tail(line)[i] = line[i + 1]
  BY <1>1
<1>4. line' = Append(Tail(line), run)
  BY DEF run
<1>5. /\ line' \in Seq(LabRuns) /\ Len(line') = Len(line) /\ line'[Len(line)] = run
      /\ \A i \in 1 .. Len(line) - 1 : line'[i] = line[i + 1]
  <2>1. PICK rest : rest = Tail(line)
    OBVIOUS
  <2>2. /\ rest \in Seq(LabRuns) /\ Len(rest) = Len(line) - 1 /\ line' = Append(rest, run)
        /\ \A i \in 1 .. Len(line) - 1 : rest[i] = line[i + 1]
    BY <1>3, <1>4, <2>1
  <2>3. /\ line' \in Seq(LabRuns) /\ Len(line') = Len(rest) + 1 /\ line'[Len(rest) + 1] = run
        /\ \A i \in 1 .. Len(rest) : line'[i] = rest[i]
    <3>1. PICK elt \in LabRuns : elt = run
      BY <1>2
    <3>2. PICK longer : longer = line'
      OBVIOUS
    <3>3. rest \in Seq(LabRuns) /\ longer = Append(rest, elt)
      BY <2>2, <3>1, <3>2
    <3>4. longer \in Seq(LabRuns)
      BY <3>3
    <3>5. Len(longer) = Len(rest) + 1
      BY <3>3
    <3>6. longer[Len(rest) + 1] = elt
      BY <3>3
    <3>7. \A i \in 1 .. Len(rest) : longer[i] = rest[i]
      BY <3>3
    <3> QED BY <3>1, <3>2, <3>4, <3>5, <3>6, <3>7
  <2>4. Len(line) = Len(rest) + 1 /\ Len(line) - 1 = Len(rest)
    BY <1>3, <2>2
  <2> QED BY <2>2, <2>3, <2>4
<1>6. ASSUME NEW i \in 1 .. Len(line')
      PROVE  RunOK(line[i])' /\ line'[i].answer = "none"
  <2>1. CASE i \in 1 .. Len(line) - 1
    <3>1. i + 1 \in 1 .. Len(line) /\ i + 1 # 1 /\ line'[i] = line[i + 1]
      BY <1>3, <1>5, <2>1
    <3>2. RunOK(line[i + 1]) /\ line[i + 1].answer = "none"
      BY <1>1, <3>1
    <3> QED BY <3>1, <3>2 DEF RunOK
  <2>2. CASE i = Len(line)
    BY <1>2, <1>5, <2>2 DEF RunOK
  <2>3. i \in 1 .. Len(line) - 1 \/ i = Len(line)
    <3>1. i \in Nat /\ i >= 1 /\ i <= Len(line) /\ Len(line) \in Nat
      BY <1>3, <1>5
    <3> QED BY <3>1
  <2> QED BY <2>1, <2>2, <2>3
<1>7. ASSUME NEW i \in 1 .. Len(line'), NEW j \in 1 .. Len(line'), line'[i].kind = "create", line'[j].kind = "create"
      PROVE  i = j
  <2>1. i \in 1 .. Len(line) - 1 /\ j \in 1 .. Len(line) - 1
    <3>1. i \in 1 .. Len(line) /\ j \in 1 .. Len(line) /\ Len(line) \in Nat
      BY <1>3, <1>5
    <3>2. i # Len(line) /\ j # Len(line)
      BY <1>2, <1>5, <1>7
    <3> QED BY <3>1, <3>2
  <2>2. /\ i + 1 \in 1 .. Len(line) /\ j + 1 \in 1 .. Len(line) /\ line[i + 1].kind = "create"
        /\ line[j + 1].kind = "create"
    BY <1>3, <1>5, <1>7, <2>1
  <2>3. i + 1 = j + 1
    BY <1>1, <2>2
  <2> QED BY <2>1, <2>3
<1> QED BY <1>5, <1>6, <1>7 DEF LineOK

LEMMA ShownKeeps ==
  ASSUME LabInv, DetailsShown
  PROVE  LabInv'
<1>1. line # <<>> /\ calls' = calls /\ line' = Tail(line) /\ Head(line).kind = "details"
  BY DEF DetailsShown
<1>2. LineOK'
  BY <1>1, ShorterLine
<1>3. /\ Head(line) = line[1] /\ line[1].call \in KnownCalls /\ line[1].row \in LabRows
      /\ RunOK(line[1]) /\ calls \in [KnownCalls -> LabRows]
  BY <1>1, HeadOfLine
<1>4. /\ newest \in [KnownCalls -> LabRows] /\ lab \in Studio
      /\ \A x \in KnownCalls : newest[x].version <= calls[x].version /\ lab.list[x].version <= calls[x].version
      /\ lab.row.version <= calls[lab.shown].version
  BY DEF LabInv
<1>5. CASE line[1].answer # "ok"
  <2>1. lab' = lab /\ newest' = newest
    BY <1>3, <1>5 DEF DetailsShown
  <2> QED BY <1>1, <1>2, <1>3, <1>4, <2>1 DEF LabInv, StudioTellsOneCall
<1>6. CASE line[1].answer = "ok"
  <2>1. PICK c \in KnownCalls, r \in LabRows : c = line[1].call /\ r = line[1].row
    BY <1>3
  <2>2. /\ lab' = ShownFrom(lab, c, r) /\ newest' = [newest EXCEPT ![c] = r]
    BY <1>3, <1>6, <2>1 DEF DetailsShown
  <2>3. newest[c].version <= r.version /\ lab.list[c].version <= r.version /\ r.version <= calls[c].version
    BY <1>1, <1>3, <1>6, <2>1 DEF RunOK
  <2>4. PICK l : l = [lab.list EXCEPT ![c] = IF lab.list[c] = NotThere THEN NotThere ELSE r]
    OBVIOUS
  <2>5. /\ lab.list \in [KnownCalls -> LabRows] /\ NotThere \in LabRows /\ NotThere.version = 0
        /\ r.version \in Nat
    BY <1>4, LabFields, RowsHaveVersions
  <2>6. l \in [KnownCalls -> LabRows] /\ l[c].version <= r.version /\ \A x \in KnownCalls : x # c => l[x] = lab.list[x]
    BY <2>4, <2>5
  <2>7. lab' = [lab EXCEPT !.shown = c, !.row = r, !.list = l, !.heard = FALSE]
    BY <1>4, <2>2, <2>4 DEF ShownFrom, Studio
  <2>8. /\ lab' \in Studio /\ lab'.shown = c /\ lab'.row = r /\ lab'.list = l
        /\ lab'.heard = FALSE
    BY <1>4, <2>6, <2>7 DEF Studio
  <2>9. newest' \in [KnownCalls -> LabRows] /\ newest'[c] = r /\ \A x \in KnownCalls : x # c => newest'[x] = newest[x]
    BY <1>4, <2>2
  <2>10. \A x \in KnownCalls : newest'[x].version <= calls[x].version /\ lab'.list[x].version <= calls[x].version
    <3>1. l[c].version <= calls[c].version
      <4>1. l[c] \in LabRows /\ calls[c] \in LabRows
        BY <1>3, <2>6
      <4>2. l[c].version \in Nat /\ calls[c].version \in Nat
        BY <4>1, RowsHaveVersions
      <4> QED BY <2>3, <2>5, <2>6, <4>2
    <3> QED BY <1>4, <2>3, <2>6, <2>8, <2>9, <3>1
  <2>11. StudioTellsOneCall'
    BY <2>3, <2>5, <2>6, <2>8, <2>9 DEF StudioTellsOneCall
  <2> QED BY <1>1, <1>2, <1>3, <2>3, <2>8, <2>9, <2>10, <2>11 DEF LabInv
<1> QED BY <1>5, <1>6

LEMMA NoticeKeeps ==
  ASSUME LabInv, NoticeShown
  PROVE  LabInv'
<1>1. line # <<>> /\ calls' = calls /\ newest' = newest
  BY DEF NoticeShown
<1>2. Head(line) = line[1] /\ line[1].call \in KnownCalls /\ lab \in Studio
  BY <1>1, HeadOfLine DEF LabInv
<1>3. LineOK'
  <2>1. CASE line' = Tail(line)
    BY <1>1, <2>1, ShorterLine
  <2>2. CASE line' = Append(Tail(line), LabRun("details", line[1].call, TRUE))
    BY <1>1, <1>2, <2>2, DetailsLast
  <2> QED BY <1>2, <2>1, <2>2 DEF NoticeShown
<1>4. PICK sel \in KnownCalls, note \in {"success", "error"} : lab' = [lab EXCEPT !.notice = note, !.selected = sel]
  <2>1. CASE line[1].answer = "ok"
    <3>1. PICK sel \in KnownCalls : sel = IF line[1].kind = "create" THEN line[1].call ELSE lab.selected
      BY <1>2, LabFields
    <3>2. lab' = [lab EXCEPT !.notice = "success", !.selected = sel]
      BY <1>2, <2>1, <3>1 DEF NoticeShown
    <3> QED BY <3>2
  <2>2. CASE line[1].answer # "ok"
    <3>1. lab' = [lab EXCEPT !.notice = "error"]
      BY <1>2, <2>2 DEF NoticeShown
    <3>2. lab' = [lab EXCEPT !.notice = "error", !.selected = lab.selected] /\ lab.selected \in KnownCalls
      BY <1>2, <3>1, LabFields DEF Studio
    <3> QED BY <3>2
  <2> QED BY <2>1, <2>2
<1>5. /\ lab' \in Studio /\ lab'.shown = lab.shown /\ lab'.row = lab.row /\ lab'.list = lab.list
      /\ lab'.audio = lab.audio /\ lab'.heard = lab.heard
  BY <1>2, <1>4 DEF Studio
<1> QED BY <1>1, <1>3, <1>5 DEF LabInv, StudioTellsOneCall

LEMMA LabKept == LabInv /\ [LabNext]_labVars => LabInv'
<1> SUFFICES ASSUME LabInv, [LabNext]_labVars PROVE LabInv'
  OBVIOUS
<1>1. CASE UNCHANGED labVars
  BY <1>1 DEF labVars, LabInv, LineOK, RunOK, StudioTellsOneCall
<1>2. CASE TogglePolling
  <2>1. lab' = [lab EXCEPT !.polling = ~lab.polling] /\ UNCHANGED <<calls, line, runs, newest>>
    BY <1>2 DEF TogglePolling
  <2>2. lab \in Studio
    BY DEF LabInv
  <2>3. /\ lab' \in Studio /\ lab'.shown = lab.shown /\ lab'.row = lab.row /\ lab'.list = lab.list
        /\ lab'.audio = lab.audio /\ lab'.heard = lab.heard
    BY <2>1, <2>2 DEF Studio
  <2> QED BY <2>1, <2>3 DEF LabInv, LineOK, RunOK, StudioTellsOneCall
<1>3. CASE AudioFollows
  <2>1. lab \in Studio /\ lab.shown \in KnownCalls
    BY LabFields DEF LabInv
  <2>2. PICK a \in KnownCalls \cup {Silence} : a = IF HasAudio(lab.row) THEN lab.shown ELSE Silence
    BY <2>1
  <2>3. lab' = [lab EXCEPT !.heard = TRUE, !.audio = a] /\ UNCHANGED <<calls, line, runs, newest>>
    BY <1>3, <2>2 DEF AudioFollows
  <2>4. /\ lab' \in Studio /\ lab'.shown = lab.shown /\ lab'.row = lab.row /\ lab'.list = lab.list
        /\ lab'.audio = a
    BY <2>1, <2>2, <2>3 DEF Studio
  <2>5. StudioTellsOneCall'
    BY <2>2, <2>3, <2>4 DEF LabInv, StudioTellsOneCall
  <2> QED BY <2>3, <2>4, <2>5 DEF LabInv, LineOK, RunOK
<1> QED BY <1>1, <1>2, <1>3, ClicksKeep, PollsKeep, CallsMoveOn, AnswersKeep, ShownKeeps, NoticeKeeps DEF LabNext

---------------------------------------------------------------------------
(* The forms of the order pages *)

(* The forms that make orders have one field left to the browser. *)
Once == form.kind \in {"new", "import"}
Key == IF form.kind = "new" THEN "customer" ELSE "file"

DeskShape ==
  /\ form.kind \in Forms
  /\ form = [kind |-> form.kind, open |-> form.open, fields |-> form.fields, named |-> form.named,
             items |-> form.items, note |-> form.note]
  /\ ask = [stage |-> ask.stage, fields |-> ask.fields, mounted |-> ask.mounted, alone |-> ask.alone]
  /\ row = [fields |-> row.fields, call |-> row.call]
  /\ made \in [Versions -> Nat] /\ typed \in Versions

OneField ==
  Once =>
    /\ form.fields \in [{Key} -> Versions] /\ ask.fields \in [{Key} -> Versions]
    /\ form.fields[Key] <= typed /\ ask.fields[Key] <= typed
    /\ facts.fields[Key] = 0 /\ row.fields[Key] = 0

(* What became an order is in the form only until its answer resets the form. *)
SentOnce ==
  /\ \A v \in Versions : made[v] <= 1 /\ (made[v] # 0 => v # 0 /\ v <= typed /\ Once)
  /\ Once =>
       /\ ask.stage = "sent" => made[ask.fields[Key]] = 0 /\ (form.kind = "new" => ask.fields[Key] # 0)
       /\ made[form.fields[Key]] # 0 =>
            ask.stage \in {"saved", "refused"} /\ ask.mounted /\ form.fields[Key] = ask.fields[Key]
       /\ ask.stage # "none" /\ form.fields[Key] # 0 /\ form.fields[Key] = ask.fields[Key] => ask.mounted

SavedEdit ==
  form.kind = "edit" /\ ask.alone =>
    /\ ask.stage = "saved" => row.fields = ask.fields
    /\ ask.stage = "none" /\ form.note = "done" => row.fields = ask.fields /\ facts.fields = row.fields

DeskInv == DeskShape /\ OneField /\ SentOnce /\ SavedEdit

LEMMA DeskVersions ==
  0 \in Versions /\ Versions \subseteq Nat /\ (typed \in Versions /\ typed < MaxTyped => typed + 1 \in Versions)
BY DeskAssumption DEF Versions

LEMMA OneFieldEach == Once => FormFields(form.kind) = {Key}
BY DEF Once, Key, FormFields

LEMMA DeskKeepsWord == DeskInv => DeskSendsOnce
<1> SUFFICES ASSUME DeskInv PROVE DeskSendsOnce
  OBVIOUS
<1>1. \A v \in Versions : made[v] <= 1
  BY DEF DeskInv, SentOnce
<1> QED BY <1>1 DEF DeskInv, SavedEdit, DeskSendsOnce

LEMMA DeskStart == DeskInit => DeskInv
<1> SUFFICES ASSUME DeskInit PROVE DeskInv
  OBVIOUS
<1>1. PICK k \in Forms :
    /\ row = [fields |-> Untouched(k), call |-> IF k = "retry" THEN "ended" ELSE "none"]
    /\ facts = Rendered(row)
    /\ form = [kind |-> k, open |-> k \in {"call", "retry"}, fields |-> Untouched(k), named |-> FALSE,
               items |-> NoItems, note |-> "none"]
    /\ ask = [stage |-> "none", fields |-> Untouched(k), mounted |-> TRUE, alone |-> TRUE]
    /\ made = [v \in Versions |-> 0] /\ typed = 0 /\ sends = 0
  BY DEF DeskInit
<1>2. PICK u : u = Untouched(k)
  OBVIOUS
<1>3. /\ form.kind = k /\ form.fields = u /\ form.note = "none" /\ ask.stage = "none" /\ ask.fields = u
      /\ row.fields = u /\ facts.fields = u
  BY <1>1, <1>2 DEF Rendered
<1>4. Once => u = [f \in {Key} |-> 0]
  <2>1. FormFields(k) = FormFields(form.kind)
    BY <1>3
  <2> QED BY <1>2, <2>1, OneFieldEach DEF Untouched
<1>5. DeskShape
  <2>1. made \in [Versions -> Nat] /\ typed \in Versions
    BY <1>1, DeskVersions
  <2>2. row = [fields |-> row.fields, call |-> row.call]
    BY <1>1
  <2>3. ask = [stage |-> ask.stage, fields |-> ask.fields, mounted |-> ask.mounted, alone |-> ask.alone]
    BY <1>1
  <2>4. form = [kind |-> form.kind, open |-> form.open, fields |-> form.fields, named |-> form.named,
                items |-> form.items, note |-> form.note]
    BY <1>1
  <2> QED BY <1>1, <1>3, <2>1, <2>2, <2>3, <2>4 DEF DeskShape
<1>6. OneField
  BY <1>1, <1>3, <1>4, DeskVersions DEF OneField
<1>7. SentOnce
  <2>1. \A v \in Versions : made[v] = 0
    BY <1>1
  <2>2. Once => form.fields[Key] \in Versions
    BY <1>3, <1>4, DeskVersions
  <2> QED BY <1>3, <2>1, <2>2 DEF SentOnce
<1>8. SavedEdit
  BY <1>3 DEF SavedEdit
<1> QED BY <1>5, <1>6, <1>7, <1>8 DEF DeskInv

(* A step that sends and stores nothing keeps what the form has, or leaves it empty. *)
LEMMA EmptiedKeeps ==
  ASSUME DeskInv, DeskShape', form'.kind = form.kind, form'.note = form.note, ask'.stage = ask.stage,
         ask'.fields = ask.fields, ask'.alone = ask.alone, row'.fields = row.fields,
         facts'.fields \in {facts.fields, row.fields}, made' = made, typed' = typed,
         Once => /\ form'.fields \in [{Key} -> Versions]
                 /\ \/ form'.fields[Key] = 0
                    \/ form'.fields[Key] = form.fields[Key] /\ ask'.mounted = ask.mounted
  PROVE  DeskInv'
<1>1. DeskShape /\ OneField /\ SentOnce /\ SavedEdit
  BY DEF DeskInv
<1>2. Once' = Once /\ Key' = Key /\ Versions \subseteq Nat /\ 0 \in Versions /\ typed \in Versions
  BY <1>1, DeskVersions DEF Once, Key, DeskShape
<1>3. OneField'
  <2>1. Once =>
          /\ ask.fields \in [{Key} -> Versions] /\ form.fields[Key] <= typed /\ ask.fields[Key] <= typed
          /\ facts.fields[Key] = 0 /\ row.fields[Key] = 0
    BY <1>1 DEF OneField
  <2>2. typed \in Nat /\ 0 <= typed
    <3>1. typed \in Nat
      BY <1>2
    <3> QED BY <3>1
  <2>3. Once => form'.fields[Key] <= typed
    BY <2>1, <2>2
  <2>4. Once => facts'.fields[Key] = 0
    BY <2>1
  <2> QED BY <1>2, <2>1, <2>3, <2>4 DEF OneField
<1>4. SentOnce'
  <2>1. \A v \in Versions : made'[v] <= 1 /\ (made'[v] # 0 => v # 0 /\ v <= typed' /\ Once')
    BY <1>1, <1>2 DEF SentOnce
  <2>2. ASSUME Once
        PROVE  /\ ask'.stage = "sent" => made'[ask'.fields[Key]] = 0 /\ (form'.kind = "new" => ask'.fields[Key] # 0)
               /\ made'[form'.fields[Key]] # 0 =>
                    ask'.stage \in {"saved", "refused"} /\ ask'.mounted /\ form'.fields[Key] = ask'.fields[Key]
               /\ ask'.stage # "none" /\ form'.fields[Key] # 0 /\ form'.fields[Key] = ask'.fields[Key]
                  => ask'.mounted
    <3>1. made[0] = 0
      BY <1>1, <1>2 DEF SentOnce
    <3>2. /\ ask.stage = "sent" => made[ask.fields[Key]] = 0 /\ (form.kind = "new" => ask.fields[Key] # 0)
          /\ made[form.fields[Key]] # 0 =>
               ask.stage \in {"saved", "refused"} /\ ask.mounted /\ form.fields[Key] = ask.fields[Key]
          /\ ask.stage # "none" /\ form.fields[Key] # 0 /\ form.fields[Key] = ask.fields[Key] => ask.mounted
      BY <1>1, <2>2 DEF SentOnce
    <3>3. CASE form'.fields[Key] = 0
      BY <3>1, <3>2, <3>3
    <3>4. CASE form'.fields[Key] = form.fields[Key] /\ ask'.mounted = ask.mounted
      BY <3>2, <3>4
    <3> QED BY <2>2, <3>3, <3>4
  <2> QED BY <1>2, <2>1, <2>2 DEF SentOnce
<1>5. SavedEdit'
  BY <1>1 DEF SavedEdit
<1> QED BY <1>3, <1>4, <1>5 DEF DeskInv

LEMMA OpeningKeeps ==
  ASSUME DeskInv, OpenForm
  PROVE  DeskInv'
<1>1. DeskShape /\ OneField
  BY DEF DeskInv
<1>2. PICK d : d = Defaults
  OBVIOUS
<1>3. /\ form' = [kind |-> form.kind, open |-> TRUE, fields |-> d, named |-> FALSE, items |-> NoItems,
                  note |-> form.note]
      /\ UNCHANGED <<ask, facts, row, made, typed, sends>>
  BY <1>1, <1>2 DEF OpenForm, DeskShape
<1>4. form'.kind = form.kind /\ form'.fields = d /\ form'.note = form.note /\ DeskShape'
  BY <1>1, <1>3 DEF DeskShape
<1>5. Once => d = [f \in {Key} |-> 0]
  BY <1>2, OneFieldEach DEF Defaults, Once, Untouched
<1>6. Once => form'.fields \in [{Key} -> Versions] /\ form'.fields[Key] = 0
  BY <1>4, <1>5, DeskVersions
<1> QED BY <1>3, <1>4, <1>6, EmptiedKeeps

LEMMA ClosingKeeps ==
  ASSUME DeskInv, CloseForm
  PROVE  DeskInv'
<1>1. DeskShape /\ OneField
  BY DEF DeskInv
<1>2. PICK d : d = Untouched(form.kind)
  OBVIOUS
<1>3. /\ form' = [kind |-> form.kind, open |-> FALSE, fields |-> d, named |-> FALSE, items |-> NoItems,
                  note |-> form.note]
      /\ ask' = [stage |-> ask.stage, fields |-> ask.fields, mounted |-> FALSE, alone |-> ask.alone]
      /\ UNCHANGED <<facts, row, made, typed, sends>>
  BY <1>1, <1>2 DEF CloseForm, DeskShape
<1>4. /\ form'.kind = form.kind /\ form'.fields = d /\ form'.note = form.note
      /\ ask'.stage = ask.stage /\ ask'.fields = ask.fields /\ ask'.alone = ask.alone /\ DeskShape'
  BY <1>1, <1>3 DEF DeskShape
<1>5. Once => d = [f \in {Key} |-> 0]
  BY <1>2, OneFieldEach DEF Once, Untouched
<1>6. Once => form'.fields \in [{Key} -> Versions] /\ form'.fields[Key] = 0
  BY <1>4, <1>5, DeskVersions
<1> QED BY <1>3, <1>4, <1>6, EmptiedKeeps

LEMMA UnpickingKeeps ==
  ASSUME DeskInv, UnpickFile
  PROVE  DeskInv'
<1>1. DeskShape /\ OneField
  BY DEF DeskInv
<1>2. Once /\ Key = "file" /\ form.fields \in [{Key} -> Versions]
  BY <1>1 DEF UnpickFile, Once, Key, OneField
<1>3. PICK d : d = [form.fields EXCEPT ![Key] = 0]
  OBVIOUS
<1>4. /\ form' = [kind |-> form.kind, open |-> form.open, fields |-> d, named |-> FALSE, items |-> form.items,
                  note |-> form.note]
      /\ UNCHANGED <<ask, facts, row, made, typed, sends>>
  BY <1>1, <1>2, <1>3 DEF UnpickFile, DeskShape
<1>5. form'.kind = form.kind /\ form'.fields = d /\ form'.note = form.note /\ DeskShape'
  BY <1>1, <1>4 DEF DeskShape
<1>6. form'.fields \in [{Key} -> Versions] /\ form'.fields[Key] = 0
  BY <1>2, <1>3, <1>5, DeskVersions
<1> QED BY <1>4, <1>5, <1>6, EmptiedKeeps

LEMMA ItemsKeep ==
  ASSUME DeskInv, ItemsChange
  PROVE  DeskInv'
<1>1. DeskShape /\ OneField
  BY DEF DeskInv
<1>2. UNCHANGED <<ask, facts, row, made, typed, sends>>
  BY DEF ItemsChange
<1>3. PICK l : form' = [form EXCEPT !.items = l]
  <2>1. CASE AddItem
    BY <2>1 DEF AddItem
  <2>2. ASSUME NEW i \in DOMAIN form.items, DropItem(i)
        PROVE  \E l : form' = [form EXCEPT !.items = l]
    BY <2>2 DEF DropItem
  <2>3. ASSUME NEW i \in DOMAIN form.items, NEW p \in Products, NameItem(i, p)
        PROVE  \E l : form' = [form EXCEPT !.items = l]
    <3>1. form' = [form EXCEPT !.items = [form.items EXCEPT ![i] = p]]
      BY <1>1, <2>3 DEF NameItem, DeskShape
    <3> QED BY <3>1
  <2> QED BY <2>1, <2>2, <2>3 DEF ItemsChange
<1>4. form' = [kind |-> form.kind, open |-> form.open, fields |-> form.fields, named |-> form.named, items |-> l,
               note |-> form.note]
  BY <1>1, <1>3 DEF DeskShape
<1>5. form'.kind = form.kind /\ form'.fields = form.fields /\ form'.note = form.note /\ DeskShape'
  BY <1>1, <1>2, <1>4 DEF DeskShape
<1>6. Once => form'.fields \in [{Key} -> Versions] /\ form'.fields[Key] = form.fields[Key]
  BY <1>1, <1>5 DEF OneField
<1> QED BY <1>2, <1>5, <1>6, EmptiedKeeps

(* A live event changes no field of a form that makes orders. *)
LEMMA FollowingKeeps ==
  ASSUME DeskInv, PageFollows
  PROVE  DeskInv'
<1>1. DeskShape /\ OneField
  BY DEF DeskInv
<1>2. PICK d : d = [f \in DOMAIN form.fields |->
                      IF form.open /\ form.fields[f] = facts.fields[f] THEN row.fields[f] ELSE form.fields[f]]
  OBVIOUS
<1>3. /\ form' = [kind |-> form.kind, open |-> form.open, fields |-> d, named |-> form.named,
                  items |-> form.items, note |-> form.note]
      /\ facts' = Rendered(row) /\ UNCHANGED <<ask, row, made, typed, sends>>
  BY <1>1, <1>2 DEF PageFollows, DeskShape
<1>4. /\ form'.kind = form.kind /\ form'.fields = d /\ form'.note = form.note /\ facts'.fields = row.fields
      /\ DeskShape'
  BY <1>1, <1>3 DEF DeskShape, Rendered
<1>5. Once => d \in [{Key} -> Versions] /\ d[Key] = form.fields[Key]
  BY <1>1, <1>2, DeskVersions DEF OneField
<1> QED BY <1>3, <1>4, <1>5, EmptiedKeeps

LEMMA CallsKeepDesk ==
  ASSUME DeskInv, CallChanges
  PROVE  DeskInv'
<1>1. DeskShape /\ OneField
  BY DEF DeskInv
<1>2. PICK c : row' = [row EXCEPT !.call = c] /\ UNCHANGED <<form, ask, facts, made, typed, sends>>
  BY DEF CallChanges
<1>3. row' = [fields |-> row.fields, call |-> c]
  BY <1>1, <1>2 DEF DeskShape
<1>4. row'.fields = row.fields /\ DeskShape'
  BY <1>1, <1>2, <1>3 DEF DeskShape
<1>5. Once => form'.fields \in [{Key} -> Versions] /\ form'.fields[Key] = form.fields[Key]
  BY <1>1, <1>2 DEF OneField
<1> QED BY <1>2, <1>4, <1>5, EmptiedKeeps

(* Every entry is told apart from what was sent before. *)
LEMMA TypingKeeps ==
  ASSUME DeskInv, NEW f \in FormFields(form.kind), TypeField(f)
  PROVE  DeskInv'
<1>1. DeskShape /\ OneField /\ SentOnce /\ SavedEdit
  BY DEF DeskInv
<1>2. PICK d : d = [form.fields EXCEPT ![f] = typed + 1]
  OBVIOUS
<1>3. PICK w : w = (form.kind = "import")
  OBVIOUS
<1>4. /\ form' = [kind |-> form.kind, open |-> form.open, fields |-> d, named |-> w, items |-> form.items,
                  note |-> form.note]
      /\ typed < MaxTyped /\ typed' = typed + 1 /\ UNCHANGED <<ask, facts, row, made, sends>>
  BY <1>1, <1>2, <1>3 DEF TypeField, DeskShape
<1>5. /\ form'.kind = form.kind /\ form'.fields = d /\ form'.note = form.note
      /\ typed \in Versions /\ typed' \in Versions /\ 0 \in Versions /\ Versions \subseteq Nat
  BY <1>1, <1>4, DeskVersions DEF DeskShape
<1>6. DeskShape'
  BY <1>1, <1>4, <1>5 DEF DeskShape
<1>7. Once' = Once /\ Key' = Key
  BY <1>5 DEF Once, Key
<1>8. ASSUME Once
      PROVE  d \in [{Key} -> Versions] /\ d[Key] = typed + 1
  <2>1. f = Key /\ form.fields \in [{Key} -> Versions]
    BY <1>1, <1>8, OneFieldEach DEF OneField
  <2> QED BY <1>2, <1>4, <1>5, <2>1
<1>9. \A v \in Versions : made'[v] <= 1 /\ (made'[v] # 0 => v # 0 /\ v <= typed /\ Once)
  BY <1>1, <1>4 DEF SentOnce
<1>10. OneField'
  <2>1. Once => ask.fields \in [{Key} -> Versions] /\ ask.fields[Key] \in Versions /\ ask.fields[Key] <= typed
    BY <1>1 DEF OneField
  <2>2. Once => ask.fields[Key] <= typed + 1 /\ typed + 1 <= typed + 1
    BY <1>5, <2>1
  <2> QED BY <1>1, <1>4, <1>5, <1>7, <1>8, <2>1, <2>2 DEF OneField
<1>11. SentOnce'
  <2>1. \A v \in Versions : made'[v] <= 1 /\ (made'[v] # 0 => v # 0 /\ v <= typed' /\ Once')
    <3>1. \A v \in Versions : v <= typed => v <= typed + 1
      BY <1>5
    <3> QED BY <1>4, <1>7, <1>9, <3>1
  <2>2. ASSUME Once
        PROVE  /\ ask'.stage = "sent" => made'[ask'.fields[Key]] = 0 /\ (form'.kind = "new" => ask'.fields[Key] # 0)
               /\ made'[form'.fields[Key]] # 0 =>
                    ask'.stage \in {"saved", "refused"} /\ ask'.mounted /\ form'.fields[Key] = ask'.fields[Key]
               /\ ask'.stage # "none" /\ form'.fields[Key] # 0 /\ form'.fields[Key] = ask'.fields[Key]
                  => ask'.mounted
    <3>1. made'[typed + 1] = 0
      <4>1. ~(typed + 1 <= typed)
        BY <1>5
      <4> QED BY <1>4, <1>5, <1>9, <4>1
    <3>2. ask.fields[Key] # typed + 1
      <4>1. ask.fields[Key] \in Versions /\ ask.fields[Key] <= typed
        BY <1>1, <2>2 DEF OneField
      <4> QED BY <1>5, <4>1
    <3>3. ask.stage = "sent" => made[ask.fields[Key]] = 0 /\ (form.kind = "new" => ask.fields[Key] # 0)
      BY <1>1, <2>2 DEF SentOnce
    <3> QED BY <1>4, <1>5, <1>8, <2>2, <3>1, <3>2, <3>3
  <2> QED BY <1>7, <2>1, <2>2 DEF SentOnce
<1>12. SavedEdit'
  BY <1>1, <1>4, <1>5 DEF SavedEdit
<1> QED BY <1>6, <1>10, <1>11, <1>12 DEF DeskInv

(* Only what is not an order yet can be sent: the form was reset after the last answer. *)
LEMMA SendingKeeps ==
  ASSUME DeskInv, SendForm
  PROVE  DeskInv'
<1>1. DeskShape /\ OneField /\ SentOnce /\ SavedEdit
  BY DEF DeskInv
<1>2. /\ ask' = [stage |-> "sent", fields |-> form.fields, mounted |-> TRUE, alone |-> TRUE]
      /\ UNCHANGED <<form, facts, row, made, typed>> /\ ask.stage = "none"
      /\ form.kind = "new" => form.fields["customer"] # 0
  BY DEF SendForm, MaySend
<1>3. /\ ask'.stage = "sent" /\ ask'.fields = form.fields /\ ask'.mounted = TRUE
      /\ ask' = [stage |-> ask'.stage, fields |-> ask'.fields, mounted |-> ask'.mounted, alone |-> ask'.alone]
  BY <1>2
<1>4. DeskShape'
  BY <1>1, <1>2, <1>3 DEF DeskShape
<1>5. Once' = Once /\ Key' = Key /\ (form.kind = "new" => Key = "customer")
  BY <1>2 DEF Once, Key
<1>6. OneField'
  BY <1>1, <1>2, <1>3, <1>5 DEF OneField
<1>7. SentOnce'
  <2>1. \A v \in Versions : made'[v] <= 1 /\ (made'[v] # 0 => v # 0 /\ v <= typed' /\ Once')
    BY <1>1, <1>2, <1>5 DEF SentOnce
  <2>2. Once => made[form.fields[Key]] = 0 /\ (form.kind = "new" => form.fields[Key] # 0)
    BY <1>1, <1>2, <1>5 DEF SentOnce
  <2> QED BY <1>2, <1>3, <1>5, <2>1, <2>2 DEF SentOnce
<1>8. SavedEdit'
  BY <1>3 DEF SavedEdit
<1> QED BY <1>4, <1>6, <1>7, <1>8 DEF DeskInv

LEMMA RefusingKeeps ==
  ASSUME DeskInv, AskRefused
  PROVE  DeskInv'
<1>1. DeskShape /\ OneField /\ SentOnce /\ SavedEdit
  BY DEF DeskInv
<1>2. /\ ask' = [stage |-> "refused", fields |-> ask.fields, mounted |-> ask.mounted, alone |-> ask.alone]
      /\ UNCHANGED <<form, facts, row, made, typed, sends>> /\ ask.stage = "sent"
  BY <1>1 DEF AskRefused, DeskShape
<1>3. /\ ask'.stage = "refused" /\ ask'.fields = ask.fields /\ ask'.mounted = ask.mounted
      /\ ask' = [stage |-> ask'.stage, fields |-> ask'.fields, mounted |-> ask'.mounted, alone |-> ask'.alone]
  BY <1>2
<1>4. DeskShape'
  BY <1>1, <1>2, <1>3 DEF DeskShape
<1>5. Once' = Once /\ Key' = Key
  BY <1>2 DEF Once, Key
<1>6. OneField'
  BY <1>1, <1>2, <1>3, <1>5 DEF OneField
<1>7. SentOnce'
  <2>1. \A v \in Versions : made'[v] <= 1 /\ (made'[v] # 0 => v # 0 /\ v <= typed' /\ Once')
    BY <1>1, <1>2, <1>5 DEF SentOnce
  <2>2. Once =>
          /\ made[form.fields[Key]] # 0 => ask.mounted /\ form.fields[Key] = ask.fields[Key]
          /\ form.fields[Key] # 0 /\ form.fields[Key] = ask.fields[Key] => ask.mounted
    BY <1>1, <1>2 DEF SentOnce
  <2> QED BY <1>2, <1>3, <1>5, <2>1, <2>2 DEF SentOnce
<1>8. SavedEdit'
  BY <1>3 DEF SavedEdit
<1> QED BY <1>4, <1>6, <1>7, <1>8 DEF DeskInv

LEMMA EditsElsewhereKeep ==
  ASSUME DeskInv, EditedElsewhere
  PROVE  DeskInv'
<1>1. DeskShape /\ OneField /\ SentOnce /\ SavedEdit
  BY DEF DeskInv
<1>2. PICK d : d = [f \in FormFields("edit") |-> typed + 1]
  OBVIOUS
<1>3. /\ row' = [fields |-> d, call |-> row.call]
      /\ ask' = [stage |-> ask.stage, fields |-> ask.fields, mounted |-> ask.mounted, alone |-> FALSE]
      /\ form.kind = "edit" /\ typed < MaxTyped /\ typed' = typed + 1 /\ UNCHANGED <<form, facts, made, sends>>
  BY <1>1, <1>2 DEF EditedElsewhere, DeskShape
<1>4. ~Once /\ ~Once' /\ typed' \in Versions /\ ask'.alone = FALSE
  BY <1>1, <1>3, DeskVersions DEF Once, DeskShape
<1>5. DeskShape'
  BY <1>1, <1>3, <1>4 DEF DeskShape
<1>6. SentOnce'
  BY <1>1, <1>3, <1>4 DEF SentOnce
<1>7. OneField' /\ SavedEdit'
  BY <1>4 DEF OneField, SavedEdit
<1> QED BY <1>5, <1>6, <1>7 DEF DeskInv

LEMMA AcceptingKeeps ==
  ASSUME DeskInv, AskAccepted
  PROVE  DeskInv'
<1>1. DeskShape /\ OneField /\ SentOnce /\ SavedEdit
  BY DEF DeskInv
<1>2. PICK a \in {"saved", "refused"} : ask' = [ask EXCEPT !.stage = a]
  BY DEF AskAccepted
<1>3. /\ ask' = [stage |-> a, fields |-> ask.fields, mounted |-> ask.mounted, alone |-> ask.alone]
      /\ UNCHANGED <<form, facts, typed>> /\ ask.stage = "sent"
  BY <1>1, <1>2 DEF AskAccepted, DeskShape
<1>4. /\ ask'.stage = a /\ ask'.fields = ask.fields /\ ask'.mounted = ask.mounted /\ ask'.alone = ask.alone
      /\ ask' = [stage |-> ask'.stage, fields |-> ask'.fields, mounted |-> ask'.mounted, alone |-> ask'.alone]
  BY <1>3
<1>5. Once' = Once /\ Key' = Key /\ Versions \subseteq Nat /\ 0 \in Versions
  BY <1>3, DeskVersions DEF Once, Key
<1>6. CASE Once
  <2>1. form.kind \in {"new", "import"} /\ ask.fields \in [{Key} -> Versions] /\ ask.fields[Key] <= typed
    BY <1>1, <1>6 DEF Once, OneField
  <2>2. PICK v \in Versions : v = ask.fields[Key]
    BY <2>1
  <2>3. made' = [made EXCEPT ![v] = made[v] + 1] /\ UNCHANGED row /\ v # 0
    <3>1. CASE form.kind = "new"
      <4>1. Key = "customer" /\ v # 0
        BY <1>1, <1>3, <1>6, <2>2, <3>1 DEF Key, SentOnce
      <4> QED BY <2>2, <3>1, <4>1 DEF AskAccepted
    <3>2. CASE form.kind = "import"
      BY <2>2, <3>2 DEF AskAccepted, Key
    <3> QED BY <2>1, <3>1, <3>2
  <2>4. made[v] = 0 /\ v <= typed
    BY <1>1, <1>3, <1>6, <2>1, <2>2 DEF SentOnce
  <2>5. /\ made' \in [Versions -> Nat] /\ made'[v] = 1
        /\ \A x \in Versions : x # v => made'[x] = made[x]
    <3>1. made \in [Versions -> Nat]
      BY <1>1 DEF DeskShape
    <3> QED BY <2>3, <2>4, <3>1
  <2>6. DeskShape'
    BY <1>1, <1>3, <1>4, <2>3, <2>5 DEF DeskShape
  <2>7. OneField'
    BY <1>1, <1>3, <1>4, <1>5, <2>3 DEF OneField
  <2>8. SentOnce'
    <3>1. \A x \in Versions : made'[x] <= 1 /\ (made'[x] # 0 => x # 0 /\ x <= typed' /\ Once')
      <4>1. \A x \in Versions : made[x] <= 1 /\ (made[x] # 0 => x # 0 /\ x <= typed /\ Once)
        BY <1>1 DEF SentOnce
      <4> QED BY <1>3, <1>5, <1>6, <2>3, <2>4, <2>5, <4>1
    <3>2. /\ made[form.fields[Key]] # 0 => FALSE
          /\ form.fields[Key] # 0 /\ form.fields[Key] = ask.fields[Key] => ask.mounted
          /\ form.fields[Key] \in Versions
      BY <1>1, <1>3, <1>6 DEF SentOnce, OneField
    <3>3. made'[form.fields[Key]] # 0 => form.fields[Key] = v
      BY <2>5, <3>2
    <3> QED BY <1>3, <1>4, <1>5, <2>2, <2>3, <3>1, <3>2, <3>3 DEF SentOnce
  <2>9. SavedEdit'
    BY <1>3, <2>1 DEF SavedEdit
  <2> QED BY <2>6, <2>7, <2>8, <2>9 DEF DeskInv
<1>7. CASE ~Once
  <2>1. form.kind \in Forms /\ form.kind # "new" /\ form.kind # "import"
    BY <1>1, <1>7 DEF Once, DeskShape
  <2>2. made' = made
    <3>1. CASE form.kind = "edit"
      BY <3>1 DEF AskAccepted
    <3>2. CASE form.kind # "edit"
      BY <2>1, <3>2 DEF AskAccepted
    <3> QED BY <3>1, <3>2
  <2>3. form.kind = "edit" => row' = [row EXCEPT !.fields = ask.fields]
    BY DEF AskAccepted
  <2>4. form.kind # "edit" => row' = [row EXCEPT !.call = "pending"]
    BY <2>1 DEF AskAccepted
  <2>5. row' = [fields |-> row'.fields, call |-> row'.call] /\ (form.kind = "edit" => row'.fields = ask.fields)
    <3>1. row = [fields |-> row.fields, call |-> row.call]
      BY <1>1 DEF DeskShape
    <3>2. CASE form.kind = "edit"
      BY <2>3, <3>1, <3>2
    <3>3. CASE form.kind # "edit"
      BY <2>4, <3>1, <3>3
    <3> QED BY <3>2, <3>3
  <2>6. DeskShape'
    BY <1>1, <1>3, <1>4, <2>2, <2>5 DEF DeskShape
  <2>7. OneField'
    BY <1>5, <1>7 DEF OneField
  <2>8. SentOnce'
    BY <1>1, <1>3, <1>5, <1>7, <2>2 DEF SentOnce
  <2>9. SavedEdit'
    BY <1>3, <1>4, <2>5 DEF SavedEdit
  <2> QED BY <2>6, <2>7, <2>8, <2>9 DEF DeskInv
<1> QED BY <1>6, <1>7

LEMMA AnsweringKeeps ==
  ASSUME DeskInv, AskAnswered
  PROVE  DeskInv'
<1>1. DeskShape /\ OneField /\ SentOnce /\ SavedEdit
  BY DEF DeskInv
<1>2. PICK d : d = IF ClosesForm THEN Untouched(form.kind) ELSE FieldsAfter(form.fields)
  OBVIOUS
<1>3. PICK o : o = (form.open /\ ~ClosesForm)
  OBVIOUS
<1>4. /\ form' = [kind |-> form.kind, open |-> o, fields |-> d, named |-> form.named,
                  items |-> form.items, note |-> NoteAfter]
      /\ ask' = [stage |-> "none", fields |-> ask.fields, mounted |-> ask.mounted, alone |-> ask.alone]
      /\ ask.stage \in {"saved", "refused"} /\ UNCHANGED <<row, made, typed, sends>>
  BY <1>1, <1>2, <1>3 DEF AskAnswered, DeskShape
<1>5. /\ form'.kind = form.kind /\ form'.fields = d /\ form'.note = NoteAfter
      /\ ask'.stage = "none" /\ ask'.fields = ask.fields /\ ask'.alone = ask.alone
  BY <1>4
<1>6. DeskShape'
  <2>1. form' = [kind |-> form'.kind, open |-> form'.open, fields |-> form'.fields, named |-> form'.named,
                 items |-> form'.items, note |-> form'.note]
    BY <1>4
  <2>2. ask' = [stage |-> ask'.stage, fields |-> ask'.fields, mounted |-> ask'.mounted, alone |-> ask'.alone]
    BY <1>4
  <2> QED BY <1>1, <1>4, <1>5, <2>1, <2>2 DEF DeskShape
<1>7. Once' = Once /\ Key' = Key /\ Versions \subseteq Nat /\ 0 \in Versions /\ typed \in Versions
  BY <1>1, <1>5, DeskVersions DEF Once, Key, DeskShape
<1>8. facts'.fields = IF ask.stage = "saved" THEN row.fields ELSE facts.fields
  BY DEF AskAnswered, Rendered
<1>9. ASSUME Once
      PROVE  d \in [{Key} -> Versions] /\ d[Key] \in {0, form.fields[Key]} /\ (ask.mounted => d[Key] = 0)
  <2>1. PICK u : u = Untouched(form.kind)
    OBVIOUS
  <2>2. u = [f \in {Key} |-> 0]
    BY <1>9, <2>1, OneFieldEach DEF Untouched
  <2>3. u \in [{Key} -> Versions] /\ u[Key] = 0
    BY <1>7, <2>2
  <2>4. Defaults = u
    BY <1>9, <2>1 DEF Once, Defaults
  <2>5. form.fields \in [{Key} -> Versions]
    BY <1>1, <1>9 DEF OneField
  <2>6. d = u \/ (d = form.fields /\ ~ask.mounted)
    BY <1>2, <2>1, <2>4 DEF FieldsAfter
  <2> QED BY <2>3, <2>5, <2>6
<1>10. OneField'
  <2>1. Once =>
          /\ ask.fields \in [{Key} -> Versions] /\ form.fields[Key] <= typed /\ ask.fields[Key] <= typed
          /\ facts.fields[Key] = 0 /\ row.fields[Key] = 0
    BY <1>1 DEF OneField
  <2>2. typed \in Nat /\ 0 <= typed
    <3>1. typed \in Nat
      BY <1>7
    <3> QED BY <3>1
  <2>3. Once => d[Key] <= typed
    BY <1>9, <2>1, <2>2
  <2>4. Once => facts'.fields[Key] = 0
    BY <1>8, <2>1
  <2> QED BY <1>4, <1>5, <1>7, <1>9, <2>1, <2>3, <2>4 DEF OneField
<1>11. SentOnce'
  <2>1. \A v \in Versions : made'[v] <= 1 /\ (made'[v] # 0 => v # 0 /\ v <= typed' /\ Once')
    BY <1>1, <1>4, <1>7 DEF SentOnce
  <2>2. Once => made[d[Key]] = 0
    <3>1. made[0] = 0
      BY <1>1, <1>7 DEF SentOnce
    <3>2. Once => (made[form.fields[Key]] # 0 => ask.mounted)
      BY <1>1 DEF SentOnce
    <3> QED BY <1>9, <3>1, <3>2
  <2> QED BY <1>4, <1>5, <1>7, <2>1, <2>2 DEF SentOnce
<1>12. SavedEdit'
  <2>1. ASSUME form.kind = "edit", ask.alone, NoteAfter = "done"
        PROVE  row.fields = ask.fields /\ facts'.fields = row.fields
    <3>1. ask.stage = "saved"
      BY <1>4, <2>1 DEF NoteAfter
    <3> QED BY <1>1, <1>8, <2>1, <3>1 DEF SavedEdit
  <2> QED BY <1>4, <1>5, <2>1 DEF SavedEdit
<1> QED BY <1>6, <1>10, <1>11, <1>12 DEF DeskInv

LEMMA DeskKept == DeskInv /\ [DeskNext]_deskVars => DeskInv'
<1> SUFFICES ASSUME DeskInv, [DeskNext]_deskVars PROVE DeskInv'
  OBVIOUS
<1>1. CASE UNCHANGED deskVars
  BY <1>1 DEF deskVars, DeskInv, DeskShape, OneField, SentOnce, SavedEdit, Once, Key
<1>2. CASE DeskNext
  BY <1>2, OpeningKeeps, ClosingKeeps, UnpickingKeeps, ItemsKeep, SendingKeeps, TypingKeeps, AcceptingKeeps,
     RefusingKeeps, AnsweringKeeps, EditsElsewhereKeep, CallsKeepDesk, FollowingKeeps DEF DeskNext
<1> QED BY <1>1, <1>2

(* What the forms of the app say and send is what was meant, at any length of what is typed, sent and
   answered: a settings card tells the truth of its last save, what was typed once becomes an order once
   (NewOrderForm, CsvImportForm), a saved edit is what the page shows (EditableOrder), and the studio of
   the Voice Lab tells of one call, never of an older state of it (VoiceLabClient). *)
THEOREM FormsKeepWord == FormsSpec => []FormsKeepTheirWord
<1> DEFINE Inv == CardInv /\ DeskInv /\ LabInv
<1>1. FormsInit => Inv
  BY CardsStart, DeskStart, LabStart DEF FormsInit
<1>2. Inv /\ [FormsNext]_formsVars => Inv'
  <2> SUFFICES ASSUME Inv, [FormsNext]_formsVars PROVE Inv'
    OBVIOUS
  <2>1. [SettingsNext]_settingsVars
    BY DEF FormsNext, formsVars
  <2>2. [DeskNext]_deskVars
    BY DEF FormsNext, formsVars
  <2>3. [LabNext]_labVars
    BY DEF FormsNext, formsVars
  <2> QED BY <2>1, <2>2, <2>3, CardsKept, DeskKept, LabKept
<1>3. Inv => FormsKeepTheirWord
  BY DeskKeepsWord DEF FormsKeepTheirWord, CardInv, LabInv
<1> QED BY <1>1, <1>2, <1>3, PTL DEF FormsSpec
=============================================================================
