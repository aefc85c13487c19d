------------------------------ MODULE LiveQueue ------------------------------
(***************************************************************************)
(* The pages that show the attention queue (dashboard/static/index.html)   *)
(* and how they are told of a new one: dashboard/main.py keeps the set of  *)
(* open WebSockets, and _broadcast_queue_updated iterates over that very   *)
(* set, suspending at every send, while live() adds and discards.  The     *)
(* notice carries no data; a page repaints from GET /api/queue when its    *)
(* socket opens and at every notice.                                       *)
(*                                                                         *)
(* How a pass makes a queue is module Attention; here a queue is known by  *)
(* the number of its pass, and a pass is the commit that shows it.  A pass *)
(* of the worker process is not announced: hypotheses.updated has no       *)
(* consumer in the dashboard.                                              *)
(***************************************************************************)
EXTENDS Integers, Sequences, FiniteSetsExt

CONSTANTS Pages,
          MaxQueue,      \* bound: passes
          MaxBroadcasts, \* bound: POST requests to the dashboard
          MaxConnects    \* bound: sockets each page opens

ASSUME LiveQueueAssumption ==
  MaxQueue \in Nat /\ MaxBroadcasts \in Nat /\ MaxConnects \in [Pages -> Nat]

VARIABLES
  queue,      \* the queue GET /api/queue shows, 0 before the first pass
  link,       \* what a page's socket is to the page
  connects,   \* sockets the page has opened so far; its own is the last
  registered, \* _ws_clients
  broadcasts, \* the broadcast of each POST that has come that far
  asking,     \* pages with a notice, or the GET it causes, under way
  newest,     \* the newest queue that a GET has read for a page
  announced   \* history: the newest queue that a broadcast which ran to its
              \* end, without passing over the page, was started for

live == <<queue, link, connects, registered, broadcasts, asking, newest, announced>>

InitLive ==
  /\ queue = 0
  /\ link = [p \in Pages |-> "closed"]
  /\ connects = [p \in Pages |-> 0]
  /\ registered = {} /\ broadcasts = <<>>
  /\ asking = {}
  /\ newest = [p \in Pages |-> 0]
  /\ announced = [p \in Pages |-> 0]

-----------------------------------------------------------------------------
(***************************************************************************)
(* _broadcast_queue_updated.  The iterator of a set walks over its table,  *)
(* and looks at the size of the set each time it is asked for the next     *)
(* element, nothing else.  add() and difference_update() may build a new   *)
(* table, with its elements in other places: from then on the iterator may *)
(* come to an element again, or never (discard() never builds one).        *)
(***************************************************************************)
Over == [active |-> FALSE]

Gone(socket) ==
  LET page == socket[1] IN link[page] = "closed" \/ connects[page] # socket[2]

(* send_json: what the notice carries is the page's to ask for.            *)
Notified(socket) == IF Gone(socket) THEN asking ELSE asking \cup {socket[1]}

PassedOver(b, p) == <<p, connects[p]>> \in b.from \ b.visited

Announced(b) ==
  [p \in Pages |->
     IF PassedOver(b, p) THEN announced[p] ELSE Max({announced[p], b.queue})]

(* Up to its first send it suspends nowhere.                               *)
StartBroadcast(of) ==
  LET Begun(visited) == [active |-> TRUE, queue |-> of, from |-> registered,
                         visited |-> visited, moved |-> FALSE]
  IN /\ Len(broadcasts) < MaxBroadcasts
     /\ \/ /\ registered = {}
           /\ broadcasts' = Append(broadcasts, Over)
           /\ announced' = Announced(Begun({}))
           /\ UNCHANGED asking
        \/ \E socket \in registered :
             /\ broadcasts' = Append(broadcasts, Begun({socket}))
             /\ asking' = Notified(socket)
             /\ UNCHANGED announced
     /\ UNCHANGED <<link, connects, registered, newest>>

SameSize(b) == Cardinality(registered) = Cardinality(b.from)

(* The next socket.                                                        *)
Send(i, socket) ==
  LET b == broadcasts[i]
  IN /\ SameSize(b)
     /\ socket \in registered /\ (socket \in b.visited => b.moved)
     /\ broadcasts' = [broadcasts EXCEPT ![i].visited = @ \cup {socket}]
     /\ asking' = Notified(socket)
     /\ UNCHANGED <<queue, link, connects, registered, newest, announced>>

NewTable(bs) ==
  [i \in DOMAIN bs |-> IF bs[i].active THEN [bs[i] EXCEPT !.moved = TRUE] ELSE bs[i]]

(* The iterator has come to the end of the table; those a send failed on   *)
(* are dropped from the set.                                               *)
EndBroadcast(i) ==
  LET b == broadcasts[i]
  IN /\ SameSize(b)
     /\ b.moved \/ registered \cap b.from \subseteq b.visited
     /\ broadcasts' = NewTable([broadcasts EXCEPT ![i] = Over])
     /\ \E dead \in SUBSET {socket \in b.visited : Gone(socket)} :
          registered' = registered \ dead
     /\ announced' = Announced(b)
     /\ UNCHANGED <<queue, link, connects, asking, newest>>

(* RuntimeError: "Set changed size during iteration".                      *)
BreakBroadcast(i) ==
  /\ ~SameSize(broadcasts[i])
  /\ broadcasts' = [broadcasts EXCEPT ![i] = Over]
  /\ UNCHANGED <<queue, link, connects, registered, asking, newest, announced>>

Broadcasting(i) ==
  /\ broadcasts[i].active
  /\ \/ \E socket \in registered : Send(i, socket)
     \/ EndBroadcast(i) \/ BreakBroadcast(i)

-----------------------------------------------------------------------------
(***************************************************************************)
(* live(): accept and add suspend nowhere, so the page's onopen comes      *)
(* later; the discard, when receive_text raises, comes some time after the *)
(* socket has closed.                                                      *)
(***************************************************************************)
Connect(p) ==
  /\ link[p] = "closed" /\ connects[p] < MaxConnects[p]
  /\ link' = [link EXCEPT ![p] = "opening"]
  /\ connects' = [connects EXCEPT ![p] = @ + 1]
  /\ registered' = registered \cup {<<p, connects[p] + 1>>}
  /\ broadcasts' = NewTable(broadcasts)
  /\ UNCHANGED <<queue, asking, newest, announced>>

Discard(socket) ==
  /\ Gone(socket)
  /\ registered' = registered \ {socket}
  /\ UNCHANGED <<queue, link, connects, broadcasts, asking, newest, announced>>

-----------------------------------------------------------------------------
(***************************************************************************)
(* A page: onopen, onclose, and the GET of refreshAll.  Between the read   *)
(* of an answer and its arrival nothing is decided: `newest' is what the   *)
(* page will have received once nothing is under way to it.                *)
(***************************************************************************)
SilentOpen(p) ==                                                   \* mutant
  /\ link[p] = "opening"
  /\ link' = [link EXCEPT ![p] = "open"]
  /\ UNCHANGED <<queue, connects, registered, broadcasts, asking, newest, announced>>

OnOpen(p) ==
  /\ link[p] = "opening"
  /\ link' = [link EXCEPT ![p] = "open"]
  /\ asking' = asking \cup {p}
  /\ UNCHANGED <<queue, connects, registered, broadcasts, newest, announced>>

OnClose(p) ==
  /\ link[p] # "closed"
  /\ link' = [link EXCEPT ![p] = "closed"]
  /\ asking' = asking \ {p}
  /\ UNCHANGED <<queue, connects, registered, broadcasts, newest, announced>>

Refresh(p) ==
  /\ p \in asking
  /\ asking' = asking \ {p}
  /\ newest' = [newest EXCEPT ![p] = Max({@, queue})]
  /\ UNCHANGED <<queue, link, connects, registered, broadcasts, announced>>

-----------------------------------------------------------------------------
(* run_ranking_pass, in the worker, or in a request that then announces it.*)
ShowNewQueue ==
  /\ queue < MaxQueue
  /\ queue' = queue + 1
  /\ \/ StartBroadcast(queue')
     \/ UNCHANGED <<link, connects, registered, broadcasts, asking, newest, announced>>

(* POST /api/scenario/resolve announces, though it does not rank.          *)
Announce == StartBroadcast(queue) /\ UNCHANGED queue

NextLive ==
  \/ ShowNewQueue \/ Announce
  \/ \E p \in Pages : Connect(p) \/ OnOpen(p) \/ OnClose(p) \/ Refresh(p)
  \/ \E socket \in registered : Discard(socket)
  \/ \E i \in DOMAIN broadcasts : Broadcasting(i)

LiveSpec == InitLive /\ [][NextLive]_live

-----------------------------------------------------------------------------
(***************************************************************************)
(* "A client that reconnects loses nothing": a page whose socket is open,  *)
(* with nothing on its way to it, has received a queue at least as new as  *)
(* any that a broadcast ran to its end for without passing over that page, *)
(* whatever sockets opened, closed or were replaced meanwhile, also while  *)
(* it ran.  (A broadcast that broke off or passed over it leaves a page    *)
(* behind, until the next one, or until the page connects again.)          *)
(***************************************************************************)
Settled(p) == link[p] = "open" /\ p \notin asking

PagesCatchUp == \A p \in Pages : Settled(p) => newest[p] >= announced[p]
=============================================================================
