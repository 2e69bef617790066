------------------------------ MODULE AiDaemon ------------------------------
(***************************************************************************)
(* luna-ai-d: the client table beside the epoll set, a batch of events     *)
(* served while clients come and go, the presence mode and its broadcast.  *)
(* Module AiRelay has what a prompt is answered with.                      *)
(*                                                                         *)
(* A descriptor number is the smallest free one, as the kernel gives it    *)
(* out, so that a closed client's number returns.  What is written to a    *)
(* client is taken to fit its socket buffer.                               *)
(***************************************************************************)
EXTENDS Integers, Sequences, Functions, FiniteSets

CONSTANTS
  Peers,       \* client processes, each connecting once
  MaxClients,  \* MAX_CLIENTS
  MaxEvents,   \* MAX_EVENTS
  Apps         \* names of applications, each the set of keywords in it

ASSUME AiAssumption ==
  IsFiniteSet(Peers) /\ MaxClients \in Nat /\ MaxEvents \in Nat \ {0}

VARIABLES
  table,     \* g_clients
  polled,    \* the clients' descriptors in the epoll set
  conn,      \* whose connection a descriptor is, of the open ones
  waiting,   \* connections not accepted yet
  gone,      \* peers that closed their end
  request,   \* what a peer has sent and the daemon not read
  told,      \* the mode a peer was last told
  mode,      \* g_current_mode
  batch      \* the events of epoll_wait still to be served

daemon == <<table, polled, conn, waiting, gone, request, told, mode, batch>>

Fds == 1..Cardinality(Peers) + 1
Requests == {[cmd |-> "get_mode"], [cmd |-> "other"]}
              \cup [cmd : {"set_active_app"}, app : Apps]
None == [cmd |-> "none"]

\* presence_update_active_app: the first group of words that occurs decides.
ModeOf(app) ==
  CASE app \cap {"terminal", "shell", "code"} # {} -> "DEVSHELL"
    [] app \cap {"tasks", "calc", "math"} # {} -> "FOCUS"
    [] app \cap {"text", "writer", "draw", "paint"} # {} -> "CREATIVE"
    [] app \cap {"browser", "study", "web"} # {} -> "STUDY"
    [] OTHER -> "AMBIENT"

DaemonInit ==
  /\ table = << >> /\ polled = {} /\ conn = << >> /\ waiting = {} /\ gone = {}
  /\ request = [p \in Peers |-> None] /\ told = [p \in Peers |-> "nothing"]
  /\ mode = "AMBIENT" /\ batch = << >>

Fresh == {p \in Peers : p \notin waiting \cup gone /\ \A fd \in DOMAIN conn : conn[fd] # p}

PeerConnects(p) ==
  /\ p \in Fresh
  /\ waiting' = waiting \cup {p}
  /\ UNCHANGED <<table, polled, conn, gone, request, told, mode, batch>>

\* What a peer sends before it is accepted is seen no earlier than this.
PeerSends(p) ==
  /\ p \notin gone /\ \E fd \in DOMAIN conn : conn[fd] = p
  /\ request[p] = None
  /\ \E r \in Requests : request' = [request EXCEPT ![p] = r]
  /\ UNCHANGED <<table, polled, conn, waiting, gone, told, mode, batch>>

PeerHangsUp(p) ==
  /\ p \notin gone /\ \E fd \in DOMAIN conn : conn[fd] = p
  /\ gone' = gone \cup {p}
  /\ UNCHANGED <<table, polled, conn, waiting, request, told, mode, batch>>

\* What epoll_wait can report: the listening socket (0), and of a client that
\* it has data, or that it hung up, which it reports with the data.
Ready ==
  {[fd |-> 0, peer |-> 0, hup |-> FALSE] : x \in {y \in {0} : waiting # {}}}
    \cup {[fd |-> fd, peer |-> conn[fd], hup |-> conn[fd] \in gone] :
            fd \in {f \in polled : conn[f] \in gone \/ request[conn[f]] # None}}

EpollWait ==
  /\ batch = << >> /\ Ready # {}
  /\ LET n == IF Cardinality(Ready) < MaxEvents THEN Cardinality(Ready) ELSE MaxEvents
     IN  \E events \in [1..n -> Ready] : IsInjective(events) /\ batch' = events
  /\ UNCHANGED <<table, polled, conn, waiting, gone, request, told, mode>>

LowestFree == CHOOSE fd \in Fds \ DOMAIN conn : \A other \in Fds \ DOMAIN conn : fd <= other

\* add_client takes a descriptor as long as the table has room.
HasRoom == Len(table) < MaxClients

\* accept, add_client and epoll_ctl.  A client beyond the table is closed, and
\* adding its descriptor to epoll then fails.
AcceptClient ==
  /\ batch # << >> /\ batch[1].fd = 0
  /\ batch' = Tail(batch)
  /\ \E p \in waiting :
       /\ waiting' = waiting \ {p}
       /\ IF HasRoom
          THEN /\ table' = Append(table, LowestFree)
               /\ conn' = [fd \in DOMAIN conn \cup {LowestFree} |->
                            IF fd = LowestFree THEN p ELSE conn[fd]]
               /\ polled' = polled \cup {LowestFree}
               /\ UNCHANGED gone
          ELSE /\ gone' = gone \cup {p}
               /\ UNCHANGED <<table, conn, polled>>
  /\ UNCHANGED <<request, told, mode>>

\* Mutant of WithoutClient: the last entry is dropped before it was moved.
WithoutClientLast(fd) == SubSeq(table, 1, Len(table) - 1)

\* remove_client's table: the last entry takes the place of the removed one.
WithoutClient(fd) ==
  [i \in 1..Len(table) - 1 |-> IF table[i] = fd THEN table[Len(table)] ELSE table[i]]

\* EPOLLHUP or EPOLLERR: what the client still had to say is not read.
DropClient ==
  /\ batch # << >> /\ batch[1].fd # 0 /\ batch[1].hup
  /\ LET fd == batch[1].fd
     IN  /\ table' = WithoutClient(fd) /\ polled' = polled \ {fd}
         /\ conn' = [f \in DOMAIN conn \ {fd} |-> conn[f]]
         /\ request' = [request EXCEPT ![conn[fd]] = None]
         /\ told' = [told EXCEPT ![conn[fd]] = "nothing"]
  /\ batch' = Tail(batch)
  /\ UNCHANGED <<waiting, gone, mode>>

\* Mutant of Broadcast: the first client is left out.
BroadcastFromOne(m) ==
  [p \in Peers |-> IF \E i \in 2..Len(table) : conn[table[i]] = p THEN m ELSE told[p]]

\* broadcast_mode.
Broadcast(m) ==
  [p \in Peers |-> IF \E i \in DOMAIN table : conn[table[i]] = p THEN m ELSE told[p]]

\* handle_client_data.  A mode that changed goes to all, one that did not to
\* the sender.  The other commands are prompts, which AiRelay answers, and
\* errors.
HandleData ==
  /\ batch # << >> /\ batch[1].fd # 0 /\ ~batch[1].hup
  /\ LET p == conn[batch[1].fd]
         r == request[p]
     IN  /\ request' = [request EXCEPT ![p] = None]
         /\ mode' = IF r.cmd = "set_active_app" THEN ModeOf(r.app) ELSE mode
         /\ told' = CASE r.cmd = "get_mode" -> [told EXCEPT ![p] = mode]
                      [] r.cmd = "set_active_app" ->
                           IF mode' # mode THEN Broadcast(mode') ELSE [told EXCEPT ![p] = mode']
                      [] OTHER -> told
  /\ batch' = Tail(batch)
  /\ UNCHANGED <<table, polled, conn, waiting, gone>>

DaemonNext ==
  \/ \E p \in Peers : PeerConnects(p) \/ PeerSends(p) \/ PeerHangsUp(p)
  \/ EpollWait \/ AcceptClient \/ DropClient \/ HandleData

-----------------------------------------------------------------------------

\* The table, the open connections and the epoll set name the same
\* descriptors, each once, and no more than the table holds, through refused
\* clients and numbers that the kernel gives out again; and no event of a batch
\* is about a connection that an earlier event of it closed.
TableMatchesEpoll ==
  /\ Range(table) = polled /\ polled = DOMAIN conn
  /\ Len(table) = Cardinality(polled) /\ Len(table) <= MaxClients
  /\ \A i \in DOMAIN batch : batch[i].fd # 0 =>
       batch[i].fd \in polled /\ conn[batch[i].fd] = batch[i].peer

\* A client that was told a mode has always been told the present one.
NobodyHasAnOldMode ==
  \A fd \in DOMAIN conn : told[conn[fd]] \in {"nothing", mode}
=============================================================================
