---------------------------- MODULE ControlDaemon ----------------------------
(***************************************************************************)
(* mahina-control-d's request loop and its IdempotencyStore: callers that  *)
(* connect, write a request line and wait, leave at any time and ask again *)
(* under the same request id; a daemon that serves one connection at a     *)
(* time, answers a request id it remembers from the store, runs a command  *)
(* otherwise, and forgets the oldest of more than Capacity answers, or all *)
(* of them when it dies.  What a provider does is reduced to whether it    *)
(* succeeded; who may ask what, to a kind of request that is refused.      *)
(***************************************************************************)
EXTENDS Integers, Sequences, FiniteSets

CONSTANTS
  Users,      \* callers, each with one connection at a time
  Asking,     \* requests to try: [kind, id], id 0 for no request_id
  Capacity,   \* with_capacity: answers remembered
  MaxCalls    \* bound: calls in a behaviour

ASSUME ControlAssumption == Capacity \in Nat

VARIABLES
  at,       \* per caller: "away", "connected" or "calling"
  line,     \* per caller: the request line not read yet, or NoRequest
  incoming, \* connections not accepted yet
  peer,     \* the connection being handled, or NoUser
  req,      \* the request being processed, or NoRequest
  stage,    \* where process_request and handle_client are
  response, \* the answer made for req
  queue,    \* StoreInner.queue
  entries,  \* StoreInner.entries
  runs,     \* the mutating commands with an id run in this daemon's life: [id, ok]
  calls

store   == <<queue, entries>>
control == <<at, line, incoming, peer, req, stage, response, store, runs,
             calls>>

NoUser    == "nobody"
NoRequest == [kind |-> "none", id |-> 0]
Refused(code) == [ok |-> FALSE, code |-> code, run |-> 0]

ControlInit ==
  /\ at = [u \in Users |-> "away"] /\ line = [u \in Users |-> NoRequest]
  /\ incoming = << >> /\ peer = NoUser /\ req = NoRequest /\ stage = "accept"
  /\ response = Refused(0) /\ queue = << >> /\ entries = << >> /\ runs = << >>
  /\ calls = 0

UserGoes(u, where) == at' = [at EXCEPT ![u] = where]

\* ControlClient::connect.
ControlConnect(u) ==
  /\ stage # "dead" /\ at[u] = "away"
  /\ peer # u /\ \A i \in DOMAIN incoming : incoming[i] # u
  /\ UserGoes(u, "connected") /\ incoming' = Append(incoming, u)
  /\ UNCHANGED <<line, peer, req, stage, response, store, runs, calls>>

\* ControlClient::call up to read_line: one line, whether or not the daemon has
\* accepted the connection.
ControlCall(u) ==
  /\ at[u] = "connected" /\ calls < MaxCalls
  /\ \E r \in Asking : line' = [line EXCEPT ![u] = r]
  /\ UserGoes(u, "calling") /\ calls' = calls + 1
  /\ UNCHANGED <<incoming, peer, req, stage, response, store, runs>>

\* The caller drops its ControlClient; or dies with a call under way, and the
\* line it wrote stays to be read.
HangsUp(u, was) ==
  /\ at[u] = was /\ UserGoes(u, "away")
  /\ UNCHANGED <<line, incoming, peer, req, stage, response, store, runs, calls>>
ControlClose(u)  == HangsUp(u, "connected")
ControlKilled(u) == HangsUp(u, "calling")

\* listen: the connections are handled one after the other.
ControlAccept ==
  /\ stage = "accept" /\ incoming # << >>
  /\ peer' = Head(incoming) /\ incoming' = Tail(incoming) /\ stage' = "read_line"
  /\ UNCHANGED <<at, line, req, response, store, runs, calls>>

\* read_line returns 0, and handle_client to the accept loop.
ControlEof ==
  /\ stage = "read_line" /\ line[peer] = NoRequest /\ at[peer] = "away"
  /\ peer' = NoUser /\ stage' = "accept"
  /\ UNCHANGED <<at, line, incoming, req, response, store, runs, calls>>

Answers(resp) == response' = resp /\ stage' = "reply"

\* Mutant of Process: a line that is not JSON is skipped like an empty one.
ProcessSkipsGarbled ==
  /\ stage = "read_line" /\ line[peer] # NoRequest
  /\ req' = line[peer] /\ line' = [line EXCEPT ![peer] = NoRequest]
  /\ IF req'.id \in DOMAIN entries THEN Answers(entries[req'.id])
     ELSE \/ req'.kind = "garbled" /\ stage' = "read_line" /\ UNCHANGED response
          \/ req'.kind = "unknown" /\ Answers(Refused(404))
          \/ req'.kind = "denied" /\ Answers(Refused(403))
          \/ req'.kind \in {"read", "write"} /\ stage' = "dispatch" /\ UNCHANGED response
  /\ UNCHANGED <<at, incoming, peer, store, runs, calls>>

\* read_line, and process_request up to the dispatch.  The store is asked before
\* the method is parsed or the caller authorised.
Process ==
  /\ stage = "read_line" /\ line[peer] # NoRequest
  /\ req' = line[peer] /\ line' = [line EXCEPT ![peer] = NoRequest]
  /\ IF req'.id \in DOMAIN entries THEN Answers(entries[req'.id])
     ELSE \/ req'.kind = "garbled" /\ Answers(Refused(400))
          \/ req'.kind = "unknown" /\ Answers(Refused(404))
          \/ req'.kind = "denied" /\ Answers(Refused(403))
          \/ req'.kind \in {"read", "write"} /\ stage' = "dispatch" /\ UNCHANGED response
  /\ UNCHANGED <<at, incoming, peer, store, runs, calls>>

is_mutating(r) == r.kind = "write"
Remembered(r) == is_mutating(r) /\ r.id # 0

\* The provider succeeds or fails; run says which of the runs the answer is of.
Dispatch ==
  /\ stage = "dispatch" /\ stage' = "store"
  /\ \E ok \in BOOLEAN :
       /\ runs' = IF Remembered(req) THEN Append(runs, [id |-> req.id, ok |-> ok]) ELSE runs
       /\ response' = [ok |-> ok, code |-> IF ok THEN 0 ELSE 500, run |-> Len(runs')]
  /\ UNCHANGED <<at, line, incoming, peer, req, store, calls>>

Keep(ids, e, id, resp) == [i \in ids \cup {id} |-> IF i = id THEN resp ELSE e[i]]

\* Mutants of Insert: it makes room one answer early; it leaves the answer of
\* the id it takes from the queue in the map.
InsertEvictsEarly(id, resp) ==
  IF id \in DOMAIN entries
  THEN entries' = Keep(DOMAIN entries, entries, id, resp) /\ UNCHANGED queue
  ELSE LET out == IF Len(queue) + 1 >= Capacity /\ queue # << >> THEN {Head(queue)} ELSE {} IN
       /\ queue' = Append(IF out = {} THEN queue ELSE Tail(queue), id)
       /\ entries' = Keep(DOMAIN entries \ out, entries, id, resp)

\* IdempotencyStore::insert: the oldest goes when the map is full.
Insert(id, resp) ==
  IF id \in DOMAIN entries
  THEN entries' = Keep(DOMAIN entries, entries, id, resp) /\ UNCHANGED queue
  ELSE LET out == IF Cardinality(DOMAIN entries) >= Capacity /\ queue # << >>
                  THEN {Head(queue)} ELSE {} IN
       /\ queue' = Append(IF out = {} THEN queue ELSE Tail(queue), id)
       /\ entries' = Keep(DOMAIN entries \ out, entries, id, resp)

Store ==
  /\ stage = "store" /\ stage' = "reply"
  /\ IF Remembered(req) THEN Insert(req.id, response) ELSE UNCHANGED store
  /\ UNCHANGED <<at, line, incoming, peer, req, response, runs, calls>>

\* write_all.  If the caller is gone it fails, and so does handle_client.
Reply ==
  /\ stage = "reply" /\ req' = NoRequest /\ response' = Refused(0)
  /\ IF at[peer] = "calling"
     THEN UserGoes(peer, "connected") /\ stage' = "read_line" /\ UNCHANGED peer
     ELSE peer' = NoUser /\ stage' = "accept" /\ UNCHANGED at
  /\ UNCHANGED <<line, incoming, store, runs, calls>>

\* The daemon is killed, or panics: its connections break, every caller's call
\* or connection ends in an error, and the store was only in memory.
Killed ==
  /\ stage # "dead"
  /\ at' = [u \in Users |-> "away"] /\ line' = [u \in Users |-> NoRequest]
  /\ incoming' = << >> /\ peer' = NoUser /\ req' = NoRequest /\ stage' = "dead"
  /\ response' = Refused(0) /\ queue' = << >> /\ entries' = << >> /\ runs' = << >>
  /\ UNCHANGED calls

\* listen again: the old socket's name is removed and bound anew.
Restarted ==
  /\ stage = "dead" /\ stage' = "accept"
  /\ UNCHANGED <<at, line, incoming, peer, req, response, store, runs, calls>>

ServeControl == ControlAccept \/ ControlEof \/ Process \/ Dispatch
                \/ Store \/ Reply

ControlNext ==
  \/ \E u \in Users : ControlConnect(u) \/ ControlCall(u) \/ ControlClose(u) \/ ControlKilled(u)
  \/ ServeControl
  \/ Killed \/ Restarted

\* A caller that is not calling drops its connection in the end.
ControlFair == WF_control(ServeControl) /\ \A u \in Users : WF_control(ControlClose(u))

-----------------------------------------------------------------------------

\* "Protecting mutating requests against duplicate execution" (idempotency.rs),
\* however callers and retries interleave: within one life of the daemon a
\* request id is run again only after Capacity others were, and a caller that
\* asks again for a mutating command learns how the last run of it went, be it
\* well or badly (get and insert in process_request).
RetriesAreSafe ==
  /\ \A i, j \in DOMAIN runs : (i < j /\ runs[i].id = runs[j].id) =>
       Cardinality({runs[k].id : k \in i+1 .. j-1}) >= Capacity
  /\ (stage = "reply" /\ Remembered(req)) =>
       /\ response.run \in DOMAIN runs
       /\ runs[response.run] = [id |-> req.id, ok |-> response.ok]
       /\ \A k \in DOMAIN runs : k > response.run => runs[k].id # req.id

\* A call comes back, with an answer or an error, though connections are served
\* one at a time, as long as nobody keeps one without calling.
CallsEnd ==
  \A u \in Users : (at[u] = "calling") ~> (at[u] # "calling")
=============================================================================
