------------------------------ MODULE MCParts -------------------------------
(***************************************************************************)
(* lpkg, luna-init's control socket, mahina-control-d's request loop,      *)
(* luna-ai-d's loop and relay, the TOML reader, and the compositor's wire, *)
(* input and painting.  They share nothing: part says which one this       *)
(* behaviour is about, and the others stay as they are.                    *)
(***************************************************************************)
EXTENDS Lpkg, Ctl, ControlDaemon, AiDaemon, AiRelay, Toml, LgpWire, LgpInput,
        Painting

VARIABLE part

\* The names luna-calc and luna-text yield the same entry; big has a file more
\* than an entry lists; text and calc share one.
MCArchives ==
  {[name |-> <<"luna", "calc">>, files |-> <<"a", "b">>, signed |-> TRUE],
   [name |-> <<"luna", "text">>, files |-> <<"b">>, signed |-> TRUE],
   [name |-> <<"big">>, files |-> <<"c", "d", "a">>, signed |-> TRUE],
   [name |-> <<"odd">>, files |-> <<"e">>, signed |-> FALSE]}
MCPaths == {"a", "b", "c", "d", "e"}
MCFaults == {"crash", "tar", "unlink", "download", "open"}

MCAsked ==
  [cmd : {"start", "stop", "restart", "reload", "status"}, name : {"", "net", "other"}]
    \cup {[cmd |-> c, name |-> ""] : c \in {"list", "shutdown", "reboot", "bogus"}}

\* Three ids for two answers remembered.
MCRequests ==
  [kind : {"write"}, id : 1..3]
    \cup [kind : {"read", "unknown", "denied", "garbled"}, id : {0}]

MCApps == {{"code", "text"}, {}}
\* The headers of the third length do not fit the buffer, nor does the second
\* line of the second answer.
MCLines(header, kinds, ends) ==
  [i \in DOMAIN ends |-> [kind |-> kinds[i], end |-> header + ends[i]]]
MCStreams ==
  UNION {{[header |-> h, lines |-> MCLines(h, <<"other", "chunk", "last">>, <<1, 4, 6>>)],
          [header |-> h, lines |-> MCLines(h, <<"chunk", "chunk", "last">>, <<2, 7, 8>>)]}
         : h \in {2, 3, 6}}

MCChars == {"quote", "backslash", "#", "x", "]", ","}

\* A header of two bytes; a commit and its buffer, and each without the other;
\* a clipboard text, a shorter one, one with a NUL in it, a request for it; and
\* length fields too small, too large, and larger than the buffer.
MCFrames ==
  {[type |-> "COMMIT", pay |-> <<1>>, len |-> 3, fd |-> TRUE],
   [type |-> "SET", pay |-> <<1, 2, 1>>, len |-> 5, fd |-> FALSE],
   [type |-> "SET", pay |-> <<3>>, len |-> 3, fd |-> FALSE],
   [type |-> "SET", pay |-> <<2, NUL, 2>>, len |-> 5, fd |-> FALSE],
   [type |-> "GET", pay |-> << >>, len |-> 2, fd |-> FALSE],
   [type |-> "COMMIT", pay |-> << >>, len |-> 2, fd |-> FALSE],
   [type |-> "OTHER", pay |-> << >>, len |-> 2, fd |-> TRUE],
   [type |-> "OTHER", pay |-> <<1>>, len |-> 2, fd |-> FALSE],
   [type |-> "OTHER", pay |-> <<1>>, len |-> 4, fd |-> FALSE],
   [type |-> "OTHER", pay |-> <<1>>, len |-> 6, fd |-> FALSE]}

MCDeltas == {-3, 0, 1}
MCSlack == {-1, 0, 1}
MCPlaces == {-2, -1, 0, 1, 3}

services == <<lpkg, ctl, control, daemon, relay, toml>>
io == <<wire, input, picture>>
parts == <<services, io, part>>

\* The state of a part that this behaviour is not about.
CtlRests ==
  /\ CtlInit /\ asks = [c \in Callers |-> [cmd |-> "list", name |-> ""]]
  /\ svc = [s \in Loaded |-> "stopped"] /\ socket = "none"
RelayRests == RelayInit /\ stream = CHOOSE s \in Streams : TRUE
InputRests == InputInit /\ backend = "raw"
PictureRests == picture = CHOOSE p \in Shades : TRUE

\* Clients that have not connected yet are interchangeable, and so are those that
\* have not been accepted.
ConnectInOrder ==
  /\ \A p \in Fresh', q \in Peers : q > p => q \in Fresh'
  /\ \A p \in waiting \ waiting', q \in waiting : p <= q

\* So are callers of luna-init before the first of them calls.
CallInOrder ==
  LET first == CHOOSE c \in Callers : TRUE
  IN  caller[first].at = "start" => \A c \in Callers \ {first} : caller'[c] = caller[c]

\* So are request ids that are neither asked for nor run yet.
Occurring == {line[u].id : u \in Users} \cup {req.id} \cup {runs[i].id : i \in DOMAIN runs}
AskInOrder ==
  \A i \in Occurring' \ Occurring : \A j \in 1 .. i-1 : j \in Occurring'

Init ==
  /\ LpkgInit /\ ControlInit /\ DaemonInit /\ TomlInit /\ WireInit
  /\ part \in {"lpkg", "ai", "toml", "wire", "ctl", "control", "relay", "input", "paint"}
  /\ IF part = "ctl" THEN CtlInit ELSE CtlRests
  /\ IF part = "relay" THEN RelayInit ELSE RelayRests
  /\ IF part = "input" THEN InputInit ELSE InputRests
  /\ IF part = "paint" THEN PaintInit ELSE PictureRests

Next ==
  /\ UNCHANGED part
  /\ \/ part = "lpkg" /\ LpkgNext /\ UNCHANGED <<ctl, control, daemon, relay, toml, io>>
     \/ /\ part = "ctl" /\ CtlNext /\ CallInOrder
        /\ UNCHANGED <<lpkg, control, daemon, relay, toml, io>>
     \/ /\ part = "control" /\ ControlNext /\ AskInOrder
        /\ UNCHANGED <<lpkg, ctl, daemon, relay, toml, io>>
     \/ /\ part = "ai" /\ DaemonNext /\ UNCHANGED <<lpkg, ctl, control, relay, toml, io>>
        /\ ConnectInOrder
     \/ part = "relay" /\ RelayNext /\ UNCHANGED <<lpkg, ctl, control, daemon, toml, io>>
     \/ part = "toml" /\ TomlNext /\ UNCHANGED <<lpkg, ctl, control, daemon, relay, io>>
     \/ part = "wire" /\ WireNext /\ UNCHANGED <<services, input, picture>>
     \/ part = "input" /\ InputNext /\ UNCHANGED <<services, wire, picture>>
     \/ part = "paint" /\ PaintNext /\ UNCHANGED <<services, wire, input>>

Spec == Init /\ [][Next]_parts /\ CtlFair /\ ControlFair
=============================================================================
