----------------------------- MODULE ToolsProofs ----------------------------
(***************************************************************************)
(* The two command line tools, lpkg and luna-init-ctl: the files lpkg has  *)
(* installed stay listed in its database, and luna-init-ctl's callers are  *)
(* told what luna-init did, for any archives, any callers and any order    *)
(* of commands, faults and crashes.  And the sort of depgraph.c, for       *)
(* graphs of any size.  The three share no state.                          *)
(***************************************************************************)
EXTENDS Lpkg, Ctl, KahnSort, FiniteSetTheorems, WellFoundedInduction, TLAPS

\* A leaf that names no prover goes to SMT, to Zenon and to SMT once more, the
\* solver's encoding being limited by the clock.
USE SMTT(30), Zenon, SMTT(60)

(* luna-init-ctl and the control socket, module Ctl.                       *)

CtlSpec == CtlInit /\ [][CtlNext]_ctl

Queued(c) == \E k \in DOMAIN backlog : backlog[k] = c

CtlTypes ==
  /\ caller \in [Callers -> [at : {"start", "connected", "sent", "done"},
                             exit : {"none", "0", "1", "255", "SIGPIPE"}]]
  /\ backlog \in Seq(Callers)
  /\ \A j, k \in DOMAIN backlog : backlog[j] = backlog[k] => j = k
  /\ serving \in Callers \cup {NoCaller}
  /\ closed \subseteq Callers
  /\ done \in [Callers -> Seq({"ok", "error"})]
  /\ replies = done

\* The handlers that are left are those of the request being served.
HandlersLeft ==
  IF serving = NoCaller THEN handlers = << >>
  ELSE \/ handlers = << >>
       \/ asks[serving].cmd # "restart" /\ handlers = <<asks[serving].cmd>>
       \/ asks[serving].cmd = "restart"
            /\ handlers \in {<<"start">>, <<"stop", "start">>}

\* A caller is queued, then served or cut off, then closed; what was done for
\* it was done while it was served, after its request had been written.
Sequenced(c) ==
  /\ (caller[c].at = "done") = (caller[c].exit # "none")
  /\ Queued(c) => caller[c].at \in {"connected", "sent"} /\ c \notin closed
                    /\ c # serving
  /\ c = serving => c \notin closed /\ caller[c].at \in {"sent", "done"}
  /\ caller[c].at = "start" => c \notin closed
  /\ c \notin closed /\ c # serving => done[c] = << >>
  /\ caller[c].at = "connected" => done[c] = << >>
  /\ caller[c].exit \in {"SIGPIPE", "255"} => c \in closed /\ done[c] = << >>
  /\ caller[c].exit = "1" /\ done[c] = << >> => c # serving

\* A request with one handler has one answer, and its caller's exit code is
\* that answer.
OneAnswer(c) ==
  asks[c].cmd # "restart" =>
    /\ done[c] \in {<< >>, <<"ok">>, <<"error">>}
    /\ c = serving /\ done[c] # << >> => handlers = << >>
    /\ caller[c].exit = "0" => done[c] = <<"ok">>
    /\ caller[c].exit = "1" => done[c] \in {<< >>, <<"error">>}

CtlInv ==
  /\ CtlTypes /\ HandlersLeft
  /\ \A c \in Callers : Sequenced(c) /\ OneAnswer(c)

\* At first nobody has called.
LEMMA CtlStarts == CtlInit => CtlInv
  BY CtlAssumption
  DEF CtlInit, CtlInv, CtlTypes, HandlersLeft, Sequenced, OneAnswer, Queued

\* A caller that goes on has not exited.
LEMMA GoesOn ==
  ASSUME CtlTypes, NEW c \in Callers, caller[c].exit = "none",
         NEW w, Goes(c, w)
  PROVE  caller' = [caller EXCEPT ![c] = [at |-> w, exit |-> "none"]]
<1>1. [caller[c] EXCEPT !.at = w] = [at |-> w, exit |-> "none"]
  BY DEF CtlTypes
<1> QED
  BY <1>1, Zenon DEF Goes

\* A step of one caller: what luna-init has done and does stays.
LEMMA CallerMoves ==
  ASSUME CtlInv, NEW c \in Callers,
         NEW to \in [at : {"start", "connected", "sent", "done"},
                    exit : {"none", "0", "1", "255", "SIGPIPE"}],
         caller' = [caller EXCEPT ![c] = to],
         UNCHANGED <<asks, serving, handlers, replies, closed, done>>,
         backlog' \in {backlog, Append(backlog, c)},
         backlog' # backlog => ~Queued(c),
         Sequenced(c)', OneAnswer(c)'
  PROVE  CtlInv'
<1>1. \A d \in Callers : caller'[d] = IF d = c THEN to ELSE caller[d]
  BY DEF CtlInv, CtlTypes
<1>2. backlog \in Seq(Callers)
  BY DEF CtlInv, CtlTypes
<1>3. /\ backlog' \in Seq(Callers)
      /\ \A j, k \in DOMAIN backlog' : backlog'[j] = backlog'[k] => j = k
      /\ \A d \in Callers \ {c} : Queued(d)' = Queued(d)
  <2>1. CASE backlog' = backlog
    BY <1>2, <2>1 DEF CtlInv, CtlTypes, Queued
  <2>2. CASE backlog' = Append(backlog, c) /\ ~Queued(c)
    <3> DEFINE n == Len(backlog)
    <3>1. /\ n \in Nat /\ DOMAIN backlog = 1 .. n /\ DOMAIN backlog' = 1 .. n + 1
          /\ \A k \in 1 .. n : backlog'[k] = backlog[k]
          /\ backlog'[n + 1] = c
      BY <1>2, <2>2
    <3> HIDE DEF n
    <3>2. \A k \in 1 .. n : backlog[k] # c
      BY <2>2, <3>1 DEF Queued
    <3>3. \A j, k \in DOMAIN backlog' : backlog'[j] = backlog'[k] => j = k
      BY <3>1, <3>2 DEF CtlInv, CtlTypes
    <3>4. ASSUME NEW d \in Callers \ {c} PROVE Queued(d)' = Queued(d)
      BY <3>1 DEF Queued
    <3> QED
      BY <1>2, <2>2, <3>3, <3>4
  <2> QED
    BY <2>1, <2>2
<1>4. CtlTypes' /\ HandlersLeft'
  BY <1>3 DEF CtlInv, CtlTypes, HandlersLeft
<1>5. ASSUME NEW d \in Callers, d # c
      PROVE  Sequenced(d)' /\ OneAnswer(d)'
  <2>1. Queued(d)' = Queued(d)
    BY <1>3, <1>5
  <2>2. caller'[d] = caller[d]
    BY <1>1, <1>5
  <2> QED
    BY <2>1, <2>2 DEF CtlInv, Sequenced, OneAnswer
<1> QED
  BY <1>4, <1>5 DEF CtlInv

\* luna-init-ctl's own steps: connect, write, read.
LEMMA CallerSteps ==
  ASSUME CtlInv, NEW c \in Callers, Call(c) \/ WriteRequest(c) \/ ReadReply(c)
  PROVE  CtlInv'
<1>0. CtlTypes /\ Sequenced(c) /\ OneAnswer(c)
  BY DEF CtlInv
<1>1. CASE Call(c)
  <2>1. caller[c].at = "start" /\ caller[c].exit = "none" /\ ~Queued(c)
          /\ c \notin closed /\ c # serving /\ done[c] = << >>
    BY <1>0, <1>1 DEF Call, Sequenced
  <2>2. UNCHANGED <<asks, serving, handlers, replies, closed, done>>
    BY <1>1 DEF Call
  <2>3. CASE /\ caller' = [caller EXCEPT ![c] = [at |-> "done", exit |-> "1"]]
             /\ backlog' = backlog
    <3>1. caller'[c] = [at |-> "done", exit |-> "1"] /\ ~Queued(c)'
      BY <1>0, <2>1, <2>3 DEF CtlTypes, Queued
    <3>2. Sequenced(c)' /\ OneAnswer(c)'
      BY <2>1, <2>2, <3>1 DEF Sequenced, OneAnswer
    <3> QED
      BY <2>2, <2>3, <3>2, CallerMoves, Zenon
  <2>4. CASE /\ Goes(c, "connected")
             /\ backlog' = Append(backlog, c)
    <3>1. caller' = [caller EXCEPT ![c] = [at |-> "connected", exit |-> "none"]]
      BY <1>0, <2>1, <2>4, GoesOn
    <3>2. caller'[c] = [at |-> "connected", exit |-> "none"]
      BY <1>0, <3>1 DEF CtlTypes
    <3>3. Sequenced(c)' /\ OneAnswer(c)'
      BY <2>1, <2>2, <3>2 DEF Sequenced, OneAnswer
    <3> QED
      BY <2>1, <2>2, <2>4, <3>1, <3>3, CallerMoves, Zenon
  <2> QED
    BY <1>1, <2>3, <2>4 DEF Call, Exits
<1>2. CASE WriteRequest(c)
  <2>1. UNCHANGED <<asks, backlog, serving, handlers, replies, closed, done>>
    BY <1>2 DEF WriteRequest
  <2>2. caller[c].at = "connected" /\ caller[c].exit = "none" /\ c # serving
          /\ done[c] = << >> /\ Queued(c)' = Queued(c)
    BY <1>0, <1>2, <2>1 DEF WriteRequest, Sequenced, Queued
  <2>3. CASE /\ c \in closed
             /\ caller' = [caller EXCEPT ![c] = [at |-> "done", exit |-> "SIGPIPE"]]
    <3>1. caller'[c] = [at |-> "done", exit |-> "SIGPIPE"] /\ ~Queued(c)'
      BY <1>0, <2>2, <2>3 DEF CtlTypes, Sequenced
    <3>2. Sequenced(c)' /\ OneAnswer(c)'
      BY <2>1, <2>2, <2>3, <3>1 DEF Sequenced, OneAnswer
    <3> QED
      BY <2>1, <2>3, <3>2, CallerMoves, Zenon
  <2>4. CASE /\ c \notin closed
             /\ Goes(c, "sent")
    <3>1. caller' = [caller EXCEPT ![c] = [at |-> "sent", exit |-> "none"]]
      BY <1>0, <2>2, <2>4, GoesOn
    <3>2. caller'[c] = [at |-> "sent", exit |-> "none"]
      BY <1>0, <3>1 DEF CtlTypes
    <3>3. Sequenced(c)' /\ OneAnswer(c)'
      BY <2>1, <2>2, <2>4, <3>2 DEF Sequenced, OneAnswer
    <3> QED
      BY <2>1, <3>1, <3>3, CallerMoves, Zenon
  <2> QED
    BY <1>2, <2>3, <2>4 DEF WriteRequest, Exits
<1>3. CASE ReadReply(c)
  <2> DEFINE code == ExitCode(done[c])
  <2>1. UNCHANGED <<asks, backlog, serving, handlers, replies, closed, done>>
    BY <1>3 DEF ReadReply
  <2>2. caller' = [caller EXCEPT ![c] = [at |-> "done", exit |-> code]]
    BY <1>0, <1>3 DEF ReadReply, Exits, CtlTypes
  <2>3. /\ code \in {"0", "1", "255"}
        /\ (code = "255") = (done[c] = << >>)
        /\ done[c] = <<"ok">> => code = "0"
        /\ done[c] = <<"error">> => code = "1"
    BY DEF ExitCode, Range
  <2> HIDE DEF code
  <2>4. done[c] = << >> => c \in closed
    BY <1>0, <1>3 DEF ReadReply, CtlTypes
  <2>5. ~Queued(c)' /\ caller[c].at = "sent"
    BY <1>0, <1>3, <2>1 DEF ReadReply, CtlTypes, Sequenced, Queued
  <2>6. caller'[c] = [at |-> "done", exit |-> code]
    BY <1>0, <2>2 DEF CtlTypes
  <2>7. Sequenced(c)'
    BY <1>0, <2>1, <2>3, <2>4, <2>5, <2>6 DEF Sequenced
  <2>8. OneAnswer(c)'
    BY <1>0, <2>1, <2>3, <2>6 DEF OneAnswer
  <2> QED
    BY <2>1, <2>2, <2>3, <2>7, <2>8, CallerMoves, ZenonT(60)
<1> QED
  BY <1>1, <1>2, <1>3

\* The first of the queue leaves it, and is served or cut off.
LEMMA AcceptSteps ==
  ASSUME CtlInv, CtlAccept
  PROVE  CtlInv'
<1> DEFINE n == Len(backlog)
<1>1. /\ backlog \in Seq(Callers) /\ backlog # << >> /\ backlog' = Tail(backlog)
      /\ serving = NoCaller /\ UNCHANGED <<caller, asks, replies, done>>
  BY DEF CtlInv, CtlTypes, CtlAccept
<1>2. /\ n \in Nat \ {0} /\ DOMAIN backlog = 1 .. n /\ DOMAIN backlog' = 1 .. n - 1
      /\ \A k \in 1 .. n - 1 : backlog'[k] = backlog[k + 1]
  BY <1>1
<1>3. backlog' \in Seq(Callers) /\ \E b \in Callers : b = backlog[1]
  BY <1>1
<1> HIDE DEF n
<1> PICK b \in Callers : b = backlog[1]
  BY <1>3
<1>4. /\ \A j, k \in DOMAIN backlog' : backlog'[j] = backlog'[k] => j = k
      /\ \A k \in DOMAIN backlog' : backlog'[k] # b
  <2>1. \A j, k \in 1 .. n : backlog[j] = backlog[k] => j = k
    BY <1>2, Zenon DEF CtlInv, CtlTypes
  <2>2. ASSUME NEW j \in 1 .. n - 1, NEW k \in 1 .. n - 1,
               backlog'[j] = backlog'[k]
        PROVE  j = k
    <3>1. backlog[j + 1] = backlog[k + 1] /\ j + 1 \in 1 .. n /\ k + 1 \in 1 .. n
      BY <1>2, <2>2
    <3>2. j + 1 = k + 1
      BY <2>1, <3>1
    <3> QED
      BY <3>2
  <2>3. ASSUME NEW k \in 1 .. n - 1 PROVE backlog'[k] # b
    <3>1. backlog'[k] = backlog[k + 1] /\ k + 1 \in 1 .. n /\ k + 1 # 1
            /\ 1 \in 1 .. n
      BY <1>2
    <3> QED
      BY <2>1, <3>1
  <2> QED
    BY <1>2, <2>2, <2>3
<1>5. Queued(b) /\ ~Queued(b)'
  <2>1. 1 \in DOMAIN backlog
    BY <1>2
  <2>2. Queued(b)
    BY <2>1 DEF Queued
  <2>3. ~Queued(b)'
    BY <1>4 DEF Queued
  <2> QED
    BY <2>2, <2>3
<1>6. ASSUME NEW d \in Callers, Queued(d)'
      PROVE  Queued(d)
  BY <1>2, <1>6 DEF Queued
<1>7. Sequenced(b) /\ OneAnswer(b) /\ done[b] = << >>
        /\ caller[b].at \in {"connected", "sent"} /\ b # NoCaller
  BY <1>1, <1>3, <1>5, CtlAssumption DEF CtlInv, Sequenced
<1>8. \/ /\ caller[b].at = "connected" /\ closed' = closed \cup {b}
         /\ UNCHANGED <<serving, handlers>>
      \/ /\ caller[b].at = "sent" /\ serving' = b
         /\ handlers' = HandlersOf(asks[b]) /\ closed' = closed
  BY <1>7 DEF CtlAccept
<1>9. CtlTypes'
  BY <1>1, <1>3, <1>4, <1>8 DEF CtlInv, CtlTypes
<1>10. HandlersLeft'
  BY <1>1, <1>7, <1>8 DEF CtlInv, HandlersLeft, HandlersOf
<1>11. ASSUME NEW d \in Callers
       PROVE  Sequenced(d)' /\ OneAnswer(d)'
  <2>1. Sequenced(d) /\ OneAnswer(d) /\ d # NoCaller
    BY CtlAssumption DEF CtlInv
  <2>2. Sequenced(d)'
    <3>1. CASE d = b
      <4>1. ~Queued(b)' /\ caller'[b] = caller[b] /\ done'[b] = << >>
              /\ caller[b].at \in {"connected", "sent"} /\ caller[b].exit = "none"
              /\ b \notin closed
        BY <1>1, <1>5, <1>7 DEF Sequenced
      <4> QED
        BY <1>1, <1>7, <1>8, <3>1, <4>1 DEF Sequenced
    <3>2. CASE d # b
      BY <1>1, <1>6, <1>8, <2>1, <3>2 DEF Sequenced
    <3> QED
      BY <3>1, <3>2
  <2>3. OneAnswer(d)'
    BY <1>1, <1>7, <1>8, <2>1 DEF OneAnswer
  <2> QED
    BY <2>2, <2>3
<1> QED
  BY <1>9, <1>10, <1>11 DEF CtlInv

\* A handler of the request being served answers.
LEMMA AnswerSteps ==
  ASSUME CtlInv, handlers # << >>, NEW ok, Answer(ok)
  PROVE  CtlInv'
<1> DEFINE c == serving
           l == OkField(ok)
<1>1. l \in {"ok", "error"}
  BY DEF OkField
<1>2. /\ UNCHANGED <<caller, asks, backlog, serving, closed>>
      /\ handlers' = Tail(handlers)
      /\ done' = [done EXCEPT ![c] = Append(@, l)]
      /\ replies' = [replies EXCEPT ![c] = Append(@, l)]
  BY DEF Answer
<1> HIDE DEF l
<1>3. c \in Callers /\ c # NoCaller
  BY CtlAssumption DEF CtlInv, CtlTypes, HandlersLeft
<1>4. \A d \in Callers : done'[d] = IF d = c THEN Append(done[c], l) ELSE done[d]
  BY <1>2 DEF CtlInv, CtlTypes
<1>5. CtlTypes'
  <2>1. Append(done[c], l) \in Seq({"ok", "error"})
    BY <1>1, <1>3 DEF CtlInv, CtlTypes
  <2>2. done' \in [Callers -> Seq({"ok", "error"})] /\ replies' = done'
    BY <1>2, <2>1, Zenon DEF CtlInv, CtlTypes
  <2> QED
    BY <1>2, <2>2 DEF CtlInv, CtlTypes
<1>6. \/ asks[c].cmd # "restart" /\ handlers' = << >>
      \/ asks[c].cmd = "restart" /\ handlers' \in {<< >>, <<"start">>}
  <2>1. \A x : Tail(<<x>>) = << >>
    OBVIOUS
  <2>2. Tail(<<"stop", "start">>) = <<"start">>
    OBVIOUS
  <2> QED
    BY <1>2, <1>3, <2>1, <2>2, Zenon DEF CtlInv, HandlersLeft
<1>7. HandlersLeft'
  BY <1>2, <1>3, <1>6 DEF HandlersLeft
<1>8. Append(done[c], l) # << >> /\ (done[c] = << >> => Append(done[c], l) = <<l>>)
  <2>1. done[c] \in Seq({"ok", "error"})
    BY <1>3 DEF CtlInv, CtlTypes
  <2>2. Append(done[c], l) # << >>
    BY <1>1, <2>1
  <2>3. Append(<< >>, l) = <<l>>
    OBVIOUS
  <2> QED
    BY <2>2, <2>3, Zenon
<1>9. Sequenced(c) /\ OneAnswer(c)
  BY <1>3 DEF CtlInv
<1>10. ASSUME NEW d \in Callers
       PROVE  Sequenced(d)' /\ OneAnswer(d)'
  <2>1. Sequenced(d) /\ OneAnswer(d)
    BY DEF CtlInv
  <2>2. Queued(d)' = Queued(d)
    BY <1>2 DEF Queued
  <2>3. CASE d # c
    BY <1>2, <1>4, <2>1, <2>2, <2>3 DEF Sequenced, OneAnswer
  <2>4. CASE d = c
    <3>1. Sequenced(c)'
      BY <1>2, <1>3, <1>4, <1>8, <1>9, <2>2, <2>4 DEF Sequenced
    <3>2. asks[c].cmd # "restart" => done[c] = << >>
      BY <1>9 DEF OneAnswer
    <3>3. caller[c].exit # "0" \/ asks[c].cmd = "restart"
      <4>1. << >> # <<"ok">>
        OBVIOUS
      <4> QED
        BY <1>9, <3>2, <4>1, Zenon DEF OneAnswer
    <3>4. caller[c].exit # "1" \/ asks[c].cmd = "restart"
      BY <1>9, <3>2 DEF Sequenced
    <3>5. OneAnswer(c)'
      BY <1>1, <1>2, <1>3, <1>4, <1>6, <1>8, <3>2, <3>3, <3>4 DEF OneAnswer
    <3> QED
      BY <1>2, <2>4, <3>1, <3>5
  <2> QED
    BY <2>3, <2>4
<1> QED
  BY <1>5, <1>7, <1>10 DEF CtlInv

\* luna-init closes the connection after its answer.
LEMMA CloseSteps ==
  ASSUME CtlInv, CtlClose
  PROVE  CtlInv'
<1> DEFINE c == serving
<1>1. /\ UNCHANGED <<caller, asks, backlog, handlers, replies, done>>
      /\ c # NoCaller /\ handlers = << >> /\ closed' = closed \cup {c}
      /\ serving' = NoCaller
  BY DEF CtlClose
<1>2. c \in Callers /\ Sequenced(c)
  BY <1>1 DEF CtlInv, CtlTypes
<1>3. CtlTypes' /\ HandlersLeft'
  BY <1>1, <1>2 DEF CtlInv, CtlTypes, HandlersLeft
<1>4. ASSUME NEW d \in Callers
      PROVE  Sequenced(d)' /\ OneAnswer(d)'
  <2>1. Sequenced(d) /\ OneAnswer(d) /\ d # NoCaller /\ Queued(d)' = Queued(d)
    BY <1>1, CtlAssumption DEF CtlInv, Queued
  <2>2. Sequenced(d)'
    BY <1>1, <1>2, <2>1 DEF Sequenced
  <2>3. OneAnswer(d)'
    BY <1>1, <2>1 DEF OneAnswer
  <2> QED
    BY <2>2, <2>3
<1> QED
  BY <1>3, <1>4 DEF CtlInv

\* luna-init-ctl tells its caller what happened (ctl_server_accept, dispatch,
\* send_command), for any number of callers, services and requests.
THEOREM CtlTellsTheTruth == CtlSpec => []CallersAreToldTheTruth
<1>1. CtlInv /\ [CtlNext]_ctl => CtlInv'
  <2> SUFFICES ASSUME CtlInv, [CtlNext]_ctl PROVE CtlInv'
    OBVIOUS
  <2>1. CASE \E c \in Callers : Call(c) \/ WriteRequest(c) \/ ReadReply(c)
    BY <2>1, CallerSteps
  <2>2. CASE CtlAccept
    BY <2>2, AcceptSteps
  <2>3. CASE HandleReport \/ HandleStart \/ HandleStop \/ HandleReload
               \/ HandleShutdown
    <3>1. handlers # << >> /\ \E ok : Answer(ok)
      BY <2>3, ZenonT(60) DEF HandleReport, HandleStart, HandleStop, HandleReload,
                  HandleShutdown, Handling
    <3> QED
      BY <3>1, AnswerSteps
  <2>4. CASE CtlClose
    BY <2>4, CloseSteps
  <2>5. CASE UNCHANGED <<caller, asks, backlog, serving, handlers, replies,
                         closed, done>>
    BY <2>5 DEF CtlInv, CtlTypes, HandlersLeft, Sequenced, OneAnswer, Queued
  <2>6. (\E s \in Loaded : ServiceMoves(s)) \/ UNCHANGED ctl
          => UNCHANGED <<caller, asks, backlog, serving, handlers, replies,
                         closed, done>>
    BY DEF ServiceMoves, ctl
  <2> QED
    BY <2>1, <2>2, <2>3, <2>4, <2>5, <2>6 DEF CtlNext, LunaInit
<1>2. CtlInv => CallersAreToldTheTruth
  BY DEF CtlInv, CtlTypes, Sequenced, OneAnswer, CallersAreToldTheTruth
<1> QED
  BY <1>1, <1>2, CtlStarts, PTL DEF CtlSpec

-----------------------------------------------------------------------------

(* lpkg's database and the files on disk, module Lpkg.                     *)

LpkgSpec == LpkgInit /\ [][LpkgNext]_lpkg

Packages == [name : {DbName(a) : a \in Archives}, files : Seq(Paths)]

Unique(pkgs) ==
  \A i, j \in DOMAIN pkgs : pkgs[i].name = pkgs[j].name => i = j

\* The names of the table in memory, and of the file, which has the first of
\* them while it is written and the same ones until it is.
DbInv ==
  /\ db \in Seq(Packages) /\ Unique(db) /\ Len(db) <= DbMax
  /\ mem \in Seq(Packages) /\ Unique(mem) /\ Len(mem) <= DbMax
  /\ step # "idle" => target \in Archives
  /\ todo \in Seq(Paths)
  /\ step \in {"update", "fetch", "verify", "extract", "record", "find", "unlink"} => mem = db
  /\ step = "save" => Len(db) <= Len(mem) /\ \A i \in DOMAIN db : db[i] = mem[i]

\* The files of all pkgs but the one with this name.
ListedBut(pkgs, n) ==
  UNION {Range(pkgs[i].files) : i \in {k \in DOMAIN pkgs : pkgs[k].name # n}}

\* Where the files are listed, or still held, at each step of a command.
FilesInv == exact =>
  /\ step \in {"idle", "update", "fetch", "verify", "find"} => disk \subseteq Listed(db)
  /\ step \in {"extract", "record"} => disk \subseteq Listed(mem) \cup Range(target.files)
  /\ step = "extract" => Range(todo) \subseteq Range(target.files)
  /\ step = "unlink" => disk \subseteq ListedBut(mem, DbName(target)) \cup Range(todo)
  /\ step \in {"open", "save"} => disk \subseteq Listed(mem)

LpkgInv == DbInv /\ FilesInv

\* At first nothing is installed.
LEMMA LpkgStarts == LpkgInit => LpkgInv
<1> SUFFICES ASSUME LpkgInit PROVE LpkgInv
  OBVIOUS
<1>1. DbInv
  BY LpkgAssumption DEF LpkgInit, DbInv, Unique
<1>2. FilesInv
  BY DEF LpkgInit, FilesInv
<1> QED
  BY <1>1, <1>2 DEF LpkgInv

\* The first n elements of a sequence.
LEMMA Beginning ==
  ASSUME NEW T, NEW s \in Seq(T), NEW n \in 0 .. Len(s)
  PROVE  /\ SubSeq(s, 1, n) \in Seq(T) /\ Len(SubSeq(s, 1, n)) = n
         /\ \A k \in 1 .. n : SubSeq(s, 1, n)[k] = s[k]
  OBVIOUS

\* db_load_installed reads all of a file that is within the table's size.
LEMMA LoadsAll == ASSUME DbInv PROVE DbLoad = db
<1> PICK n \in Nat : n = Len(db)
  BY DEF DbInv
<1>1. db \in Seq(Packages) /\ n <= DbMax /\ DOMAIN db = 1 .. n
  BY DEF DbInv
<1>2. DbLoad = SubSeq(db, 1, n)
  BY <1>1, LpkgAssumption DEF DbLoad
<1> PICK q : q = SubSeq(db, 1, n)
  BY Zenon
<1>4. q \in Seq(Packages) /\ Len(q) = n /\ \A i \in 1 .. n : q[i] = db[i]
  BY <1>1, Beginning
<1>5. q = db
  BY <1>1, <1>4
<1> QED
  BY <1>2, <1>5

\* A command that gives up leaves the database as it is.
LEMMA GivesUp ==
  ASSUME LpkgInv, NEW loses \in BOOLEAN, GiveUp(loses),
         loses \/ step \in {"fetch", "verify", "find"}
  PROVE  LpkgInv'
<1>1. /\ step' = "idle" /\ todo' = << >> /\ UNCHANGED <<disk, db, index, target, mem, ran>>
      /\ exact' => exact /\ ~loses
  BY ZenonT(60) DEF GiveUp
<1>2. DbInv'
  BY <1>1 DEF LpkgInv, DbInv, Unique
<1>3. FilesInv'
  BY <1>1 DEF LpkgInv, FilesInv, Listed
<1> QED
  BY <1>2, <1>3 DEF LpkgInv

\* A command that starts reads the database and touches no file.
LEMMA BeginKeeps ==
  ASSUME LpkgInv, NEW first \in {"update", "fetch", "verify", "find"},
         NEW a \in Archives, Begin(first, a)
  PROVE  LpkgInv'
<1>1. /\ step = "idle" /\ step' = first /\ target' = a /\ mem' = db
      /\ UNCHANGED <<disk, db, todo, exact>>
  BY LoadsAll DEF Begin, LpkgInv
<1>2. DbInv'
  BY <1>1 DEF LpkgInv, DbInv, Unique
<1>3. FilesInv'
  BY <1>1 DEF LpkgInv, FilesInv, Listed
<1> QED
  BY <1>2, <1>3 DEF LpkgInv

\* What comes before the archive is extracted touches no file either.
LEMMA UpdateFetchVerifyKeep ==
  ASSUME LpkgInv, Update \/ Fetch \/ Verify
  PROVE  LpkgInv'
<1>1. CASE Update
  <2>1. /\ step = "update" /\ step' = "idle"
        /\ UNCHANGED <<disk, db, target, mem, todo, exact>>
    BY <1>1 DEF Update
  <2>2. DbInv'
    BY <2>1 DEF LpkgInv, DbInv, Unique
  <2>3. FilesInv'
    BY <2>1 DEF LpkgInv, FilesInv, Listed
  <2> QED
    BY <2>2, <2>3 DEF LpkgInv
<1>2. CASE Fetch
  <2>0. step = "fetch"
    BY <1>2 DEF Fetch
  <2>1. CASE Goto("verify")
    <3>1. DbInv'
      BY <2>0, <2>1 DEF Goto, LpkgInv, DbInv, Unique
    <3>2. FilesInv'
      BY <2>0, <2>1 DEF Goto, LpkgInv, FilesInv, Listed
    <3> QED
      BY <3>1, <3>2 DEF LpkgInv
  <2>2. CASE GiveUp(FALSE)
    BY <2>0, <2>2, GivesUp, Zenon
  <2> QED
    BY <1>2, <2>1, <2>2, Zenon DEF Fetch
<1>3. CASE Verify
  <2>0. step = "verify"
    BY <1>3 DEF Verify
  <2>1. CASE /\ step' = "extract" /\ todo' = target.files
             /\ UNCHANGED <<disk, db, index, target, mem, ran, exact>>
    <3>0. target \in Archives /\ target.files \in Seq(Paths) /\ mem = db
      BY <2>0, LpkgAssumption DEF LpkgInv, DbInv
    <3>1. DbInv'
      BY <2>0, <2>1, <3>0 DEF LpkgInv, DbInv, Unique
    <3>2. FilesInv'
      BY <2>0, <2>1, <3>0 DEF LpkgInv, FilesInv, Listed
    <3> QED
      BY <3>1, <3>2 DEF LpkgInv
  <2>2. CASE GiveUp(FALSE)
    BY <2>0, <2>2, GivesUp, Zenon
  <2> QED
    BY <1>3, <2>1, <2>2, Zenon DEF Verify
<1> QED
  BY <1>1, <1>2, <1>3

\* What a list of files holds is its first and what the rest of it holds.
LEMMA FirstAndRest ==
  ASSUME NEW files \in Seq(Paths), files # << >>
  PROVE  /\ Tail(files) \in Seq(Paths)
         /\ Range(files) = {files[1]} \cup Range(Tail(files))
<1> PICK n \in Nat : n = Len(files)
  OBVIOUS
<1> PICK t : t = Tail(files)
  BY Zenon
<1>1. DOMAIN files = 1 .. n /\ n >= 1
  OBVIOUS
<1>2. t \in Seq(Paths) /\ Len(t) = n - 1 /\ \A k \in 1 .. Len(t) : t[k] = files[k + 1]
  BY ONLY files \in Seq(Paths), files # << >>, n = Len(files), t = Tail(files), SMTT(30), SMTT(60)
<1>3. DOMAIN t = 1 .. n - 1 /\ \A k \in 1 .. n - 1 : t[k] = files[k + 1]
  BY <1>2
<1>4. \A k \in 1 .. n : k = 1 \/ (k - 1 \in 1 .. n - 1 /\ (k - 1) + 1 = k)
  OBVIOUS
<1>5. 1 \in 1 .. n /\ \A k \in 1 .. n - 1 : k + 1 \in 1 .. n
  BY <1>1
<1>6. Range(files) = {files[1]} \cup Range(t)
  <2>1. ASSUME NEW k \in 1 .. n PROVE files[k] \in {files[1]} \cup Range(t)
    <3>1. CASE k = 1
      BY <3>1
    <3>2. CASE k # 1
      <4>1. k - 1 \in 1 .. n - 1 /\ t[k - 1] = files[k]
        BY <1>3, <1>4, <3>2
      <4> QED
        BY <1>3, <4>1, Zenon DEF Range
    <3> QED
      BY <3>1, <3>2
  <2>2. Range(files) \subseteq {files[1]} \cup Range(t)
    BY <1>1, <2>1 DEF Range
  <2>3. {files[1]} \cup Range(t) \subseteq Range(files)
    BY <1>1, <1>3, <1>5 DEF Range
  <2> QED
    BY <2>2, <2>3
<1> QED
  BY <1>2, <1>6

\* Extracting adds files of the archive only.
LEMMA ExtractKeeps ==
  ASSUME LpkgInv, Extract
  PROVE  LpkgInv'
<1>0. step = "extract" /\ target \in Archives /\ todo \in Seq(Paths)
  BY DEF Extract, LpkgInv, DbInv
<1>1. CASE /\ todo # << >>
           /\ disk' = disk \cup {todo[1]} /\ todo' = Tail(todo)
           /\ UNCHANGED <<db, index, step, target, mem, ran, exact>>
  <2>1. todo' \in Seq(Paths) /\ Range(todo) = {todo[1]} \cup Range(todo')
    BY <1>0, <1>1, FirstAndRest
  <2>2. DbInv'
    BY <1>0, <1>1, <2>1 DEF LpkgInv, DbInv, Unique
  <2>3. FilesInv'
    BY <1>0, <1>1, <2>1 DEF LpkgInv, FilesInv, Listed
  <2> QED
    BY <2>2, <2>3 DEF LpkgInv
<1>2. CASE Goto("record")
  <2>1. DbInv'
    BY <1>0, <1>2 DEF Goto, LpkgInv, DbInv, Unique
  <2>2. FilesInv'
    BY <1>0, <1>2 DEF Goto, LpkgInv, FilesInv, Listed
  <2> QED
    BY <2>1, <2>2 DEF LpkgInv
<1>3. CASE GiveUp(TRUE)
  BY <1>3, GivesUp, Zenon
<1> QED
  BY <1>1, <1>2, <1>3, ZenonT(60) DEF Extract

\* What it means that some package lists a file,
LEMMA InListed ==
  ASSUME NEW pkgs, NEW f
  PROVE  f \in Listed(pkgs) <=> \E i \in DOMAIN pkgs : f \in Range(pkgs[i].files)
BY DEF Listed

\* and that one other than n does.
LEMMA InListedBut ==
  ASSUME NEW pkgs, NEW n, NEW f
  PROVE  f \in ListedBut(pkgs, n) <=>
           \E i \in DOMAIN pkgs : pkgs[i].name # n /\ f \in Range(pkgs[i].files)
BY DEF ListedBut

\* The search stops at the first entry with the name: it is the only one.
LEMMA OneEntry ==
  ASSUME NEW pkgs \in Seq(Packages), Unique(pkgs), NEW n
  PROVE  IndexOf(pkgs, n) = {i \in DOMAIN pkgs : pkgs[i].name = n}
<1>1. \A i \in DOMAIN pkgs : i \in Nat /\ \A j \in 1 .. i - 1 : j \in DOMAIN pkgs /\ j # i
  OBVIOUS
<1> QED
  BY <1>1 DEF IndexOf, Unique

\* get_tar_file_list has all files of an archive that fits.
LEMMA TarLists ==
  ASSUME NEW a \in Archives
  PROVE  /\ TarFileList(a) \in Seq(Paths)
         /\ Len(a.files) <= FilesMax => Range(TarFileList(a)) = Range(a.files)
<1> PICK q : q = a.files
  OBVIOUS
<1> PICK m \in Nat : m = IF Len(q) < FilesMax THEN Len(q) ELSE FilesMax
  BY LpkgAssumption
<1>1. q \in Seq(Paths) /\ m <= Len(q) /\ (Len(q) <= FilesMax => m = Len(q))
  BY LpkgAssumption
<1>2. TarFileList(a) = SubSeq(q, 1, m)
  BY DEF TarFileList
<1> PICK t : t = SubSeq(q, 1, m)
  BY Zenon
<1>4. t \in Seq(Paths) /\ Len(t) = m /\ \A i \in 1 .. m : t[i] = q[i]
  BY <1>1, Beginning
<1>5. DOMAIN t = 1 .. m /\ \A i \in 1 .. m : t[i] = q[i]
  BY <1>4
<1>6. ASSUME Len(q) <= FilesMax PROVE Range(t) = Range(q)
  <2>1. DOMAIN q = 1 .. m
    BY <1>1, <1>6
  <2> QED
    BY <1>5, <2>1 DEF Range
<1> QED
  BY <1>2, <1>4, <1>6

\* The new entry lists what was extracted, unless too long or replacing another.
LEMMA RecordKeeps ==
  ASSUME LpkgInv, Record
  PROVE  LpkgInv'
<1> PICK x : x = DbName(target)
  OBVIOUS
<1> PICK e : e = Entry(target)
  OBVIOUS
<1> PICK found : found = IndexOf(mem, x)
  OBVIOUS
<1> PICK n \in Nat : n = Len(mem)
  BY DEF LpkgInv, DbInv
<1>0. /\ step = "record" /\ target \in Archives /\ mem \in Seq(Packages) /\ Unique(mem)
      /\ DOMAIN mem = 1 .. n /\ n <= DbMax
  BY DEF Record, LpkgInv, DbInv
<1>1. e \in Packages /\ e.name = x /\ e.files = TarFileList(target)
  BY <1>0, TarLists DEF Entry, Packages
<1>2. found = {i \in 1 .. n : mem[i].name = x}
  BY <1>0, OneEntry
<1>3. CASE GiveUp(TRUE)
  BY <1>3, GivesUp, Zenon
<1>4. CASE /\ found # {} \/ Len(mem) < DbMax
           /\ mem' = WithEntry(target) /\ step' = "open"
           /\ exact' = (/\ exact
                        /\ (UNION {Range(mem[i].files) : i \in found}) \ Range(TarFileList(target)) = {}
                        /\ Len(target.files) <= FilesMax)
           /\ UNCHANGED <<disk, db, index, target, todo, ran>>
  <2>1. mem' = [i \in 1 .. n + (IF found = {} THEN 1 ELSE 0) |->
                  IF i \in found \/ i = n + 1 THEN e ELSE mem[i]]
    BY <1>4 DEF WithEntry
  <2>2. PICK m \in Nat : /\ m = IF found = {} THEN n + 1 ELSE n
                        /\ mem' = [i \in 1 .. m |-> IF i \in found \/ i = n + 1 THEN e ELSE mem[i]]
    <3>1. CASE found = {}
      BY <2>1, <3>1
    <3>2. CASE found # {}
      <4>1. n + 0 = n
        OBVIOUS
      <4> QED
        BY <2>1, <3>2, <4>1
    <3> QED
      BY <3>1, <3>2
  <2>3. /\ mem' \in Seq(Packages) /\ Len(mem') = m /\ DOMAIN mem' = 1 .. m /\ m <= DbMax
    <3>1. \A i \in 1 .. m : (IF i \in found \/ i = n + 1 THEN e ELSE mem[i]) \in Packages
      <4>1. \A i \in 1 .. n : mem[i] \in Packages
        BY <1>0
      <4>2. \A i \in 1 .. m : i = n + 1 \/ i \in 1 .. n
        BY <2>2
      <4> QED
        BY <1>1, <4>1, <4>2
    <3>2. mem' \in [1 .. m -> Packages]
      BY <2>2, <3>1
    <3>3. m <= DbMax
      BY <1>0, <1>4, <2>2, LpkgAssumption
    <3> QED
      BY <3>2, <3>3
  <2>4. Unique(mem')
    <3>1. \A i \in 1 .. m : i = n + 1 \/ i \in 1 .. n
      BY <2>2
    <3>2. ASSUME NEW i \in 1 .. m, NEW j \in 1 .. m, mem'[i].name = mem'[j].name PROVE i = j
      <4>1. CASE found = {}
        <5>1. \A k \in 1 .. n : mem'[k] = mem[k] /\ mem'[k].name # x
          BY <1>2, <2>2, <4>1
        <5>2. m = n + 1 /\ mem'[n + 1].name = x
          BY <1>1, <2>2, <4>1
        <5> QED
          BY <1>0, <3>1, <3>2, <5>1, <5>2 DEF Unique
      <4>2. CASE found # {}
        <5>1. \A k \in 1 .. n : mem'[k].name = mem[k].name
          BY <1>1, <1>2, <2>2, <4>2
        <5>2. i \in DOMAIN mem /\ j \in DOMAIN mem /\ mem[i].name = mem[j].name
          BY <1>0, <2>2, <3>2, <4>2, <5>1, ZenonT(60)
        <5> QED
          BY <1>0, <5>2 DEF Unique
      <4> QED
        BY <4>1, <4>2
    <3> QED
      BY <2>3, <3>2 DEF Unique
  <2>5. DbInv'
    <3>1. Unique(db)'
      BY <1>4 DEF LpkgInv, DbInv, Unique
    <3>2. Unique(mem)'
      BY <2>4 DEF Unique
    <3> QED
      BY <1>0, <1>4, <2>3, <3>1, <3>2 DEF LpkgInv, DbInv
  <2>6. FilesInv'
    <3> SUFFICES ASSUME exact', NEW f \in disk PROVE f \in Listed(mem')
      BY <1>4, Zenon DEF FilesInv
    <3>1. /\ exact /\ Len(target.files) <= FilesMax
          /\ \A i \in found : Range(mem[i].files) \subseteq Range(e.files)
      <4>1. /\ exact /\ Len(target.files) <= FilesMax
            /\ (UNION {Range(mem[i].files) : i \in found}) \ Range(TarFileList(target)) = {}
        BY <1>4, Zenon
      <4>2. \A i \in found : Range(mem[i].files) \subseteq Range(TarFileList(target))
        <5>1. \A i \in found : \A p \in Range(mem[i].files) :
                p \in UNION {Range(mem[j].files) : j \in found}
          OBVIOUS
        <5>2. UNION {Range(mem[i].files) : i \in found} \subseteq Range(TarFileList(target))
          <6> DEFINE U == UNION {Range(mem[i].files) : i \in found}
          <6> DEFINE T == Range(TarFileList(target))
          <6>1. U \ T = {}
            BY <4>1
          <6> HIDE DEF U, T
          <6>2. U \subseteq T
            BY <6>1
          <6> QED
            BY <6>2 DEF U, T
        <5> QED
          BY ONLY <5>1, <5>2
      <4> QED
        BY <1>1, <4>1, <4>2
    <3>2. f \in Listed(mem) \/ f \in Range(target.files)
      BY <1>0, <3>1 DEF LpkgInv, FilesInv
    <3>3. ASSUME f \in Range(e.files) PROVE f \in Listed(mem')
      <4>1. \E i \in 1 .. m : mem'[i] = e
        <5>1. CASE found = {}
          BY <2>2, <5>1
        <5>2. CASE found # {}
          BY <1>2, <2>2, <5>2
        <5> QED
          BY <5>1, <5>2
      <4> QED
        BY <2>3, <3>3, <4>1, InListed
    <3>4. CASE f \in Range(target.files)
      BY <1>0, <1>1, <3>1, <3>3, <3>4, TarLists
    <3>5. CASE f \in Listed(mem)
      <4>1. PICK i \in 1 .. n : f \in Range(mem[i].files)
        BY <1>0, <3>5, InListed
      <4>2. CASE i \in found
        BY <3>1, <3>3, <4>1, <4>2
      <4>3. CASE i \notin found
        <5>1. i \in 1 .. m /\ mem'[i] = mem[i]
          BY <2>2, <4>3
        <5> QED
          BY <2>3, <4>1, <5>1, InListed
      <4> QED
        BY <4>2, <4>3
    <3> QED
      BY <3>2, <3>4, <3>5
  <2> QED
    BY <2>5, <2>6 DEF LpkgInv
<1> QED
  BY <1>3, <1>4, Zenon DEF Record

\* Removal looks the package up before it unlinks anything.
LEMMA FindKeeps ==
  ASSUME LpkgInv, FindEntry
  PROVE  LpkgInv'
<1>0. /\ step = "find" /\ mem = db /\ mem \in Seq(Packages) /\ Unique(mem)
  BY DEF FindEntry, LpkgInv, DbInv
<1>1. ASSUME NEW i \in IndexOf(mem, DbName(target)),
             todo' = mem[i].files, step' = "unlink",
             UNCHANGED <<disk, db, index, target, mem, ran, exact>>
      PROVE  LpkgInv'
  <2>1. i \in DOMAIN mem /\ mem[i].name = DbName(target) /\ mem[i] \in Packages
    BY <1>0 DEF IndexOf
  <2>2. todo' \in Seq(Paths)
    BY <1>1, <2>1 DEF Packages
  <2>3. DbInv'
    BY <1>0, <1>1, <2>2 DEF LpkgInv, DbInv, Unique
  <2>4. FilesInv'
    <3> SUFFICES ASSUME exact, NEW f \in disk
                 PROVE  f \in ListedBut(mem, DbName(target)) \/ f \in Range(mem[i].files)
      BY <1>1 DEF FilesInv, ListedBut, DbName
    <3>1. f \in Listed(mem)
      BY <1>0 DEF LpkgInv, FilesInv
    <3>2. PICK k \in DOMAIN mem : f \in Range(mem[k].files)
      BY <3>1, InListed
    <3>3. CASE mem[k].name = DbName(target)
      BY <1>0, <2>1, <3>2, <3>3 DEF Unique
    <3>4. CASE mem[k].name # DbName(target)
      BY <3>2, <3>4, InListedBut
    <3> QED
      BY <3>3, <3>4
  <2> QED
    BY <2>3, <2>4 DEF LpkgInv
<1>2. CASE GiveUp(FALSE)
  BY <1>0, <1>2, GivesUp, Zenon
<1> QED
  BY <1>1, <1>2, Zenon DEF FindEntry

\* The table without one entry has the others.
LEMMA WithoutOne ==
  ASSUME NEW pkgs \in Seq(Packages), Unique(pkgs), NEW idx \in DOMAIN pkgs,
         NEW q, q = Without(pkgs, idx)
  PROVE  /\ q \in Seq(Packages) /\ Len(q) <= Len(pkgs) /\ Unique(q)
         /\ ListedBut(pkgs, pkgs[idx].name) \subseteq Listed(q)
<1> PICK n \in Nat : n = Len(pkgs)
  OBVIOUS
<1>1. DOMAIN pkgs = 1 .. n /\ idx \in 1 .. n /\ \A i \in 1 .. n : pkgs[i] \in Packages
  OBVIOUS
<1>2. q = [i \in 1 .. n - 1 |-> IF i < idx THEN pkgs[i] ELSE pkgs[i + 1]]
  BY DEF Without
<1>3. \A i \in 1 .. n - 1 : i \in 1 .. n /\ i + 1 \in 1 .. n
  OBVIOUS
<1>4. q \in [1 .. n - 1 -> Packages]
  BY <1>1, <1>2, <1>3
<1>5. n - 1 \in Nat
  BY <1>1
<1>6. q \in Seq(Packages) /\ Len(q) = n - 1 /\ DOMAIN q = 1 .. n - 1
  BY <1>4, <1>5
<1>7. Unique(q)
  <2> SUFFICES ASSUME NEW i \in 1 .. n - 1, NEW j \in 1 .. n - 1, q[i].name = q[j].name
               PROVE  i = j
    BY <1>6 DEF Unique
  <2> PICK k \in 1 .. n : k = (IF i < idx THEN i ELSE i + 1) /\ q[i] = pkgs[k]
    BY <1>1, <1>2, <1>3
  <2> PICK l \in 1 .. n : l = (IF j < idx THEN j ELSE j + 1) /\ q[j] = pkgs[l]
    BY <1>1, <1>2, <1>3
  <2>1. k = l
    BY <1>1 DEF Unique
  <2> QED
    BY <1>1, <2>1
<1>8. ASSUME NEW f \in ListedBut(pkgs, pkgs[idx].name) PROVE f \in Listed(q)
  <2>1. PICK i \in 1 .. n : pkgs[i].name # pkgs[idx].name /\ f \in Range(pkgs[i].files)
    BY <1>1, <1>8, InListedBut
  <2>2. i # idx
    BY <2>1
  <2>3. CASE i < idx
    <3>1. i \in 1 .. n - 1 /\ q[i] = pkgs[i]
      BY <1>1, <1>2, <2>3
    <3> QED
      BY <1>6, <2>1, <3>1, InListed
  <2>4. CASE i > idx
    <3>1. i - 1 \in 1 .. n - 1 /\ ~(i - 1 < idx) /\ (i - 1) + 1 = i
      BY <1>1, <2>4
    <3>2. q[i - 1] = pkgs[i]
      BY <1>2, <3>1
    <3> QED
      BY <1>6, <2>1, <3>1, <3>2, InListed
  <2> QED
    BY <1>1, <2>2, <2>3, <2>4
<1> QED
  BY <1>6, <1>7, <1>8

\* Unlinking removes files of the package only, and then its entry.
LEMMA UnlinkKeeps ==
  ASSUME LpkgInv, Unlink
  PROVE  LpkgInv'
<1>0. /\ step = "unlink" /\ mem \in Seq(Packages) /\ Unique(mem) /\ todo \in Seq(Paths)
      /\ target \in Archives
      /\ exact => disk \subseteq ListedBut(mem, DbName(target)) \cup Range(todo)
  BY DEF Unlink, LpkgInv, DbInv, FilesInv
<1>1. CASE todo # << >>
  <2>1. /\ todo' = Tail(todo) /\ UNCHANGED <<db, step, target, mem>>
        /\ exact' => exact /\ disk' = disk \ {todo[1]}
    BY <1>1 DEF Unlink
  <2>2. todo' \in Seq(Paths) /\ Range(todo) = {todo[1]} \cup Range(todo')
    BY <1>0, <1>1, <2>1, FirstAndRest
  <2>3. DbInv'
    <3>1. DbInv
      BY ZenonT(60) DEF LpkgInv
    <3> QED
      BY ONLY <2>1, <2>2, <3>1, SMTT(30), SMTT(60) DEF DbInv, Unique
  <2>4. exact' => disk' \subseteq ListedBut(mem, DbName(target)) \cup Range(todo')
    BY <1>0, <2>1, <2>2
  <2>5. FilesInv'
    BY <1>0, <2>1, <2>4 DEF FilesInv, ListedBut, DbName
  <2> QED
    BY <2>3, <2>5 DEF LpkgInv
<1>2. CASE todo = << >>
  <2>1. RemoveEntry /\ step' = "open" /\ UNCHANGED <<disk, db, target, todo, exact>>
    BY <1>2 DEF Unlink
  <2>2. PICK idx \in IndexOf(mem, DbName(target)) : mem' = Without(mem, idx)
    BY <2>1 DEF RemoveEntry
  <2>3. idx \in DOMAIN mem /\ mem[idx].name = DbName(target)
    BY DEF IndexOf
  <2>4. /\ mem' \in Seq(Packages) /\ Len(mem') <= Len(mem) /\ Unique(mem')
        /\ ListedBut(mem, DbName(target)) \subseteq Listed(mem')
    BY <1>0, <2>2, <2>3, WithoutOne
  <2>5. DbInv'
    <3>1. Unique(db)'
      BY <2>1 DEF LpkgInv, DbInv, Unique
    <3>2. Unique(mem)'
      BY <2>4 DEF Unique
    <3>3. Len(mem') <= DbMax
      BY <1>0, <2>4, LpkgAssumption DEF LpkgInv, DbInv
    <3> QED
      BY <1>0, <2>1, <2>4, <3>1, <3>2, <3>3 DEF LpkgInv, DbInv
  <2>6. Range(todo) = {}
    BY <1>2 DEF Range
  <2>7. FilesInv'
    BY <1>0, <2>1, <2>4, <2>6 DEF FilesInv, Listed
  <2> QED
    BY <2>5, <2>7 DEF LpkgInv
<1> QED
  BY <1>1, <1>2

\* Writing the database back touches no other file.
LEMMA SaveKeeps ==
  ASSUME LpkgInv, SaveOpen \/ SaveEntry
  PROVE  LpkgInv'
<1>1. CASE SaveOpen
  <2>1. CASE /\ step = "open" /\ db' = << >> /\ step' = "save"
             /\ UNCHANGED <<disk, index, target, mem, todo, ran, exact>>
    <3>1. DbInv /\ FilesInv
      BY DEF LpkgInv
    <3>2. /\ db' \in Seq(Packages) /\ DOMAIN db' = {} /\ Len(db') = 0
          /\ mem' \in Seq(Packages) /\ Len(mem') \in Nat
      BY <2>1, <3>1 DEF DbInv
    <3>3. DbInv'
      BY <2>1, <3>1, <3>2, LpkgAssumption DEF DbInv, Unique
    <3>4. FilesInv'
      BY <2>1, <3>1 DEF FilesInv, Listed
    <3> QED
      BY <3>3, <3>4, Zenon DEF LpkgInv
  <2>2. CASE GiveUp(TRUE)
    BY <2>2, GivesUp, ZenonT(60)
  <2> QED
    BY <1>1, <2>1, <2>2, Zenon DEF SaveOpen
<1>2. CASE SaveEntry
  <2> PICK n \in Nat : n = Len(db)
    BY DEF LpkgInv, DbInv
  <2> PICK m \in Nat : m = Len(mem)
    BY DEF LpkgInv, DbInv
  <2>0. /\ step = "save" /\ UNCHANGED <<disk, target, mem, todo, exact>>
        /\ n <= m /\ m <= DbMax /\ DOMAIN db = 1 .. n /\ DOMAIN mem = 1 .. m
        /\ \A i \in 1 .. n : db[i] = mem[i]
        /\ db \in Seq(Packages) /\ mem \in Seq(Packages) /\ Unique(mem)
    BY <1>2 DEF SaveEntry, LpkgInv, DbInv
  <2>1. CASE n < m
    <3>1. db' = Append(db, mem[n + 1]) /\ step' = "save"
      BY <1>2, <2>0, <2>1 DEF SaveEntry
    <3>2. n + 1 \in 1 .. m /\ mem[n + 1] \in Packages
      BY <2>0, <2>1
    <3>3. /\ db' \in Seq(Packages) /\ Len(db') = n + 1 /\ DOMAIN db' = 1 .. n + 1
          /\ db'[n + 1] = mem[n + 1] /\ \A i \in 1 .. n : db'[i] = db[i]
      BY ONLY <2>0, <3>1, <3>2, n \in Nat, n = Len(db), SMTT(30), SMTT(60)
    <3>4. \A i \in 1 .. n + 1 : db'[i] = mem[i] /\ i \in 1 .. m
      BY <2>0, <2>1, <3>3
    <3>5. Unique(db)'
      BY <2>0, <3>3, <3>4 DEF Unique
    <3>6. n + 1 <= DbMax /\ n + 1 <= m
      BY <2>0, <2>1, LpkgAssumption
    <3>7. DbInv'
      BY <2>0, <3>1, <3>3, <3>4, <3>5, <3>6 DEF LpkgInv, DbInv, Unique
    <3>8. FilesInv'
      BY <2>0, <3>1 DEF LpkgInv, FilesInv, Listed
    <3> QED
      BY <3>7, <3>8 DEF LpkgInv
  <2>2. CASE n = m
    <3>1. step' = "idle" /\ db' = db
      BY <1>2, <2>0, <2>2 DEF SaveEntry
    <3>2. db = mem
      BY <2>0, <2>2
    <3>3. DbInv'
      BY <2>0, <3>1 DEF LpkgInv, DbInv, Unique
    <3>4. FilesInv'
      BY <2>0, <3>1, <3>2 DEF LpkgInv, FilesInv, Listed
    <3> QED
      BY <3>3, <3>4 DEF LpkgInv
  <2> QED
    BY <2>0, <2>1, <2>2
<1> QED
  BY <1>1, <1>2

\* A crash touches no file but the database, which it may cut short.
LEMMA CrashKeeps ==
  ASSUME LpkgInv, Crash
  PROVE  LpkgInv'
<1>0. /\ step' = "idle" /\ todo' = << >> /\ ~exact'
      /\ UNCHANGED <<disk, index, target, mem, ran>>
  BY DEF Crash
<1>1. FilesInv'
  BY <1>0 DEF FilesInv
<1>2. CASE UNCHANGED db
  <2>1. DbInv'
    BY <1>0, <1>2 DEF LpkgInv, DbInv, Unique
  <2> QED
    BY <1>1, <2>1 DEF LpkgInv
<1>3. ASSUME step = "save", Len(db) < Len(mem),
             NEW k \in 0 .. Len(mem[Len(db) + 1].files) - 1,
             db' = Append(db, [mem[Len(db) + 1] EXCEPT !.files = SubSeq(@, 1, k)])
      PROVE  LpkgInv'
  <2> PICK n \in Nat : n = Len(db)
    BY DEF LpkgInv, DbInv
  <2> PICK m \in Nat : m = Len(mem)
    BY DEF LpkgInv, DbInv
  <2>0. /\ n < m /\ m <= DbMax /\ DOMAIN db = 1 .. n /\ DOMAIN mem = 1 .. m
        /\ \A i \in 1 .. n : db[i] = mem[i]
        /\ db \in Seq(Packages) /\ mem \in Seq(Packages) /\ Unique(mem)
    <3>1. DbInv /\ step = "save" /\ n < m /\ n = Len(db) /\ m = Len(mem)
      BY <1>3 DEF LpkgInv
    <3> QED
      BY ONLY <3>1, n \in Nat, m \in Nat, SMTT(30), SMTT(60) DEF DbInv
  <2> PICK e : e = mem[n + 1]
    OBVIOUS
  <2>1. n + 1 \in 1 .. m /\ e \in Packages
    BY <2>0
  <2> PICK cut : cut = SubSeq(e.files, 1, k)
    BY Zenon
  <2>2. cut \in Seq(Paths)
    <3>1. e.files \in Seq(Paths) /\ k \in Nat /\ k <= Len(e.files)
      BY <1>3, <2>1 DEF Packages
    <3> QED
      BY <3>1, Beginning
  <2> PICK d : d = [name |-> e.name, files |-> cut]
    BY Zenon
  <2>3. [e EXCEPT !.files = SubSeq(@, 1, k)] = d
    <3>1. [e EXCEPT !.files = cut] = d
      BY ONLY <2>1, d = [name |-> e.name, files |-> cut], SMTT(30), SMTT(60) DEF Packages
    <3> QED
      BY <3>1
  <2>4. d \in Packages /\ d.name = e.name
    BY <2>1, <2>2 DEF Packages
  <2>5. db' = Append(db, d)
    BY <1>3, <2>3
  <2>6. /\ db' \in Seq(Packages) /\ Len(db') = n + 1 /\ DOMAIN db' = 1 .. n + 1
        /\ db'[n + 1] = d /\ \A i \in 1 .. n : db'[i] = db[i]
    BY <2>0, <2>4, <2>5
  <2>7. \A i \in 1 .. n + 1 : db'[i].name = mem[i].name /\ i \in 1 .. m
    <3>1. \A i \in 1 .. n + 1 : i \in 1 .. m /\ (i = n + 1 \/ i \in 1 .. n)
      BY ONLY <2>0, n \in Nat, m \in Nat, SMTT(30), SMTT(60)
    <3>2. db'[n + 1].name = mem[n + 1].name
      BY <2>4, <2>6
    <3> QED
      BY ONLY <2>0, <2>6, <3>1, <3>2, SMTT(30), SMTT(60)
  <2>8. Unique(db)'
    BY <2>0, <2>6, <2>7 DEF Unique
  <2>9. n + 1 <= DbMax
    BY <2>0, LpkgAssumption
  <2>10. DbInv'
    <3>1. DbInv
      BY Zenon DEF LpkgInv
    <3> QED
      BY <1>0, <2>6, <2>8, <2>9, <3>1 DEF DbInv, Unique
  <2> QED
    BY <1>1, <2>10 DEF LpkgInv
<1> QED
  BY <1>2, <1>3, Zenon DEF Crash

\* Every step of lpkg keeps track of where files are listed.
LEMMA LpkgStep == LpkgInv /\ [LpkgNext]_lpkg => LpkgInv'
<1> SUFFICES ASSUME LpkgInv, [LpkgNext]_lpkg PROVE LpkgInv'
  OBVIOUS
<1>1. CASE UNCHANGED lpkg
  <2>1. DbInv'
    BY <1>1 DEF lpkg, LpkgInv, DbInv, Unique
  <2>2. FilesInv'
    BY <1>1 DEF lpkg, LpkgInv, FilesInv, Listed, ListedBut, DbName
  <2> QED
    BY <2>1, <2>2 DEF LpkgInv
<1> QED
  BY <1>1, BeginKeeps, UpdateFetchVerifyKeep, ExtractKeeps, RecordKeeps,
     FindKeeps,
     UnlinkKeeps, SaveKeeps, CrashKeeps DEF LpkgNext, Command

\* Between commands each file lpkg has installed is listed by an entry, unless a
\* failure of those TracksFiles names has happened, and no name is listed twice
\* in installed.toml or in the table in memory: for any archives, any table and
\* entry sizes and any sequence of commands, faults and crashes.
THEOREM FilesAreTracked == LpkgSpec => []TracksFiles
<1>1. LpkgInv => TracksFiles
  BY DEF LpkgInv, DbInv, FilesInv, Unique, TracksFiles
<1> QED
  BY LpkgStarts, LpkgStep, <1>1, PTL DEF LpkgSpec

-----------------------------------------------------------------------------

(* depgraph.c's sort, module KahnSort.                                     *)

\* out_order so far.
Taken == {queue[k] : k \in 1..(head - 1)}

\* The predecessors of j for which indegree[j] has not been decremented yet.
Waiting(j) ==
  {i \in Pred(j) : i \notin Taken \/ (pc = "relax" /\ scan <= j /\ i = Node)}

\* The inductive invariant: an in-degree counts the predecessors still
\* waiting, and a node is in the queue once its count is zero (and, while the
\* queue is being seeded, once it has been looked at).
Inv ==
  /\ TypeOK
  /\ \A j \in Nodes : indegree[j] = Cardinality(Waiting(j))
  /\ \A j \in Nodes : j \in InQueue <=> indegree[j] = 0 /\ (pc = "seed" => j < scan)
  /\ OrderIsTopological
  /\ pc = "seed" => head = 1
  /\ pc = "done" => head = Len(queue) + 1

-----------------------------------------------------------------------------
(* Facts about sets and sequences.                                         *)

\* A set of predecessors is finite, and empty when its cardinality is zero.
LEMMA WaitingFinite ==
  ASSUME NEW S, S \subseteq Nodes
  PROVE  /\ IsFiniteSet(S) /\ Cardinality(S) \in 0..N
         /\ Cardinality(S) = 0 <=> S = {}
<1>1. IsFiniteSet(Nodes) /\ Cardinality(Nodes) = N
  BY FS_Interval, CountAssumption DEF Nodes
<1>2. IsFiniteSet(S) /\ Cardinality(S) <= N
  BY <1>1, FS_Subset
<1> QED
  BY <1>2, FS_CardinalityType, FS_EmptySet, CountAssumption

\* A sequence of distinct nodes has at most N entries, and exactly N when
\* every node is among them.
LEMMA DistinctNodes ==
  ASSUME NEW q \in Seq(Nodes),
         \A k, l \in 1..Len(q) : q[k] = q[l] => k = l
  PROVE  /\ Len(q) <= N
         /\ Len(q) = N <=> \A j \in Nodes : \E k \in 1..Len(q) : q[k] = j
<1>1. IsFiniteSet(Nodes) /\ Cardinality(Nodes) = N
  BY FS_Interval, CountAssumption DEF Nodes
<1>2. Cardinality(1..Len(q)) = Len(q)
  BY FS_Interval
<1>3. q \in [1..Len(q) -> Nodes]
  OBVIOUS
<1>4. q \in Injection(1..Len(q), Nodes)
  BY <1>3 DEF Injection, IsInjective
<1>5. /\ Cardinality(1..Len(q)) <= Cardinality(Nodes)
      /\ Cardinality(1..Len(q)) = Cardinality(Nodes) <=> q \in Surjection(1..Len(q), Nodes)
  BY <1>1, <1>4, FS_Injection
<1>6. q \in Surjection(1..Len(q), Nodes) <=> \A j \in Nodes : \E k \in 1..Len(q) : q[k] = j
  BY <1>3 DEF Surjection
<1> QED
  BY <1>1, <1>2, <1>5, <1>6

\* A set of naturals that is not empty has a least element.
LEMMA Least ==
  ASSUME NEW P, P \subseteq Nat, P # {}
  PROVE  \E k \in P : \A l \in P : ~(l < k)
<1>1. \E k \in P : \A l \in P : ~(<<l, k>> \in OpToRel(<, Nat))
  BY NatLessThanWellFounded, WFMin, ZenonT(60)
<1> QED
  BY <1>1, Zenon DEF OpToRel

\* A step that leaves the queue and the graph alone leaves the order alone.
LEMMA SameQueue ==
  ASSUME OrderIsTopological, UNCHANGED <<edge, queue>>
  PROVE  InQueue' = InQueue /\ OrderIsTopological'
  BY DEF InQueue, OrderIsTopological, Pred

\* Appending a node whose predecessors are all in the queue keeps the order.
LEMMA AppendKeepsOrder ==
  ASSUME TypeOK, OrderIsTopological, NEW j \in Nodes, j \notin InQueue,
         Pred(j) \subseteq InQueue, queue' = Append(queue, j), UNCHANGED edge
  PROVE  /\ OrderIsTopological'
         /\ queue' \in Seq(Nodes) /\ Len(queue') = Len(queue) + 1
         /\ Len(queue') <= N
         /\ InQueue' = InQueue \cup {j}
         /\ \A k \in 1..Len(queue) : queue'[k] = queue[k]
<1>1. /\ queue' \in Seq(Nodes) /\ Len(queue') = Len(queue) + 1
      /\ \A k \in 1..Len(queue) : queue'[k] = queue[k]
      /\ queue'[Len(queue) + 1] = j
  BY DEF TypeOK
<1>2. InQueue' = InQueue \cup {j}
  BY <1>1 DEF TypeOK, InQueue
<1>3. \A k, l \in 1..Len(queue') : queue'[k] = queue'[l] => k = l
  BY <1>1 DEF TypeOK, OrderIsTopological, InQueue
<1>4. \A k \in 1..Len(queue') : \A i \in Pred(queue'[k]) :
         \E l \in 1..(k - 1) : queue'[l] = i
  <2> SUFFICES ASSUME NEW k \in 1..Len(queue'), NEW i \in Pred(queue'[k])
               PROVE  \E l \in 1..(k - 1) : queue'[l] = i
    OBVIOUS
  <2>0. i \in Nodes /\ <<i, queue'[k]>> \in edge
    BY DEF Pred
  <2>3. Len(queue) \in Nat
    BY DEF TypeOK
  <2>1. CASE k = Len(queue) + 1
    <3>1. i \in InQueue
      BY <1>1, <2>0, <2>1 DEF Pred
    <3>2. PICK l \in 1..Len(queue) : queue[l] = i
      BY <3>1 DEF InQueue
    <3>3. l \in 1..(k - 1)
      BY <2>3, <2>1, <3>2
    <3> QED
      BY <1>1, <3>2, <3>3
  <2>2. CASE k \in 1..Len(queue)
    <3>1. i \in Pred(queue[k])
      BY <1>1, <2>0, <2>2 DEF Pred
    <3>2. PICK l \in 1..(k - 1) : queue[l] = i
      BY <2>2, <3>1, ZenonT(60) DEF OrderIsTopological
    <3>3. l \in 1..Len(queue)
      BY <2>3, <2>2, <3>2
    <3> QED
      BY <1>1, <3>2, <3>3
  <2> QED
    BY <1>1, <2>1, <2>2 DEF TypeOK
<1>5. OrderIsTopological'
  BY <1>3, <1>4 DEF OrderIsTopological, Pred
<1>6. Len(queue') <= N
  BY <1>1, <1>3, DistinctNodes
<1> QED
  BY <1>1, <1>2, <1>5, <1>6

-----------------------------------------------------------------------------
\* The inductive invariant holds whenever the loop of depgraph_topo_sort (and
\* of depgraph_has_cycle) is between two turns.
THEOREM KahnInvariant == Spec => []Inv
<1>1. Init => Inv
  <2> SUFFICES ASSUME Init PROVE Inv
    OBVIOUS
  <2>1. \A j \in Nodes : Waiting(j) = Pred(j)
    BY DEF Init, Waiting, Taken
  <2>2. \A j \in Nodes : indegree[j] = Cardinality(Pred(j)) /\ indegree[j] \in 0..N
    BY WaitingFinite, Zenon DEF Init, Pred
  <2>3. TypeOK
    BY <2>2, CountAssumption DEF Init, TypeOK
  <2>4. OrderIsTopological /\ InQueue = {}
    BY DEF Init, OrderIsTopological, InQueue
  <2> QED
    BY <2>1, <2>2, <2>3, <2>4 DEF Init, Inv, Nodes
<1>2. Inv /\ [Next]_vars => Inv'
  <2> SUFFICES ASSUME Inv, [Next]_vars PROVE Inv'
    OBVIOUS
  <2> USE CountAssumption
  <2>0. TypeOK /\ OrderIsTopological
    BY DEF Inv
  <2>a. \A j \in Nodes : Waiting(j) \subseteq Nodes /\ Waiting(j)' \subseteq Nodes
    BY DEF Waiting, Pred
  <2>1. CASE Seed
    <3>1. head = 1 /\ Taken = {} /\ Taken' = {} /\ scan \in Nodes
      BY <2>0, <2>1 DEF Seed, Inv, Taken, TypeOK, Nodes
    <3>2. \A j \in Nodes : Waiting(j)' = Waiting(j) /\ Waiting(j) = Pred(j)
      BY <2>1, <3>1 DEF Seed, Waiting, Pred
    <3>3. CASE indegree[scan] = 0
      <4>1. Pred(scan) = {} /\ scan \notin InQueue
        BY <2>a, <3>1, <3>2, <3>3, <2>1, WaitingFinite DEF Inv, Seed, Nodes
      <4>2. queue' = Append(queue, scan) /\ UNCHANGED edge
        BY <2>1, <3>3 DEF Seed
      <4>3. /\ OrderIsTopological' /\ queue' \in Seq(Nodes) /\ Len(queue') <= N
            /\ Len(queue') = Len(queue) + 1 /\ InQueue' = InQueue \cup {scan}
        BY <2>0, <3>1, <4>1, <4>2, AppendKeepsOrder
      <4>4. TypeOK'
        BY <2>0, <2>1, <3>1, <4>3 DEF Seed, TypeOK, Nodes
      <4> QED
        BY <2>1, <3>1, <3>2, <3>3, <4>3, <4>4 DEF Inv, Seed, TypeOK, Nodes
    <3>4. CASE indegree[scan] # 0
      <4>1. InQueue' = InQueue /\ OrderIsTopological'
        BY <2>0, <2>1, <3>4, SameQueue DEF Seed
      <4>2. TypeOK'
        BY <2>0, <2>1, <3>1, <3>4 DEF Seed, TypeOK, Nodes
      <4> QED
        BY <2>1, <3>1, <3>2, <3>4, <4>1, <4>2 DEF Inv, Seed, TypeOK, Nodes
    <3> QED
      BY <3>3, <3>4
  <2>2. CASE Seeded \/ Finish
    <3>1. \A j \in Nodes : Waiting(j)' = Waiting(j)
      BY <2>2 DEF Seeded, Finish, Waiting, Taken, Pred
    <3>2. InQueue' = InQueue /\ OrderIsTopological'
      BY <2>0, <2>2, SameQueue DEF Seeded, Finish
    <3>3. TypeOK'
      BY <2>0, <2>2 DEF Seeded, Finish, TypeOK
    <3> QED
      BY <2>0, <2>2, <3>1, <3>2, <3>3 DEF Inv, Seeded, Finish,
         TypeOK, Nodes
  <2>3. CASE Take
    <3>1. /\ head \in 1..Len(queue) /\ Node' = queue[head]
          /\ Taken' = Taken \cup {queue[head]} /\ queue[head] \notin Taken
      <4>1. /\ Len(queue) \in Nat /\ head \in 1..Len(queue)
            /\ head' = head + 1 /\ queue' = queue
        BY <2>0, <2>3 DEF Take, TypeOK
      <4>2. Node' = queue[head]
        BY <4>1 DEF Node
      <4>3. 1..(head' - 1) = 1..(head - 1) \cup {head}
        BY <4>1
      <4>4. Taken' = Taken \cup {queue[head]}
        BY <4>1, <4>3 DEF Taken
      <4>5. \A k \in 1..(head - 1) : k \in 1..Len(queue) /\ k # head
        BY <4>1
      <4>6. \A k \in 1..Len(queue) : queue[k] = queue[head] => k = head
        BY <2>0, <4>1 DEF OrderIsTopological
      <4> QED
        BY <4>1, <4>2, <4>4, <4>5, <4>6, ZenonT(60) DEF Taken
    <3>2. \A j \in Nodes : Waiting(j)' = Waiting(j)
      BY <2>0, <2>3, <3>1 DEF Take, Waiting, Pred, Nodes
    <3>3. InQueue' = InQueue /\ OrderIsTopological'
      BY <2>0, <2>3, SameQueue DEF Take
    <3>4. TypeOK'
      BY <2>0, <2>3, <3>1 DEF Take, TypeOK
    <3> QED
      BY <2>3, <3>2, <3>3, <3>4 DEF Inv, Take
  <2>4. CASE Relax
    <3>1. /\ scan \in Nodes /\ head - 1 \in 1..Len(queue)
          /\ Node \in Taken /\ Node \in Nodes /\ Taken \subseteq InQueue
      <4>1. scan \in Nodes
        BY <2>0, <2>4 DEF Relax, TypeOK, Nodes
      <4>2. Len(queue) \in Nat /\ head \in Nat /\ 1 < head /\ head <= Len(queue) + 1
        BY <2>0, <2>4 DEF Relax, TypeOK
      <4>3. head - 1 \in 1..Len(queue) /\ head - 1 \in 1..(head - 1)
        BY <4>2
      <4>4. \A k \in 1..(head - 1) : k \in 1..Len(queue)
        BY <4>2
      <4>5. queue[head - 1] \in Nodes
        BY <2>0, <4>3 DEF TypeOK
      <4> QED
        BY <4>1, <4>3, <4>4, <4>5 DEF Node, Taken, InQueue
    <3>2. ASSUME \A k \in 1..Len(queue) : queue'[k] = queue[k]
          PROVE  /\ Taken' = Taken /\ Node' = Node
                 /\ \A j \in Nodes \ {scan} : Waiting(j)' = Waiting(j)
                 /\ \A j \in Nodes : j = scan => Waiting(j)' = Waiting(j) \ {Node}
      <4>1. Taken' = Taken /\ Node' = Node
        <5>1. head' = head
          BY <2>4 DEF Relax
        <5>2. \A k \in 1..(head - 1) : k \in 1..Len(queue)
          BY <3>1, <2>0 DEF TypeOK
        <5> QED
          BY <3>1, <3>2, <5>1, <5>2 DEF Taken, Node
      <4>2. scan' = scan + 1 /\ UNCHANGED <<edge, pc>> /\ pc = "relax"
        BY <2>4 DEF Relax
      <4>3. \A j \in Nodes \ {scan} : scan + 1 <= j <=> scan <= j
        BY <3>1 DEF Nodes
      <4>4. ~(scan + 1 <= scan) /\ scan <= scan
        BY <3>1 DEF Nodes
      <4>5. \A j : Pred(j)' = Pred(j)
        BY <4>2 DEF Pred
      <4>6. \A j \in Nodes : Waiting(j)' =
              {i \in Pred(j) : i \notin Taken \/ (scan + 1 <= j /\ i = Node)}
        BY <4>1, <4>2, <4>5 DEF Waiting
      <4>7. \A j \in Nodes : Waiting(j) =
              {i \in Pred(j) : i \notin Taken \/ (scan <= j /\ i = Node)}
        BY <4>2 DEF Waiting
      <4>8. \A j \in Nodes \ {scan} : Waiting(j)' = Waiting(j)
        BY <4>3, <4>6, <4>7
      <4>9. \A j \in Nodes : j = scan => Waiting(j)' = Waiting(j) \ {Node}
        BY <3>1, <4>4, <4>6, <4>7
      <4> QED
        BY <4>1, <4>8, <4>9
    <3>3. CASE <<Node, scan>> \notin edge
      <4>1. UNCHANGED <<queue, indegree>>
        BY <2>4, <3>3 DEF Relax
      <4>2. \A j \in Nodes : Waiting(j)' = Waiting(j)
        <5>1. Node \notin Waiting(scan)
          BY <3>3 DEF Waiting, Pred
        <5>2. \A k \in 1..Len(queue) : queue'[k] = queue[k]
          BY <4>1
        <5> QED
          BY <3>1, <3>2, <5>1, <5>2, ZenonT(60)
      <4>3. InQueue' = InQueue /\ OrderIsTopological'
        BY <2>0, <2>4, <4>1, SameQueue DEF Relax
      <4>4. TypeOK'
        BY <2>0, <2>4, <3>1, <4>1 DEF Relax, TypeOK, Nodes
      <4> QED
        BY <2>4, <4>1, <4>2, <4>3, <4>4 DEF Inv, Relax
    <3>4. CASE <<Node, scan>> \in edge
      <4>1. Node \in Waiting(scan)
        BY <2>4, <3>1, <3>4 DEF Relax, Waiting, Pred, Nodes
      <4>2. /\ IsFiniteSet(Waiting(scan)) /\ indegree[scan] = Cardinality(Waiting(scan))
            /\ indegree[scan] \in 1..N
        BY <2>a, <3>1, <4>1, WaitingFinite DEF Inv
      <4>3. Cardinality(Waiting(scan) \ {Node}) = indegree[scan] - 1
        BY <4>1, <4>2, FS_RemoveElement, ZenonT(60)
      <4>4. scan \notin InQueue
        BY <3>1, <4>2 DEF Inv
      <4>5. indegree' = [indegree EXCEPT ![scan] = @ - 1] /\ indegree' \in [Nodes -> 0..N]
        <5>1. indegree' = [indegree EXCEPT ![scan] = @ - 1]
          BY <2>4, <3>4 DEF Relax
        <5>2. indegree \in [Nodes -> 0..N] /\ indegree[scan] - 1 \in 0..N
          BY <2>0, <4>2 DEF TypeOK
        <5> QED
          BY <5>1, <5>2, ZenonT(60)
      <4>6. CASE indegree[scan] = 1
        <5>1. queue' = Append(queue, scan) /\ UNCHANGED edge
          BY <2>4, <3>4, <4>6 DEF Relax
        <5>2. \A k \in 1..Len(queue) : queue'[k] = queue[k]
          BY <2>0, <5>1 DEF TypeOK
        <5>3. \A j \in Nodes : j = scan => Waiting(j)' = {}
          <6>1. Waiting(scan) \ {Node} \subseteq Nodes
            BY DEF Waiting, Pred
          <6>2. Waiting(scan) \ {Node} = {}
            BY <4>3, <4>6, <6>1, WaitingFinite
          <6> QED
            BY <3>2, <5>2, <6>2
        <5>4. Pred(scan) \subseteq Taken
          BY <2>4, <3>1, <3>2, <5>2, <5>3, <4>3 DEF Relax, Waiting, Pred
        <5>5. /\ OrderIsTopological' /\ queue' \in Seq(Nodes) /\ Len(queue') <= N
              /\ Len(queue') = Len(queue) + 1 /\ InQueue' = InQueue \cup {scan}
          BY <2>0, <3>1, <4>4, <5>1, <5>4, AppendKeepsOrder
        <5>6. TypeOK'
          <6>1. edge' \subseteq Nodes \X Nodes /\ pc' = "relax" /\ head' = head
                /\ scan' \in 1..(N + 1)
            BY <2>0, <2>4, <3>1 DEF Relax, TypeOK, Nodes
          <6>2. head \in 1..(Len(queue') + 1) /\ head > 1
            BY <2>0, <2>4, <5>5 DEF Relax, TypeOK
          <6> QED
            BY <4>5, <5>5, <6>1, <6>2 DEF TypeOK
        <5>7. \A j \in Nodes : indegree'[j] = Cardinality(Waiting(j)')
          <6>1. /\ \A j \in Nodes \ {scan} : Waiting(j)' = Waiting(j)
                /\ \A j \in Nodes : j = scan => Waiting(j)' = Waiting(j) \ {Node}
            BY <3>2, <5>2
          <6>2. indegree'[scan] = indegree[scan] - 1
                /\ \A j \in Nodes \ {scan} : indegree'[j] = indegree[j]
            BY <2>0, <3>1, <4>5 DEF TypeOK
          <6> QED
            BY <4>3, <6>1, <6>2, ZenonT(60) DEF Inv
        <5> QED
          <6>1. \A j \in Nodes : j \in InQueue' <=> indegree'[j] = 0
            BY <2>0, <2>4, <3>1, <4>5, <4>6, <5>5 DEF Inv, Relax, TypeOK
          <6>2. pc' = "relax"
            BY <2>4 DEF Relax
          <6> QED
            BY <5>5, <5>6, <5>7, <6>1, <6>2 DEF Inv
      <4>7. CASE indegree[scan] # 1
        <5>1. UNCHANGED <<queue, edge>>
          BY <2>4, <3>4, <4>7 DEF Relax
        <5>2. InQueue' = InQueue /\ OrderIsTopological'
          BY <2>0, <5>1, SameQueue
        <5>4. TypeOK'
          <6>1. UNCHANGED <<edge, queue, head, pc>> /\ scan' = scan + 1
            BY <2>4, <5>1 DEF Relax
          <6>2. scan' \in 1..(N + 1)
            BY <3>1, <6>1, CountAssumption DEF Nodes
          <6> QED
            BY <2>0, <4>5, <6>1, <6>2 DEF TypeOK
        <5>3. \A j \in Nodes : indegree'[j] = Cardinality(Waiting(j)')
          <6>1. /\ \A j \in Nodes \ {scan} : Waiting(j)' = Waiting(j)
                /\ \A j \in Nodes : j = scan => Waiting(j)' = Waiting(j) \ {Node}
            BY <3>2, <5>1
          <6>2. indegree'[scan] = indegree[scan] - 1
                /\ \A j \in Nodes \ {scan} : indegree'[j] = indegree[j]
            BY <2>0, <3>1, <4>5 DEF TypeOK
          <6> QED
            BY <4>3, <6>1, <6>2, Zenon DEF Inv
        <5>5. pc = "relax" /\ pc' = "relax"
          BY <2>4 DEF Relax
        <5>6. indegree'[scan] # 0 /\ indegree[scan] # 0
          BY <2>0, <3>1, <4>2, <4>5, <4>7 DEF TypeOK
        <5>7. \A j \in Nodes \ {scan} : indegree'[j] = indegree[j]
          BY <4>5, <5>4 DEF TypeOK
        <5>8. \A j \in Nodes : j \in InQueue <=> indegree[j] = 0
          BY <5>5 DEF Inv
        <5>9. \A j \in Nodes : j \in InQueue' <=> indegree'[j] = 0
          BY <5>2, <5>6, <5>7, <5>8, ZenonT(60)
        <5> QED
          BY <5>2, <5>3, <5>4, <5>5, <5>9 DEF Inv
      <4> QED
        BY <4>6, <4>7
    <3> QED
      BY <3>3, <3>4
  <2>5. CASE Relaxed
    <3>1. \A j \in Nodes : ~(scan <= j)
      BY <2>0, <2>5 DEF Relaxed, TypeOK, Nodes
    <3>2. \A j \in Nodes : Waiting(j)' = Waiting(j)
      BY <2>5, <3>1 DEF Relaxed, Waiting, Taken, Pred
    <3>3. InQueue' = InQueue /\ OrderIsTopological'
      BY <2>0, <2>5, SameQueue DEF Relaxed
    <3>4. TypeOK'
      BY <2>0, <2>5 DEF Relaxed, TypeOK
    <3> QED
      BY <2>5, <3>2, <3>3, <3>4 DEF Inv, Relaxed
  <2>6. CASE UNCHANGED vars
    <3>1. \A j \in Nodes : Waiting(j)' = Waiting(j)
      BY <2>6 DEF vars, Waiting, Taken, Node, Pred
    <3>2. InQueue' = InQueue /\ OrderIsTopological' /\ TypeOK'
      BY <2>0, <2>6, SameQueue DEF vars, TypeOK
    <3> QED
      BY <2>6, <3>1, <3>2 DEF Inv, vars
  <2> QED
    BY <2>1, <2>2, <2>3, <2>4, <2>5, <2>6 DEF Next, Done
<1> QED
  BY <1>1, <1>2, PTL DEF Spec

-----------------------------------------------------------------------------
\* At every moment what depgraph_topo_sort has put out is a duplicate-free
\* start order that respects every after and before edge, and its queue never
\* outgrows the array.
THEOREM SortIsSound == Spec => [](TypeOK /\ OrderIsTopological)
<1>1. Inv => TypeOK /\ OrderIsTopological
  BY DEF Inv
<1> QED
  BY <1>1, KahnInvariant, PTL

\* depgraph_has_cycle answers true, and depgraph_topo_sort returns -1, exactly
\* when some services wait for one another in a circle.
THEOREM CycleDetection == Spec => []AnswerIsRight
<1>1. Inv => AnswerIsRight
  <2> SUFFICES ASSUME Inv, pc = "done"
               PROVE  ~Complete <=> \E S \in SUBSET Nodes : Knot(S)
    BY DEF AnswerIsRight
  <2>1. /\ queue \in Seq(Nodes) /\ head = Len(queue) + 1
        /\ \A k, l \in 1..Len(queue) : queue[k] = queue[l] => k = l
    BY DEF Inv, TypeOK, OrderIsTopological
  <2>2. Complete <=> \A j \in Nodes : \E k \in 1..Len(queue) : queue[k] = j
    <3>1. Complete <=> Len(queue) = N
      BY <2>1, CountAssumption DEF Complete
    <3> QED
      BY <2>1, <3>1, DistinctNodes
  <2>3. ASSUME ~Complete PROVE \E S \in SUBSET Nodes : Knot(S)
    <3> DEFINE S == Nodes \ InQueue
    <3>1. S # {}
      BY <2>2, <2>3 DEF InQueue
    <3>2. ASSUME NEW j \in S PROVE \E i \in S : <<i, j>> \in edge
      <4>1. Waiting(j) # {}
        <5>1. indegree[j] # 0 /\ indegree[j] = Cardinality(Waiting(j))
          BY DEF Inv
        <5>2. Waiting(j) \subseteq Nodes
          BY DEF Waiting, Pred
        <5> QED
          BY <5>1, <5>2, WaitingFinite
      <4>2. PICK i \in Nodes : <<i, j>> \in edge /\ i \notin Taken
        BY <4>1 DEF Waiting, Pred
      <4>3. Taken = InQueue
        BY <2>1 DEF Taken, InQueue
      <4> QED
        BY <4>2, <4>3
    <3> QED
      BY <3>1, <3>2, ZenonT(60) DEF Knot
  <2>4. ASSUME Complete, NEW S \in SUBSET Nodes, Knot(S) PROVE FALSE
    <3> DEFINE P == {k \in 1..Len(queue) : queue[k] \in S}
    <3>0. PICK j \in S : TRUE
      BY <2>4 DEF Knot
    <3>1. P # {} /\ P \subseteq Nat
      <4>1. PICK k \in 1..Len(queue) : queue[k] = j
        BY <2>2, <2>4, <3>0
      <4>2. k \in P
        BY <3>0, <4>1
      <4>3. P \subseteq Nat
        BY <2>1
      <4> QED
        BY <4>2, <4>3
    <3>2. PICK k \in P : \A l \in P : ~(l < k)
      BY <3>1, Least, Zenon
    <3>3. PICK i \in S : <<i, queue[k]>> \in edge
      BY <2>4, <3>2, ZenonT(60) DEF Knot
    <3>4. PICK l \in 1..(k - 1) : queue[l] = i
      BY <3>2, <3>3 DEF Inv, OrderIsTopological, Pred
    <3>5. l \in P /\ l < k
      BY <2>1, <3>2, <3>3, <3>4
    <3> QED
      BY <3>2, <3>5
  <2> QED
    BY <2>3, <2>4
<1> QED
  BY <1>1, KahnInvariant, PTL

=============================================================================
