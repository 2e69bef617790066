------------------------------ MODULE LgpWire -------------------------------
(***************************************************************************)
(* One client's connection: the stream of frames, cut into reads wherever  *)
(* the kernel cuts it, the receive buffer, the loop that takes frames off  *)
(* it, the descriptors that travel beside the stream, and the clipboard.   *)
(*                                                                         *)
(* A byte is the pair <<k, j>>: the j-th byte of the k-th frame sent, so   *)
(* that a frame taken from the wrong place in the buffer shows.  A frame   *)
(* is [type, pay, len, fd]: len is what its length field says, fd whether  *)
(* a descriptor was sent with it.  Descriptors are known by the frame they *)
(* came with.                                                              *)
(***************************************************************************)
EXTENDS Integers, Sequences

CONSTANTS
  RxSize,      \* LGP_CLIENT_RX_BUFFER_SIZE
  Header,      \* LGP_HEADER_SIZE
  ClipSize,    \* sizeof(global_clipboard)
  QueueMax,    \* LGP_CLIENT_MAX_PENDING_FDS
  Frames,      \* the frames clients send
  MaxFrames    \* bound: frames on one connection

ASSUME WireAssumption ==
  /\ RxSize \in Nat /\ Header \in 1..RxSize /\ ClipSize \in Nat \ {0}
  /\ QueueMax \in Nat \ {0, 1} /\ MaxFrames \in Nat
  /\ \A f \in Frames : f.len \in Nat /\ f.pay \in Seq(Nat)

VARIABLES
  sent,      \* the frames the client has written
  unread,    \* their bytes that are still in the socket
  rx,        \* rx_buf up to rx_len
  fdq,       \* pending_fds
  handled,   \* what lgp_handle_client_message was given: frame, payload, descriptor
  link,      \* "idle" between events, "loop" in process_messages, "closed"
  clip,      \* global_clipboard
  lastset,   \* the payload of the last CLIPBOARD_SET
  got        \* the last CLIPBOARD_DATA, and the lastset it was to return

wire == <<sent, unread, rx, fdq, handled, link, clip, lastset, got>>

NUL == 0
NoFd == 0    \* no descriptor; frames are counted from 1

\* A text up to its NUL, as strlen sees it.
UpToNul(p) == [i \in {n \in 1..Len(p) : \A j \in 1..n : p[j] # NUL} |-> p[i]]

Size(f) == Header + Len(f.pay)
WellFormed(f) == f.len = Size(f) /\ f.len <= RxSize

WireInit ==
  /\ sent = << >> /\ unread = << >> /\ rx = << >> /\ fdq = << >> /\ handled = << >>
  /\ link = "idle" /\ clip = [i \in 1..ClipSize |-> NUL] /\ lastset = << >>
  /\ got = [data |-> <<NUL>>, of |-> << >>]

Bytes(k, f) == [j \in 1..Size(f) |-> <<k, j>>]

Send(f) ==
  /\ link # "closed" /\ Len(sent) < MaxFrames
  /\ sent' = Append(sent, f) /\ unread' = unread \o Bytes(Len(sent) + 1, f)
  /\ UNCHANGED <<rx, fdq, handled, link, clip, lastset, got>>

\* The descriptors that come with bytes b.  The kernel ends a read at the end
\* of the message whose descriptor it delivers, so that there is at most one.
CarriesFd(x) == x[2] = 1 /\ sent[x[1]].fd
Carried(b) == {b[i][1] : i \in {i \in 1..Len(b) : CarriesFd(b[i])}}
OneMessage(b) == \A k \in Carried(b) : b[Len(b)][1] = k

\* lgp_client_queue_fd: a descriptor too many is closed, and the connection too.
QueueFd(k) ==
  IF Len(fdq) < QueueMax THEN link' = "loop" /\ fdq' = Append(fdq, k)
  ELSE link' = "closed" /\ UNCHANGED fdq

\* lgp_client_read_available: up to the room left in rx_buf, and the
\* descriptor of the message that begins in it.
Read(n) ==
  LET b == SubSeq(unread, 1, n)
  IN  /\ link = "idle" /\ n <= RxSize - Len(rx) /\ n <= Len(unread) /\ OneMessage(b)
      /\ unread' = SubSeq(unread, n + 1, Len(unread)) /\ rx' = rx \o b
      /\ \/ Carried(b) = {} /\ link' = "loop" /\ UNCHANGED fdq
         \/ \E k \in Carried(b) : QueueFd(k)
      /\ UNCHANGED <<sent, handled, clip, lastset, got>>

\* lgp_tlv_peek_header, on a buffer of at least a header: the frame it finds
\* there, 0 for bytes that are no frame's header (which only a frame that lied
\* about its length leaves at the front, and which are taken to be refused).
PeekHeader(b) ==
  IF \A j \in 1..Header : b[j] = <<b[1][1], j>> THEN b[1][1] ELSE 0

\* What a byte says, where a frame that claims too many bytes makes a payload
\* of the next frame's header too.
Value(x) == IF x[2] > Header THEN sent[x[1]].pay[x[2] - Header] ELSE NUL

\* lgp_tlv_decode once the frame is complete: the payload is what follows the
\* header in the buffer.
Decode(b, f) == [j \in 1..f.len - Header |-> Value(b[Header + j])]

\* CLIPBOARD_SET cuts a text to what the clipboard holds with a NUL, and writes
\* it over what an earlier one left.
Kept(p) == SubSeq(p, 1, IF Len(p) >= ClipSize THEN ClipSize - 1 ELSE Len(p))
ClipSet(p) ==
  LET q == Kept(p)
  IN  [i \in 1..ClipSize |-> IF i <= Len(q) THEN q[i]
                             ELSE IF i = Len(q) + 1 THEN NUL ELSE clip[i]]

\* CLIPBOARD_GET sends strlen(global_clipboard) bytes and a NUL.
ClipGet == Append(UpToNul(clip), NUL)

\* Mutant of Oldest: the descriptor queued last.
OldestIsLast == fdq[Len(fdq)]

\* lgp_client_take_fd takes the first descriptor.
Oldest == fdq[1]

\* It moves the others up.
Dequeued == Tail(fdq)

\* lgp_handle_client_message, as far as the stream matters to it.
Handle(k, p) ==
  LET type == sent[k].type
      takes == type = "COMMIT" /\ fdq # << >>
  IN  /\ handled' = Append(handled, [frame |-> k, pay |-> p,
                                     fd |-> IF takes THEN Oldest ELSE NoFd])
      /\ fdq' = IF takes THEN Dequeued ELSE fdq
      /\ clip' = IF type = "SET" THEN ClipSet(p) ELSE clip
      /\ lastset' = IF type = "SET" THEN p ELSE lastset
      /\ got' = IF type = "GET" THEN [data |-> ClipGet, of |-> lastset] ELSE got

\* Mutant of Rest: what follows the frame is dropped with it.
RestDropped(b, len) == << >>

\* memmove of what follows the frame, and rx_len.
Rest(b, len) == SubSeq(b, len + 1, Len(b))

\* A turn of the loop of lgp_client_process_messages that ends it: there is no
\* complete frame yet, or its length cannot be right.
StopReading ==
  /\ \/ Len(rx) < Header /\ link' = "idle"
     \/ /\ Len(rx) >= Header
        /\ LET k == PeekHeader(rx)
               refused == k = 0 \/ sent[k].len < Header \/ sent[k].len > RxSize
           IN  IF refused THEN link' = "closed"
               ELSE Len(rx) < sent[k].len /\ link' = "idle"
  /\ UNCHANGED <<rx, fdq, handled, clip, lastset, got>>

\* A turn that handles a frame; a commit without a descriptor is an error.
HandleFrame ==
  /\ Len(rx) >= Header
  /\ LET k == PeekHeader(rx)
         f == sent[k]
     IN  /\ k # 0 /\ f.len \in Header..RxSize /\ Len(rx) >= f.len
         /\ Handle(k, Decode(rx, f))
         /\ IF f.type = "COMMIT" /\ fdq = << >> THEN link' = "closed" /\ UNCHANGED rx
            ELSE rx' = Rest(rx, f.len) /\ UNCHANGED link

Step == link = "loop" /\ (StopReading \/ HandleFrame) /\ UNCHANGED <<sent, unread>>

WireNext ==
  \/ \E f \in Frames : Send(f)
  \/ \E n \in 1..RxSize : Read(n)
  \/ Step

-----------------------------------------------------------------------------

\* The frames sent, as far as the n-th, are well-formed; and are as the protocol
\* wants them.
WellUpTo(n) == \A k \in 1..Len(sent) : k <= n => WellFormed(sent[k])
Good(f) == WellFormed(f) /\ (f.fd <=> f.type = "COMMIT")
GoodUpTo(n) == \A k \in 1..Len(sent) : k <= n => Good(sent[k])

\* However the stream is cut into reads, the frames handled are the frames
\* sent, each once, in order and with its own payload, up to the first frame
\* that lies about its length; the connection is closed only after a frame that
\* is malformed, or whose type and descriptor do not go together; and the loop
\* never leaves the buffer full (so the "receive buffer full" branch of
\* lgp_client_read_available is never taken).  What CLIPBOARD_GET answers is
\* the last text set, not mixed with the tail of a longer one before it.
FramesInOrder ==
  /\ \A i \in 1..Len(handled) :
       WellUpTo(i) => handled[i].frame = i /\ handled[i].pay = sent[i].pay
  /\ link = "closed" => ~GoodUpTo(Len(sent))
  /\ link = "idle" => Len(rx) < RxSize
  /\ got.data = Append(UpToNul(Kept(got.of)), NUL)

\* A commit gets the buffer that was sent with it, though descriptors are
\* queued when their first byte is read and commits are carried out later, and
\* any number of frames may lie between the two.
CommitsGetTheirBuffer ==
  \A i \in 1..Len(handled) :
    GoodUpTo(i) => handled[i].fd = IF sent[i].type = "COMMIT" THEN i ELSE NoFd

=============================================================================
