------------------------------- MODULE RtspRelay -------------------------------
(***************************************************************************)
(* The camera demo's way from the encoder to its RTSP clients              *)
(* (fltest_v4l2_npu): encoderDataReady writes the packets of the H.264     *)
(* encoder to a local stream socket while somebody listens; the RTSP       *)
(* server, one event loop of the live555 library, reads the socket in the  *)
(* middle of that loop.  The threads share the socket and the plain int    *)
(* send_status.                                                            *)
(*                                                                         *)
(* live555 makes one stream for all clients (reuseFirstSource), ends it    *)
(* with the last one, and plays another one for itself to get the SDP      *)
(* line: the probe, in an event loop inside the one that serves DESCRIBE.  *)
(* Both read the same socket and share send_status.  The socket carries    *)
(* bytes; here its items are the header (SPS and PPS) and the frames, and  *)
(* a read takes one of them.                                               *)
(***************************************************************************)
EXTENDS Integers, Sequences

CONSTANTS
  Room,        \* items the socket holds
  MaxClients   \* RTSP clients at a time

ASSUME Constants == Room \in Nat \ {0} /\ MaxClients \in Nat \ {0}

\* linked: the frame before it in the video is the item before it in the stream.
Item == [kind : {"head", "idr", "p"}, linked : BOOLEAN]
Header == [kind |-> "head", linked |-> FALSE]

VARIABLES
  h264headerflags,  \* the header packet has been stored
  rtsp_index,       \* 0: not relaying (rtsp_start is FALSE), 1: waiting for a key frame, 2
  out,              \* what the callback has still to write
  prevSent,         \* history: the last packet of the encoder was relayed
  sock,             \* the socket
  send_status,
  loop,             \* the event loop: "idle", or in a blocking read for "probe" or "stream"
  stream,           \* the clients' stream: "none", "ready" (after SETUP) or "playing"
  clients,          \* sessions that share the stream
  probe,            \* "none", "wait"ing for the header, or it has come: "head"
  sdp,              \* fAuxSDPLine is known
  cut,              \* history: the end of the one source cleared send_status under the other
  keyed             \* history: the stream has read a key frame

encoder == <<h264headerflags, rtsp_index, out, prevSent>>
server  == <<loop, stream, clients, probe, sdp, cut, keyed>>
vars == <<encoder, sock, send_status, server>>

Init ==
  /\ h264headerflags = FALSE /\ rtsp_index = 0 /\ out = <<>> /\ prevSent = FALSE
  /\ sock = <<>> /\ send_status = 0
  /\ loop = "idle" /\ stream = "none" /\ clients = 0 /\ probe = "none" /\ sdp = FALSE
  /\ cut = FALSE /\ keyed = FALSE

-------------------------------------------------------------------------------
(* The encoder's thread: encoderDataReady.                                  *)

\* get_rtsp_connect_status, looked at once per packet.
IndexSeen == IF rtsp_index = 0 THEN send_status
             ELSE IF send_status = 0 THEN 0 ELSE rtsp_index

\* What becomes of a frame: the relay starts with the header and a key frame.
\* Mutant: it starts with any frame.
RelayAnyFrame(frame, i) ==
  IF i = 0 THEN <<>> ELSE IF i = 1 THEN <<Header, frame>> ELSE <<frame>>
Relay(frame, i) ==
  CASE i = 0 -> <<>>
    [] i = 1 -> IF frame.kind = "idr" THEN <<Header, frame>> ELSE <<>>
    [] i = 2 -> <<frame>>

\* The first packet of the encoder is the header.
HeaderPacket ==
  /\ ~h264headerflags /\ h264headerflags' = TRUE
  /\ rtsp_index' = IndexSeen
  /\ UNCHANGED <<out, prevSent, sock, send_status, server>>

Frame(kind) ==
  /\ h264headerflags /\ out = <<>>
  /\ out' = Relay([kind |-> kind, linked |-> prevSent], IndexSeen)
  /\ prevSent' = (out' # <<>>)
  /\ rtsp_index' = IF out' # <<>> THEN 2 ELSE IndexSeen
  /\ UNCHANGED <<h264headerflags, sock, send_status, server>>

\* write blocks while the socket is full.
Write ==
  /\ out # <<>> /\ Len(sock) < Room
  /\ sock' = Append(sock, Head(out)) /\ out' = Tail(out)
  /\ UNCHANGED <<h264headerflags, rtsp_index, prevSent, send_status, server>>

-------------------------------------------------------------------------------
(* The RTSP server.  Its event loop handles a request when it does not read. *)

\* createNewStreamSource and createNewRTPSink.
NewSource == loop = "idle" /\ send_status' = 1 /\ cut' = FALSE

\* A DESCRIBE before the SDP line is known plays a source of its own until the header has
\* come.  Other requests are served meanwhile; another DESCRIBE makes a source that is
\* never played and waits for the same header.
Describe ==
  /\ ~sdp /\ NewSource /\ probe' = IF probe = "none" THEN "wait" ELSE probe
  /\ UNCHANGED <<encoder, sock, loop, stream, clients, sdp, keyed>>

\* The SDP line is there: the source is closed, which calls doStopGettingFrames.
GotSDP ==
  /\ loop = "idle" /\ probe = "head"
  /\ sdp' = TRUE /\ probe' = "none" /\ send_status' = 0 /\ cut' = (stream # "none")
  /\ UNCHANGED <<encoder, sock, loop, stream, clients, keyed>>

\* SETUP, with or without a DESCRIBE before it, makes the stream or joins it.
Setup ==
  /\ clients < MaxClients /\ clients' = clients + 1
  /\ \/ stream = "none" /\ NewSource /\ stream' = "ready" /\ keyed' = FALSE
     \/ loop = "idle" /\ stream # "none" /\ UNCHANGED <<send_status, stream, cut, keyed>>
  /\ UNCHANGED <<encoder, sock, loop, probe, sdp>>
Play ==
  /\ loop = "idle" /\ stream = "ready" /\ stream' = "playing"
  /\ UNCHANGED <<encoder, sock, send_status, loop, clients, probe, sdp, cut, keyed>>

\* TEARDOWN, or the session times out.  With the last client the stream goes, and if it
\* was playing, doStopGettingFrames is called.  Mutants: every client stops it; the stream
\* stays.
StreamEndsForAll(last) ==
  IF stream = "playing" THEN send_status' = 0 /\ cut' = (probe # "none")
                        ELSE UNCHANGED <<send_status, cut>>
StreamEnds(last) ==
  IF last /\ stream = "playing" THEN send_status' = 0 /\ cut' = (probe # "none")
                                ELSE UNCHANGED <<send_status, cut>>
TeardownKeepsStream ==
  /\ loop = "idle" /\ clients > 0 /\ clients' = clients - 1
  /\ UNCHANGED stream
  /\ StreamEnds(clients = 1)
  /\ UNCHANGED <<encoder, sock, loop, probe, sdp, keyed>>
Teardown ==
  /\ loop = "idle" /\ clients > 0 /\ clients' = clients - 1
  /\ stream' = IF clients = 1 THEN "none" ELSE stream
  /\ StreamEnds(clients = 1)
  /\ UNCHANGED <<encoder, sock, loop, probe, sdp, keyed>>

\* doGetNextFrame: a blocking read in the event loop.  Mutant: not for the SDP line.
BeginReadPlaying ==
  /\ loop = "idle" /\ loop' = "stream" /\ stream = "playing"
  /\ UNCHANGED <<encoder, sock, send_status, stream, clients, probe, sdp, cut, keyed>>
BeginRead ==
  /\ loop = "idle"
  /\ \/ loop' = "probe" /\ probe # "none"
     \/ loop' = "stream" /\ stream = "playing"
  /\ UNCHANGED <<encoder, sock, send_status, stream, clients, probe, sdp, cut, keyed>>
Read ==
  /\ loop # "idle" /\ sock # <<>>
  /\ sock' = Tail(sock) /\ loop' = "idle"
  /\ probe' = IF loop = "probe" /\ Head(sock).kind = "head" THEN "head" ELSE probe
  /\ keyed' = (keyed \/ (loop = "stream" /\ Head(sock).kind = "idr"))
  /\ UNCHANGED <<encoder, send_status, stream, clients, sdp, cut>>

-------------------------------------------------------------------------------

Encoder == HeaderPacket \/ Frame("idr") \/ Frame("p") \/ Write
Server == Describe \/ GotSDP \/ Setup \/ Play \/ Teardown \/ BeginRead \/ Read

Next == Encoder \/ Server

Spec == Init /\ [][Next]_vars

\* The threads are scheduled, the camera delivers, and the encoder makes a key frame
\* again and again.  Nothing is assumed of the clients.
FairSpec == /\ Spec
            /\ WF_vars(HeaderPacket \/ Write) /\ SF_vars(Frame("idr"))
            /\ WF_vars(BeginRead \/ GotSDP) /\ WF_vars(Read)

-------------------------------------------------------------------------------
(* Properties.                                                              *)

TypeOK ==
  /\ h264headerflags \in BOOLEAN /\ rtsp_index \in 0..2 /\ prevSent \in BOOLEAN
  /\ out \in Seq(Item) /\ Len(out) <= 2
  /\ sock \in Seq(Item) /\ Len(sock) <= Room
  /\ send_status \in 0..1 /\ loop \in {"idle", "probe", "stream"}
  /\ stream \in {"none", "ready", "playing"} /\ probe \in {"none", "wait", "head"}
  /\ clients \in 0..MaxClients /\ (clients > 0 <=> stream # "none")
  /\ sdp \in BOOLEAN /\ cut \in BOOLEAN /\ keyed \in BOOLEAN

\* The bytes in the socket can be decoded, wherever the clients came and went: a frame
\* that needs the frame before it follows that frame, and the header is followed by a key
\* frame.  The relay gives up or goes on only between packets.
Sent == sock \o out
Decodable ==
  \A i \in DOMAIN Sent :
    /\ Sent[i].kind = "p" => Sent[i].linked /\ (i > 1 => Sent[i-1].kind # "head")
    /\ Sent[i].kind = "head" => i < Len(Sent) /\ Sent[i+1].kind = "idr"

\* The read in the event loop, during which the server does not hear its clients, comes to
\* an end: send_status stays 1 while a source is played.  The one exception (cut) is a
\* client that sends SETUP before the first DESCRIBE has its SDP line: its stream and the
\* probe each clear send_status under the other, and the next read never returns.
ReadsEnd == loop # "idle" ~> loop = "idle" \/ cut

\* Whoever plays gets a key frame to begin with, as long as he stays: neither what the stream
\* before has left in the socket, nor an encoder that did not see it end (and sends no
\* header), nor clients that come and go keep it from him.  Nothing is promised where the
\* probe reads from the same socket (it may take every key frame), nor once send_status was
\* cleared under the stream: both need a SETUP before the first SDP line.
Playing == stream = "playing" /\ probe = "none"
PlayersSee == Playing ~> keyed \/ ~Playing \/ cut

\* The encoder's thread, and the capture behind it, waits for room in the socket only while
\* nobody plays: there it stays, if the client of a stream that is set up never plays it.
Consumed == probe # "none" \/ stream = "playing"
WritesEnd == out # <<>> ~> out = <<>> \/ ~Consumed
===============================================================================
