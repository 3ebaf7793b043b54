-------------------------- MODULE ClipboardChannel --------------------------
(***************************************************************************)
(* The clipboard data channels of one peer (webrtc/clipboard.go): the      *)
(* handler of each channel, the timer of a transfer, the goroutines that   *)
(* send content to the browser, and the replacement and the closing of a   *)
(* channel.  The controllers of the clipboard and of the input are the     *)
(* environment here: a Set takes its time and ends either way, contents    *)
(* come and the input is won and lost at any time.                         *)
(*                                                                         *)
(* A channel hands its messages to its handler one at a time, so a message *)
(* is chosen when it is handled.  The bytes of a payload are numbered.     *)
(***************************************************************************)
EXTENDS Integers, Sequences, FiniteSets

CONSTANTS
  Channels,    \* the data channels that the browser may open
  Declared,    \* the declared sizes of the transfers: sequences of Nat
  ChunkBytes,  \* clipboardChunkBytes
  MaxHeaders,  \* bound: headers that the browser sends
  MaxSends     \* bound: contents that are sent to the browser

ASSUME ChannelAssumption ==
  /\ Declared \subseteq Seq(Nat) /\ <<>> \notin Declared
  /\ {ChunkBytes, MaxHeaders, MaxSends} \subseteq Nat
  /\ IsFiniteSet(Channels) /\ Channels \cap {"none", "acquired"} = {}

VARIABLES
  known,      \* the channels that the browser has opened so far
  current,    \* peer.clipboardState: a channel, or "none"
  replaced,   \* the channel that setClipboardChannel is taking down, or "none"
  cancelled,  \* the channels whose context is done
  closed,     \* the channels whose closed is closed
  receive,    \* the transfer each channel is receiving
  reserved,   \* receiveReserved of each
  handler,    \* where each handler is, and the transfer it has in hand
  timers,     \* the timers that are armed or have fired and not yet run
  headers,    \* headers so far: the id of the last one
  writers,    \* the goroutines that send content: where each is, and its channel
  sends,      \* contents that were to be sent so far, for the bound
  sendMu,     \* who holds peer.clipboardWriteMu
  high,       \* the channels that have too much in their buffer
  low,        \* the channels with a token in bufferedLow
  answers     \* history: answers that each header got

receiveVars == <<receive, reserved, handler, timers, headers, answers>>
channelVars == <<known, current, replaced, cancelled, closed>>
sendVars == <<writers, sends, sendMu, high, low>>
vars == <<receiveVars, channelVars, sendVars>>

\* The goroutine of sendLatestClipboard, beside those of the subscribers.
Writers == Channels \cup {"acquired"}

NoReceive == [id |-> 0, sizes |-> <<>>, index |-> 0, written |-> 0, data |-> <<>>,
              arrived |-> 0, activity |-> 0]
Idle == [at |-> "idle", receive |-> NoReceive]

clipboardCurrent(c) == current = c /\ c \notin cancelled

Init ==
  /\ known = {} /\ current = "none" /\ replaced = "none"
  /\ cancelled = {} /\ closed = {}
  /\ receive = [c \in Channels |-> NoReceive]
  /\ reserved = [c \in Channels |-> FALSE]
  /\ handler = [c \in Channels |-> Idle]
  /\ timers = {} /\ headers = 0 /\ answers = [id \in 1 .. MaxHeaders |-> 0]
  /\ writers = [w \in Writers |-> [at |-> "idle", channel |-> "none"]]
  /\ sends = 0 /\ sendMu = "none" /\ high = {} /\ low = {}

-----------------------------------------------------------------------------
(* The algorithm that spreads chunks over the declared formats.            *)

\* The first format from an index on that takes data.
NextFormat_Plain(sizes, from) == from
NextFormat(sizes, from) ==
  CHOOSE i \in from .. Len(sizes) + 1 :
    /\ i = Len(sizes) + 1 \/ sizes[i] > 0
    /\ \A j \in from .. i - 1 : sizes[j] = 0

NewReceive(id, sizes) ==
  [NoReceive EXCEPT !.id = id, !.sizes = sizes, !.index = NextFormat(sizes, 1),
                    !.data = [i \in 1 .. Len(sizes) |-> <<>>]]

Complete(r) == r.index > Len(r.sizes)

\* One byte goes to the format whose turn it is.
PutByte(r) ==
  LET full == r.written + 1 = r.sizes[r.index]
  IN [r EXCEPT !.data[r.index] = Append(@, r.arrived + 1),
               !.arrived = r.arrived + 1,
               !.written = IF full THEN 0 ELSE @ + 1,
               !.index = IF full THEN NextFormat(r.sizes, @ + 1) ELSE @]

\* A chunk fills the formats until it, or they, are used up.
Fill(r, length) ==
  LET filled[n \in 0 .. length] ==
        IF n = 0 THEN r
        ELSE IF Complete(filled[n - 1]) THEN filled[n - 1] ELSE PutByte(filled[n - 1])
  IN filled[length]

Left(r, length) == length - (Fill(r, length).arrived - r.arrived)

-----------------------------------------------------------------------------
(* armClipboardReceiveTimer.                                               *)

\* timer.Stop: a timer that has fired is not stopped.
Stopped(c, r) == {t \in timers : t.channel = c /\ t.id = r.id /\ t.at = "armed"}

Armed(c, r) ==
  (timers \ Stopped(c, r)) \cup
    {[channel |-> c, id |-> r.id, activity |-> r.activity, at |-> "armed"]}

TimerAt(t, where) == timers' = (timers \ {t}) \cup {[t EXCEPT !.at = where]}

TimerFires(t) ==
  /\ t \in timers /\ t.at = "armed"
  /\ TimerAt(t, "fired")
  /\ UNCHANGED <<receive, reserved, handler, headers, answers, channelVars,
                 sendVars>>

\* The callback gives the transfer up, unless it is over or has moved on.
TimerExpires_AnyTransfer(t) == receive[t.channel].activity = t.activity
TimerExpires(t) ==
  receive[t.channel].id = t.id /\ receive[t.channel].activity = t.activity

TimerRuns(t) ==
  /\ t \in timers /\ t.at = "fired"
  /\ IF TimerExpires(t)
       THEN TimerAt(t, "answer") /\ receive' = [receive EXCEPT ![t.channel] = NoReceive]
       ELSE timers' = timers \ {t} /\ UNCHANGED receive
  /\ UNCHANGED <<reserved, handler, headers, answers, channelVars, sendVars>>

TimerAnswers(t) ==
  /\ t \in timers /\ t.at = "answer" /\ sendMu = "none"
  /\ timers' = timers \ {t}
  /\ answers' = [answers EXCEPT ![t.id] = @ + 1]
  /\ UNCHANGED <<receive, reserved, handler, headers, channelVars, sendVars>>

-----------------------------------------------------------------------------
(* handleClipboardMessage and finishClipboardReceive.                      *)

MayHandle(c) == handler[c].at = "idle" /\ clipboardCurrent(c)

\* The handler is about to answer a header: with a result or an error.
Answering(c, r) == handler' = [handler EXCEPT ![c] = [at |-> "answer", receive |-> r]]

\* A header that is malformed, comes without the input, or during a transfer.
HeaderRefused(c) ==
  /\ MayHandle(c) /\ headers < MaxHeaders
  /\ headers' = headers + 1
  /\ Answering(c, [NoReceive EXCEPT !.id = headers + 1])
  /\ UNCHANGED <<receive, reserved, timers, answers, channelVars, sendVars>>

HeaderReserves(c, sizes) ==
  /\ MayHandle(c) /\ headers < MaxHeaders
  /\ receive[c] = NoReceive /\ ~reserved[c]
  /\ headers' = headers + 1
  /\ reserved' = [reserved EXCEPT ![c] = TRUE]
  /\ handler' = [handler EXCEPT ![c] = [at |-> "install",
                                        receive |-> NewReceive(headers + 1, sizes)]]
  /\ UNCHANGED <<receive, timers, answers, channelVars, sendVars>>

\* The second section: the transfer begins, unless the channel was taken down
\* since; one without any bytes is finished at once.
HeaderInstalls(c) ==
  /\ handler[c].at = "install"
  /\ reserved' = [reserved EXCEPT ![c] = FALSE]
  /\ LET r == [handler[c].receive EXCEPT !.activity = 1]
     IN IF ~clipboardCurrent(c)
          THEN /\ handler' = [handler EXCEPT ![c] = Idle]
               /\ UNCHANGED <<receive, timers>>
        ELSE IF Complete(r)
          THEN /\ handler' = [handler EXCEPT ![c].at = "finish"]
               /\ UNCHANGED <<receive, timers>>
        ELSE /\ handler' = [handler EXCEPT ![c] = Idle]
             /\ receive' = [receive EXCEPT ![c] = r]
             /\ timers' = Armed(c, r)
  /\ UNCHANGED <<headers, answers, channelVars, sendVars>>

\* A chunk: the timer starts again, and the bytes go to their formats.  More of
\* them than declared end the transfer with an error.
Chunk(c, length) ==
  /\ MayHandle(c) /\ receive[c] # NoReceive
  /\ LET filled == Fill(receive[c], length)
         r == [receive[c] EXCEPT !.index = filled.index, !.written = filled.written,
                                 !.data = filled.data, !.arrived = filled.arrived,
                                 !.activity = @ + 1]
     IN IF Left(receive[c], length) > 0
          THEN /\ Answering(c, r)
               /\ receive' = [receive EXCEPT ![c] = NoReceive]
               /\ timers' = timers \ Stopped(c, r)
        ELSE IF Complete(r)
          THEN /\ handler' = [handler EXCEPT ![c] = [at |-> "finish", receive |-> r]]
               /\ receive' = [receive EXCEPT ![c] = NoReceive]
               /\ timers' = timers \ Stopped(c, r)
        ELSE /\ receive' = [receive EXCEPT ![c] = r]
             /\ timers' = Armed(c, r)
             /\ UNCHANGED handler
  /\ UNCHANGED <<reserved, headers, answers, channelVars, sendVars>>

\* A chunk that is too large ends the transfer, if there is one; a chunk without a
\* transfer is refused.  The error names no transfer.
ChunkRefused(c) ==
  /\ MayHandle(c)
  /\ timers' = timers \ Stopped(c, receive[c])
  /\ receive' = [receive EXCEPT ![c] = NoReceive]
  /\ Answering(c, NoReceive)
  /\ UNCHANGED <<reserved, headers, answers, channelVars, sendVars>>

\* The content is complete: it is set if the channel is current and the peer owns
\* the input.
FinishChecks(c) ==
  /\ handler[c].at = "finish"
  /\ \/ ~clipboardCurrent(c) /\ handler' = [handler EXCEPT ![c] = Idle]
     \/ clipboardCurrent(c) /\ Answering(c, handler[c].receive)
     \/ clipboardCurrent(c) /\ handler' = [handler EXCEPT ![c].at = "set"]
  /\ UNCHANGED <<receive, reserved, timers, headers, answers, channelVars,
                 sendVars>>

\* Controller.Set has returned: the answer, a result or an error, is sent if the
\* channel is still current.
SetReturns(c) ==
  /\ handler[c].at = "set"
  /\ IF clipboardCurrent(c) THEN Answering(c, handler[c].receive)
     ELSE handler' = [handler EXCEPT ![c] = Idle]
  /\ UNCHANGED <<receive, reserved, timers, headers, answers, channelVars, sendVars>>

\* writeClipboardMessage.
Answer(c) ==
  /\ handler[c].at = "answer" /\ sendMu = "none"
  /\ answers' = [id \in DOMAIN answers |->
                   IF id = handler[c].receive.id THEN answers[id] + 1 ELSE answers[id]]
  /\ handler' = [handler EXCEPT ![c] = Idle]
  /\ UNCHANGED <<receive, reserved, timers, headers, channelVars, sendVars>>

-----------------------------------------------------------------------------
(* setClipboardChannel.                                                    *)

\* The new channel becomes the current one.
OpenSwaps(c) ==
  /\ c \notin known /\ replaced = "none"
  /\ known' = known \cup {c}
  /\ current' = c /\ replaced' = current
  /\ UNCHANGED <<cancelled, closed, receiveVars, sendVars>>

\* The context of the previous one ends before the mutex is taken again.
OpenCancels ==
  /\ replaced # "none" /\ replaced \notin cancelled
  /\ cancelled' = cancelled \cup {replaced}
  /\ UNCHANGED <<known, current, replaced, closed, receiveVars, sendVars>>

\* A transfer on a channel that goes down is dropped without an answer.
DropTransfer(c) ==
  /\ timers' = timers \ Stopped(c, receive[c])
  /\ receive' = [receive EXCEPT ![c] = NoReceive]
  /\ reserved' = [reserved EXCEPT ![c] = FALSE]

OpenClears_LeftOpen ==
  /\ replaced \in cancelled
  /\ DropTransfer(replaced)
  /\ replaced' = "none"
  /\ UNCHANGED <<handler, headers, answers, known, current, cancelled, closed, sendVars>>
OpenClears ==
  /\ replaced \in cancelled
  /\ DropTransfer(replaced)
  /\ closed' = closed \cup {replaced}
  /\ replaced' = "none"
  /\ UNCHANGED <<handler, headers, answers, known, current, cancelled,
                 sendVars>>

\* cleanup, on OnClose and OnError: the context ends, then the transfer.
Closes(c) ==
  /\ c \in known \ cancelled
  /\ cancelled' = cancelled \cup {c}
  /\ UNCHANGED <<known, current, replaced, closed, receiveVars, sendVars>>

ClosesCurrent(c) ==
  /\ c \in cancelled /\ current = c
  /\ DropTransfer(c)
  /\ current' = "none"
  /\ closed' = closed \cup {c}
  /\ UNCHANGED <<handler, headers, answers, known, replaced, cancelled,
                 sendVars>>

-----------------------------------------------------------------------------
(* The goroutines that send content to the browser.                        *)

WriterAt(w, where) == writers' = [writers EXCEPT ![w].at = where]

\* OnOpen has started a subscriber, and it receives a content while the peer owns
\* the input.  Without the input it drops the content, and it may go on after its
\* context is done.
WriterReceives(c) ==
  /\ c \in known /\ writers[c].at = "idle" /\ sends < MaxSends
  /\ sends' = sends + 1
  /\ writers' = [writers EXCEPT ![c] = [at |-> "write", channel |-> c]]
  /\ UNCHANGED <<sendMu, high, low, receiveVars, channelVars>>

\* The input is acquired, and sendLatestClipboard finds a channel and a content.
sendLatestClipboard ==
  /\ writers["acquired"].at = "idle" /\ current # "none" /\ sends < MaxSends
  /\ sends' = sends + 1
  /\ writers' = [writers EXCEPT !["acquired"] = [at |-> "write", channel |-> current]]
  /\ UNCHANGED <<sendMu, high, low, receiveVars, channelVars>>

\* writeClipboardContent: the mutex is held from the header to the last chunk.
WriteHeader(w) ==
  /\ writers[w].at = "write" /\ sendMu = "none"
  /\ clipboardCurrent(writers[w].channel)
  /\ sendMu' = w
  /\ WriterAt(w, "chunk")
  /\ UNCHANGED <<sends, high, low, receiveVars, channelVars>>

\* The buffer is over the limit, and the goroutine is about to wait.
WriteWaits(w) ==
  /\ writers[w].at = "chunk" /\ clipboardCurrent(writers[w].channel)
  /\ writers[w].channel \in high
  /\ WriterAt(w, "wait")
  /\ UNCHANGED <<sends, sendMu, high, low, receiveVars, channelVars>>

\* A chunk goes out, perhaps the last one, and perhaps the buffer runs full.
WriteChunk(w) ==
  LET c == writers[w].channel
  IN /\ \/ writers[w].at = "chunk" /\ clipboardCurrent(c) /\ c \notin high /\ low' = low
        \/ writers[w].at = "wait" /\ c \in low /\ low' = low \ {c}
     /\ \/ high' = high \/ high' = high \cup {c}
     /\ \/ WriterAt(w, "chunk") /\ UNCHANGED sendMu
        \/ WriterAt(w, "idle") /\ sendMu' = "none"
     /\ UNCHANGED <<sends, receiveVars, channelVars>>

\* The channel is gone: the goroutine lets the mutex go, and a subscriber ends.
WriteAborts(w) ==
  LET c == writers[w].channel
  IN /\ \/ writers[w].at \in {"write", "chunk"} /\ ~clipboardCurrent(c)
        \/ writers[w].at = "wait" /\ c \in closed
     /\ sendMu' = IF sendMu = w THEN "none" ELSE sendMu
     /\ WriterAt(w, IF w \in Channels THEN "done" ELSE "idle")
     /\ UNCHANGED <<sends, high, low, receiveVars, channelVars>>

\* OnBufferedAmountLow: the browser has taken what was in the buffer.
Drains(c) ==
  /\ c \in high
  /\ high' = high \ {c}
  /\ low' = low \cup {c}
  /\ UNCHANGED <<writers, sends, sendMu, receiveVars, channelVars>>

-----------------------------------------------------------------------------
Browser(c) ==
  \/ HeaderRefused(c) \/ HeaderInstalls(c) \/ ChunkRefused(c)
  \/ \E sizes \in Declared : HeaderReserves(c, sizes)
  \/ \E length \in 1 .. ChunkBytes : Chunk(c, length)
  \/ FinishChecks(c) \/ SetReturns(c) \/ Answer(c)
  \/ OpenSwaps(c) \/ Closes(c) \/ ClosesCurrent(c) \/ Drains(c)
  \/ WriterReceives(c)

Next ==
  \/ OpenCancels \/ OpenClears \/ sendLatestClipboard
  \/ \E c \in Channels : Browser(c)
  \/ \E t \in timers : TimerFires(t) \/ TimerRuns(t) \/ TimerAnswers(t)
  \/ \E w \in Writers : WriteHeader(w) \/ WriteWaits(w) \/ WriteChunk(w) \/ WriteAborts(w)

Spec == Init /\ [][Next]_vars

-----------------------------------------------------------------------------
(* What the channels promise.                                              *)

\* Who may still answer a transfer: the channel that receives it, the handler that has
\* it in hand, the timer that has given it up.
Receiving(id) == {c \in Channels : receive[c].id = id}
Handling(id) == {c \in Channels : handler[c].receive.id = id}
Expired(id) == {t \in timers : t.at = "answer" /\ t.id = id}
Holders(id) == Receiving(id) \cup {<<c>> : c \in Handling(id)} \cup Expired(id)

\* A transfer is answered at most once, and not while anything can still answer it
\* (clipboard.go: the handler, the timer and the end of a channel race for it).
AnsweredOnce ==
  \A id \in 1 .. MaxHeaders : answers[id] + Cardinality(Holders(id)) <= 1

\* The bytes of a payload before a format.
Before(sizes, i) ==
  LET sum[k \in 0 .. Len(sizes)] == IF k = 0 THEN 0 ELSE sum[k - 1] + sizes[k]
  IN sum[i - 1]

\* The bytes that a format should have: those of its own that have arrived.
Part(r, i) ==
  LET n == r.arrived - Before(r.sizes, i)
  IN IF n < 0 THEN 0 ELSE IF n > r.sizes[i] THEN r.sizes[i] ELSE n

\* What has arrived of a transfer is spread over the formats as they were declared,
\* however the chunks were cut and wherever formats are empty; a transfer is set on
\* the desktop with all of its bytes and none else (clipboard.go: the loops over
\* receive.index in handleClipboardMessage).
FormatsExact ==
  /\ \A c \in Channels : handler[c].at \in {"finish", "set"} =>
       LET r == handler[c].receive IN r.arrived = Before(r.sizes, Len(r.sizes) + 1)
  /\ \A r \in {receive[c] : c \in Channels} \cup {handler[c].receive : c \in Channels} :
       \A i \in 1 .. Len(r.sizes) :
         r.data[i] = [k \in 1 .. Part(r, i) |-> Before(r.sizes, i) + k]

\* A goroutine that waits for room in the buffer of a channel, with clipboardWriteMu
\* held, will be woken: by its token, because the channel is closed, or by the
\* browser on a channel that nobody has taken down (clipboard.go: bufferedLow and
\* closed against setClipboardChannel and cleanup).
WriterReleased ==
  \A w \in Writers : writers[w].at = "wait" =>
    LET c == writers[w].channel
    IN c \in low \/ c \in closed \/ (c \in high /\ c \in {current, replaced})

-----------------------------------------------------------------------------
(* The inductive invariant behind AnsweredOnce and WriterReleased.         *)

\* The shape of a transfer; its id is one that a header has had, or 0.
Transfer(r) ==
  DOMAIN r = DOMAIN NoReceive /\ r.id \in 0 .. headers /\ r.activity \in Nat

TimerSteps == {"armed", "fired", "answer"}
WriterSteps == {"idle", "write", "chunk", "wait", "done"}

ReceiveTypes ==
  /\ headers \in 0 .. MaxHeaders /\ answers \in [1 .. MaxHeaders -> {0, 1}]
  /\ DOMAIN receive = Channels /\ DOMAIN handler = Channels
  /\ \A c \in Channels : /\ Transfer(receive[c]) /\ Transfer(handler[c].receive)
                         /\ DOMAIN handler[c] = DOMAIN Idle
  /\ timers \subseteq [channel : Channels, id : 0 .. headers, activity : Nat,
                       at : TimerSteps]
SendTypes ==
  /\ current \in Channels \cup {"none"} /\ replaced \in Channels \cup {"none"}
  /\ cancelled \subseteq Channels
  /\ writers \in [Writers -> [at : WriterSteps, channel : Channels \cup {"none"}]]
TypeOK == ReceiveTypes /\ SendTypes

\* One holds a transfer; one that was answered, or has not begun, has no holder.
HeldOnce(id) ==
  /\ \A c, d \in Receiving(id) : c = d
  /\ \A c, d \in Handling(id) : c = d
  /\ \A s, t \in Expired(id) : s = t
  /\ Receiving(id) = {} \/ Handling(id) = {}
  /\ Receiving(id) = {} \/ Expired(id) = {}
  /\ Handling(id) = {} \/ Expired(id) = {}
  /\ answers[id] = 1 \/ id > headers =>
       Receiving(id) = {} /\ Handling(id) = {} /\ Expired(id) = {}
  /\ id > headers => answers[id] = 0
OneHolder == \A id \in 1 .. MaxHeaders : HeldOnce(id)

\* The goroutine that has sent a header and not all of its content holds the mutex, and
\* one that has a content to send has a channel.
OneSender ==
  \A w \in Writers :
    /\ writers[w].at \in {"chunk", "wait"} => sendMu = w
    /\ writers[w].at \in {"write", "chunk", "wait"} => writers[w].channel \in Channels

IInv == TypeOK /\ OneHolder /\ OneSender /\ WriterReleased

-----------------------------------------------------------------------------
(* The inductive invariant behind FormatsExact.                            *)

\* The formats before the one whose turn it is are full, and those after it empty.
Filled(r, i) ==
  IF i < r.index THEN r.sizes[i] ELSE IF i = r.index THEN r.written ELSE 0

Spread(r) ==
  /\ r.sizes \in Seq(Nat) /\ r.index \in 1 .. Len(r.sizes) + 1 /\ r.written \in Nat
  /\ IF Complete(r) THEN r.written = 0 ELSE r.written < r.sizes[r.index]
  /\ r.arrived = Before(r.sizes, r.index) + r.written
  /\ DOMAIN r.data = 1 .. Len(r.sizes)
  /\ \A i \in 1 .. Len(r.sizes) :
       r.data[i] = [k \in 1 .. Filled(r, i) |-> Before(r.sizes, i) + k]

SpreadInv ==
  \A c \in Channels :
    LET r == handler[c].receive IN
    /\ receive[c] = NoReceive \/ Spread(receive[c])
    /\ r.sizes = <<>> \/ Spread(r)
    /\ handler[c].at = "install" => Spread(r)
    /\ handler[c].at \in {"finish", "set"} => Spread(r) /\ Complete(r)
=============================================================================
