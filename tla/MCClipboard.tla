----------------------------- MODULE MCClipboard ----------------------------
(* The clipboard of one peer with two data channels.                       *)
EXTENDS ClipboardChannel, TLC

CONSTANTS a, b
ChannelSymmetry == Permutations({a, b})

\* A transfer of three formats, one of them empty.
Sizes == {<<0>>, <<1, 0, 1>>}

\* Once the last content has been sent, nothing depends on the senders and the buffers
\* any more, and nothing on the reservation of a channel that has been taken down.
Sent == sends = MaxSends /\ \A w \in Writers : writers[w].at \in {"idle", "done"}
Relevant ==
  <<receive, {c \in Channels \ cancelled : reserved[c]}, handler, timers, headers, answers,
    channelVars, IF Sent THEN <<>> ELSE sendVars>>
=============================================================================
