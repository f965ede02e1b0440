---------------------------- MODULE TileMessages ----------------------------
(***************************************************************************)
(* Two-sided messages that carry tiles, as csr_transfer uses MPI.          *)
(*                                                                         *)
(* Messages between two ranks with the same tag do not overtake.  A send   *)
(* completes when MPI has buffered it (eager) or when the receive it meets *)
(* has taken it; which of the two is MPI's choice, call by call.  Only an  *)
(* eager send takes the tile with it: the other reads the sender's buffer  *)
(* when it is met.  The three arrays of a tile travel together.            *)
(***************************************************************************)
EXTENDS ExecutionPlan, Sequences

CONSTANT SendModes   \* which of eager (TRUE) and rendezvous (FALSE) MPI uses

ASSUME SendModesAssumption == SendModes \in (SUBSET BOOLEAN) \ {{}}

VARIABLES
  posted,    \* [Rank -> receives posted and not yet met, as <<source, tag>>]
  channel    \* [Link -> messages not yet received]

\* Tags 20.. and 30.. carry the operands, tag 40.. the slices of a panel.
Tag == Operand \cup {"slice"}

\* Who may send to whom, and what: A tiles along a row, B tiles along a
\* column, slices inside a node.
Link ==
  {c \in Rank \X Rank \X Tag :
     LET q == c[1]  r == c[2]  tag == c[3] IN
     /\ q # r
     /\ tag # "b" => q.row = r.row
     /\ tag # "a" => q.col = r.col
     /\ tag # "slice" => q.nodeRank = r.nodeRank}

Message == [tile : TileOrNone, eager : BOOLEAN]

MessagesTypeOK ==
  /\ posted \in [Rank -> SUBSET (Rank \X Tag)]
  /\ channel \in [Link -> Seq(Message)]

MessagesInit ==
  /\ posted = [r \in Rank |-> {}]
  /\ channel = [c \in Link |-> <<>>]

\* receiveTile from every <<source, tag>> of receives.
receiveTiles(r, receives) == posted' = [posted EXCEPT ![r] = receives]

\* sendTile to every <<target, tag>> of sends; buffer[tag] is what a send of r
\* with that tag reads.
sendTiles(r, sends, buffer) ==
  \E eager \in SendModes :
    channel' = [c \in Link |->
      IF c[1] = r /\ <<c[2], c[3]>> \in sends
      THEN Append(channel[c],
                  [eager |-> eager,
                   tile |-> IF eager THEN buffer[c[3]] ELSE NoTile])
      ELSE channel[c]]

\* The posted receive recv of r meets the oldest message of its source and
\* tag, and takes the tile Received: that of the message, or what the sender's
\* buffer holds now.
Meet(r, recv) ==
  LET c == <<recv[1], r, recv[2]>> IN
  /\ recv \in posted[r]
  /\ channel[c] # <<>>
  /\ channel' = [channel EXCEPT ![c] = Tail(@)]
  /\ posted' = [posted EXCEPT ![r] = @ \ {recv}]

Received(r, recv, buffer) ==
  LET message == Head(channel[<<recv[1], r, recv[2]>>]) IN
  IF message.eager THEN message.tile ELSE buffer[recv[2]]

ReceivesComplete(r) == posted[r] = {}

\* Every send of r has been buffered or met.
SendsComplete(r) ==
  \A c \in Link : c[1] = r => \A i \in DOMAIN channel[c] : channel[c][i].eager

=============================================================================
