---------------------------- MODULE ReceiveBuffer ----------------------------
(***************************************************************************)
(* What server_loop reads into receive_buffer and handle_receive_bufffer   *)
(* makes of it (firmware/src/server.c), for one socket.  TCP delivers the  *)
(* commands as a stream: a read may hold several of them, or a part of     *)
(* one, and what a read leaves in the buffer is there at the next.  In the *)
(* same turn, after the read, the socket is sent the text there is.        *)
(*                                                                         *)
(* A command is sent in two pieces, of which commands may share one, and   *)
(* the end character; the stream can break between any two pieces.  Sizes  *)
(* are counted in pieces of one to three bytes.  Reads fit in the buffer.  *)
(*                                                                         *)
(* The client and the chip are external.  A definition named D_Xyz is D    *)
(* with a plausible bug, for the runs that check that a property would     *)
(* notice it; the specification uses none.                                 *)
(***************************************************************************)
EXTENDS Integers, FiniteSetsExt, SequencesExt

CONSTANTS
  Commands,     \* what the parser recognises, each a pair of pieces
  VAK1,         \* the command after which receive_size is 1
  MaxSent,      \* bound: commands sent on a connection
  BUFFER_SIZE

End == "#"
Zero == "0"

ASSUME CommandsAssumption ==
  /\ VAK1 \in Commands
  /\ \A c \in Commands : c = <<c[1], c[2]>> /\ {c[1], c[2]} \cap {End, Zero} = {}
ASSUME SizesAssumption == MaxSent \in Nat /\ BUFFER_SIZE \in Nat /\ BUFFER_SIZE > 3

VARIABLES
  pc,              \* poll (server_loop) or handle (handle_receive_bufffer)
  receive_buffer, receive_size,
  sent,            \* external: commands the client has sent
  stream,          \* external: what is on its way to the chip
  rx,              \* external: what the chip has received, Sn_RX_RSR pieces
  lastRead,        \* history: what the last recv returned
  handled,         \* history: the messages made of it
  told,            \* history: the text sent in the last turn: nothing, whole, spoilt
  cut              \* history: the read before the last one had no end character

bufferVars == <<receive_buffer, receive_size>>
history == <<lastRead, handled, told, cut>>
vars == <<pc, bufferVars, sent, stream, rx, history>>

Places == 0..BUFFER_SIZE - 1

Init ==
  /\ pc = "poll"
  /\ receive_buffer = [k \in Places |-> Zero]
  /\ receive_size = 0
  /\ sent = 0
  /\ stream = <<>>
  /\ rx = <<>>
  /\ lastRead = <<>>
  /\ handled = <<>>
  /\ told = "nothing"
  /\ cut = FALSE

-----------------------------------------------------------------------------
(* server_loop in SOCK_ESTABLISHED *)

(* memset clears the buffer from receive_size on, and as many bytes behind  *)
(* it: there the build keeps first receive_size itself and then, from the  *)
(* fourth byte on, which is in the second piece at the earliest, the text. *)
Cleared == [k \in Places |-> IF k < receive_size THEN receive_buffer[k] ELSE Zero]

SizeAfterClear == {receive_size, 0}

Sendable == {"nothing", "whole"}
TextAfterClear == Sendable \cup (IF receive_size > 1 THEN {"spoilt"} ELSE {})

WithoutEnd(read) == read # <<>> /\ End \notin ToSet(read)

(* recv writes to the start of the buffer, whatever is there. *)
Filled_Appends(buffer, read) ==
  [k \in Places |-> IF k \in receive_size..receive_size + Len(read) - 1
                    THEN read[k - receive_size + 1] ELSE buffer[k]]

Filled(buffer, read) ==
  [k \in Places |-> IF k < Len(read) THEN read[k + 1] ELSE buffer[k]]

Receive ==
  /\ pc = "poll"
  /\ rx # <<>>
  /\ receive_buffer' = Filled(Cleared, rx)
  /\ \E left \in SizeAfterClear : receive_size' = left + Len(rx)
  /\ rx' = <<>>
  /\ lastRead' = rx
  /\ handled' = <<>>
  /\ told' \in TextAfterClear
  /\ cut' = WithoutEnd(lastRead)
  /\ pc' = "handle"
  /\ UNCHANGED <<sent, stream>>

(* Nothing was received, but what is in the buffer is looked at again. *)
ReceiveNothing ==
  /\ pc = "poll"
  /\ rx = <<>>
  /\ told' \in Sendable
  /\ pc' = "handle"
  /\ UNCHANGED <<bufferVars, sent, stream, rx, lastRead, handled, cut>>

-----------------------------------------------------------------------------
(* handle_receive_bufffer, in the loop that calls it until it returns FALSE *)

(* strnstr: the end characters among the first receive_size bytes, up to a  *)
(* zero.                                                                   *)
Ends ==
  {k \in Places : /\ k < receive_size
                  /\ receive_buffer[k] = End
                  /\ \A j \in 0..k - 1 : receive_buffer[j] # Zero}

Text(end) == [k \in 1..end |-> receive_buffer[k - 1]]

(* receive_size after a command; after what is no command it is 0 as well. *)
SizeAfter_Kept(text) == receive_size

SizeAfter(text) == IF text = VAK1 THEN 1 ELSE 0

Terminated(end) == [receive_buffer EXCEPT ![end] = Zero]

HandleText ==
  /\ pc = "handle"
  /\ Ends # {}
  /\ LET end == Min(Ends) IN
       /\ receive_buffer' = Terminated(end)
       /\ receive_size' = SizeAfter(Text(end))
       /\ IF Text(end) \in Commands
          THEN handled' = Append(handled, Text(end)) /\ UNCHANGED pc
          ELSE pc' = "poll" /\ UNCHANGED handled
  /\ UNCHANGED <<sent, stream, rx, lastRead, told, cut>>

NoText ==
  /\ pc = "handle"
  /\ Ends = {}
  /\ pc' = "poll"
  /\ UNCHANGED <<bufferVars, sent, stream, rx, history>>

Server == Receive \/ ReceiveNothing \/ HandleText \/ NoText

-----------------------------------------------------------------------------
(* The client and the chip *)

Bytes(c) == Append(c, End)

ClientSends(c) ==
  /\ sent < MaxSent
  /\ sent' = sent + 1
  /\ stream' = stream \o Bytes(c)
  /\ UNCHANGED <<pc, bufferVars, rx, history>>

Arrive(n) ==
  /\ Len(rx) + n <= BUFFER_SIZE
  /\ rx' = rx \o SubSeq(stream, 1, n)
  /\ stream' = SubSeq(stream, n + 1, Len(stream))
  /\ UNCHANGED <<pc, bufferVars, sent, history>>

(* The connection ends, what is left of it is gone, and the socket listens  *)
(* again by way of SOCK_INIT.                                              *)
NextConnection ==
  /\ pc = "poll"
  /\ receive_size' = 0
  /\ sent' = 0
  /\ stream' = <<>>
  /\ rx' = <<>>
  /\ lastRead' = <<>>
  /\ handled' = <<>>
  /\ told' = "nothing"
  /\ cut' = FALSE
  /\ UNCHANGED <<pc, receive_buffer>>

Next ==
  \/ Server
  \/ \E c \in Commands : ClientSends(c)
  \/ \E n \in 1..Len(stream) : Arrive(n)
  \/ NextConnection

Spec == Init /\ [][Next]_vars
-----------------------------------------------------------------------------
(* Properties *)

(* Besides the types: the parts of commands that stay without their end do  *)
(* not add up, receive_size is at most what the chip can have sent since    *)
(* the last end character and the byte left by VAK1.                        *)
TypeOK ==
  /\ pc \in {"poll", "handle"}
  /\ receive_buffer \in [Places -> {Zero} \cup UNION {ToSet(Bytes(c)) : c \in Commands}]
  /\ receive_size \in 0..BUFFER_SIZE + 3
  /\ pc = "poll" => receive_size <= 3
  /\ sent \in 0..MaxSent
  /\ Len(rx) <= BUFFER_SIZE
  /\ told \in Sendable \cup {"spoilt"}
  /\ cut \in BOOLEAN

(* The reference: the first command of a read, if the read begins with one. *)
FirstCommand(read) == {c \in Commands : IsPrefix(Bytes(c), read)}

(* What the server makes of a read depends on that read alone, not on what  *)
(* earlier ones or other connections left in the buffer: a read that begins *)
(* with a whole command yields that one, once, and no other read yields     *)
(* any; what else was in it is dropped.  This is how Server represents what *)
(* the chip has received, and the reason why the loop around               *)
(* handle_receive_bufffer ends.                                            *)
(*                                                                         *)
(* Nor does a read spoil the text that is sent after it (server.c:154),     *)
(* except for a client of which the read before had no end character.      *)
ReadsStandAlone ==
  /\ Len(handled) <= 1
  /\ pc = "poll" => ToSet(handled) = FirstCommand(lastRead)
  /\ told = "spoilt" => cut
=============================================================================
