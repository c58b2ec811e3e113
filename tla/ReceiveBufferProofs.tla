------------------------- MODULE ReceiveBufferProofs -------------------------
(***************************************************************************)
(* Proofs about ReceiveBuffer for all commands of two pieces, every buffer *)
(* and any number of commands: what the server makes of a read depends on  *)
(* that read alone, and receive_size does not grow.                        *)
(***************************************************************************)
EXTENDS ReceiveBuffer, SequenceTheorems, WellFoundedInduction, TLAPS

Pieces == UNION {ToSet(Bytes(c)) : c \in Commands}

(* What the client has sent and the server has not read: every third piece  *)
(* of it, counted from its end, is an end character.                       *)
Unread == Len(rx) + Len(stream)

Framed ==
  /\ rx \in Seq(Pieces) /\ Len(rx) <= BUFFER_SIZE
  /\ stream \in Seq(Pieces)
  /\ \A k \in 1..Len(rx) : rx[k] = End <=> (Unread - k) % 3 = 0
  /\ \A k \in 1..Len(stream) : stream[k] = End <=> (Len(stream) - k) % 3 = 0

(* The pieces of a command that were read without its end are as many as    *)
(* its rest lacks of three; one more may be left of a VAK1.                *)
SizeBounded ==
  /\ Unread % 3 = 0 => receive_size <= 1
  /\ Unread % 3 = 2 => receive_size <= 2
  /\ Unread % 3 = 1 => receive_size <= 3

BufferType ==
  /\ receive_buffer \in [Places -> {Zero} \cup Pieces]
  /\ receive_size \in 0..BUFFER_SIZE + 3
  /\ lastRead \in Seq(Pieces) /\ Len(lastRead) <= BUFFER_SIZE

(* What was read has been handled: the buffer shows no end character.       *)
Settled ==
  /\ \A k \in Places : k < receive_size => receive_buffer[k] # End
  /\ SizeBounded
  /\ Len(handled) <= 1
  /\ ToSet(handled) = FirstCommand(lastRead)

(* It has not: the buffer begins with it, and nothing behind it matters.    *)
Fresh ==
  /\ handled = <<>>
  /\ lastRead # <<>>
  /\ receive_size >= Len(lastRead)
  /\ \A k \in Places : k < Len(lastRead) => receive_buffer[k] = lastRead[k + 1]
  /\ \A k \in Places : k >= Len(lastRead) => receive_buffer[k] # End
  /\ (\A k \in 1..Len(lastRead) : lastRead[k] # End) => SizeBounded

Inv ==
  /\ pc \in {"poll", "handle"}
  /\ sent \in 0..MaxSent
  /\ BufferType /\ Framed
  /\ Settled \/ (pc = "handle" /\ Fresh)

(* What a text may suffer from: pieces that a read without an end character *)
(* has left.                                                               *)
TextInv ==
  /\ told \in Sendable \cup {"spoilt"} /\ cut \in BOOLEAN
  /\ (receive_size > 1 => WithoutEnd(lastRead)) \/ (pc = "handle" /\ Fresh)
  /\ told = "spoilt" => cut

LEMMA Sizes == MaxSent \in Nat /\ BUFFER_SIZE \in Nat /\ BUFFER_SIZE > 3
BY SizesAssumption

(* A nonempty set of natural numbers has a least element. *)
LEMMA Least ==
  ASSUME NEW S, S \subseteq Nat, S # {}
  PROVE  Min(S) \in S /\ \A k \in S : Min(S) <= k
<1>1. IsWellFoundedOn(OpToRel(<, Nat), Nat)
  BY NatLessThanWellFounded
<1>2. PICK m \in S : \A k \in S : ~(<<k, m>> \in OpToRel(<, Nat))
  BY <1>1, WFMin, ZenonT(30)
<1>3. ASSUME NEW k \in S
      PROVE  m <= k
  <2>1. k < m => <<k, m>> \in OpToRel(<, Nat)
    BY DEF OpToRel
  <2>2. ~(k < m)
    BY <1>2, <2>1, Zenon
  <2>3. k \in Nat /\ m \in Nat
    OBVIOUS
  <2>4. QED
    BY <2>2, <2>3
<1>4. QED
  BY <1>3 DEF Min

-----------------------------------------------------------------------------
(* The commands and their pieces *)

LEMMA CommandPieces ==
  ASSUME NEW c \in Commands
  PROVE  /\ c = <<c[1], c[2]>>
         /\ c[1] # End /\ c[2] # End /\ c[1] # Zero /\ c[2] # Zero
BY CommandsAssumption

LEMMA BytesPieces ==
  ASSUME NEW c \in Commands
  PROVE  /\ Len(Bytes(c)) = 3 /\ DOMAIN Bytes(c) = 1..3
         /\ Bytes(c)[1] = c[1] /\ Bytes(c)[2] = c[2] /\ Bytes(c)[3] = End
<1> DEFINE S == {c[1], c[2], End}
<1>1. c \in Seq(S) /\ Len(c) = 2
  <2>1. \A x, y : <<x, y>> \in Seq({x, y, End}) /\ Len(<<x, y>>) = 2
    OBVIOUS
  <2>2. <<c[1], c[2]>> \in Seq(S) /\ Len(<<c[1], c[2]>>) = 2
    BY <2>1
  <2>3. QED
    BY <2>2, CommandPieces, Zenon
<1> End \in S
  OBVIOUS
<1> HIDE DEF S
<1>2. /\ Bytes(c) \in Seq(S) /\ Len(Bytes(c)) = 3
      /\ Bytes(c)[1] = c[1] /\ Bytes(c)[2] = c[2] /\ Bytes(c)[3] = End
  <2>1. /\ Append(c, End) \in Seq(S) /\ Len(Append(c, End)) = Len(c) + 1
        /\ \A i \in 1..Len(c) : Append(c, End)[i] = c[i]
        /\ Append(c, End)[Len(c) + 1] = End
    <3>1. \A T : \A s \in Seq(T), e \in T :
            /\ Append(s, e) \in Seq(T) /\ Len(Append(s, e)) = Len(s) + 1
            /\ \A i \in 1..Len(s) : Append(s, e)[i] = s[i]
            /\ Append(s, e)[Len(s) + 1] = e
      BY AppendProperties
    <3>2. QED
      BY <1>1, <3>1, Zenon
  <2>2. QED
    BY <1>1, <2>1 DEF Bytes
<1>3. DOMAIN Bytes(c) = 1..3
  BY <1>2, LenProperties
<1>4. QED
  BY <1>2, <1>3

LEMMA BytesType ==
  ASSUME NEW c \in Commands
  PROVE  Bytes(c) \in Seq(Pieces)
<1>1. \A i \in 1..3 : Bytes(c)[i] \in Pieces
  BY BytesPieces DEF Pieces, ToSet
<1>2. c[1] \in Pieces /\ c[2] \in Pieces /\ End \in Pieces
  BY <1>1, BytesPieces
<1>3. c \in Seq(Pieces)
  <2>1. <<c[1], c[2]>> \in Seq(Pieces)
    BY <1>2
  <2>2. QED
    BY <2>1, CommandPieces, Zenon
<1>4. QED
  BY <1>2, <1>3, AppendProperties DEF Bytes

LEMMA NoZeroPiece == Zero \notin Pieces
<1>1. ASSUME NEW c \in Commands PROVE Zero \notin ToSet(Bytes(c))
  <2>1. c[1] # Zero /\ c[2] # Zero /\ End # Zero
    BY CommandPieces DEF End, Zero
  <2>2. QED
    BY <2>1, BytesPieces DEF ToSet
<1>2. QED
  BY <1>1 DEF Pieces

(* A read begins with a command when its first three pieces are those.      *)
LEMMA PrefixPieces ==
  ASSUME NEW c \in Commands, NEW read \in Seq(Pieces)
  PROVE  IsPrefix(Bytes(c), read) <=>
           Len(read) >= 3 /\ read[1] = c[1] /\ read[2] = c[2] /\ read[3] = End
<1>1. /\ Bytes(c) \in Seq(Pieces) /\ Len(Bytes(c)) = 3
      /\ Bytes(c)[1] = c[1] /\ Bytes(c)[2] = c[2] /\ Bytes(c)[3] = End
  BY BytesPieces, BytesType
<1>2. IsPrefix(Bytes(c), read) <=> 3 <= Len(read) /\ SubSeq(Bytes(c), 1, 3) = SubSeq(read, 1, 3)
  BY <1>1 DEF IsPrefix
<1>3. CASE Len(read) >= 3
  <2>1. /\ SubSeq(Bytes(c), 1, 3) = [i \in 1..3 |-> Bytes(c)[i]]
        /\ SubSeq(read, 1, 3) = [i \in 1..3 |-> read[i]]
    BY <1>1, <1>3
  <2>2. SubSeq(Bytes(c), 1, 3) = SubSeq(read, 1, 3) <=> \A i \in 1..3 : Bytes(c)[i] = read[i]
    BY <2>1
  <2>3. (\A i \in 1..3 : Bytes(c)[i] = read[i]) <=>
          read[1] = c[1] /\ read[2] = c[2] /\ read[3] = End
    BY <1>1
  <2>4. QED
    BY <1>2, <1>3, <2>2, <2>3
<1>4. CASE ~(Len(read) >= 3)
  <2>1. Len(read) \in Nat
    BY LenProperties
  <2>2. QED
    BY <1>2, <1>4, <2>1
<1>5. QED
  BY <1>3, <1>4
-----------------------------------------------------------------------------
(* The stream *)

(* What arrives leaves the frame as it is, and what is unread. *)
LEMMA ArriveFramed ==
  ASSUME Framed, NEW n \in 1..Len(stream), Arrive(n)
  PROVE  Framed' /\ Unread' = Unread
<1> DEFINE part == SubSeq(stream, 1, n)
           left == SubSeq(stream, n + 1, Len(stream))
<1>1. /\ rx \in Seq(Pieces) /\ Len(rx) \in Nat /\ stream \in Seq(Pieces) /\ Len(stream) \in Nat
      /\ n \in Nat /\ n >= 1 /\ n <= Len(stream) /\ n \in 1..Len(stream)
  BY LenProperties DEF Framed
<1>2. /\ part \in Seq(Pieces) /\ Len(part) = n
      /\ \A k \in 1..n : part[k] = stream[k]
  <2>1. \A k \in 1..n : stream[k] \in Pieces
    BY <1>1, ElementOfSeq
  <2>2. QED
    BY <1>1, <2>1, SubSeqProperties
<1>3. /\ left \in Seq(Pieces) /\ Len(left) = Len(stream) - n
      /\ \A k \in 1..Len(stream) - n : left[k] = stream[n + k]
  <2>1. \A k \in n + 1..Len(stream) : stream[k] \in Pieces
    BY <1>1, ElementOfSeq
  <2>2. /\ left \in Seq(Pieces)
        /\ Len(left) = IF n + 1 <= Len(stream) THEN Len(stream) - (n + 1) + 1 ELSE 0
        /\ \A k \in 1..Len(stream) - (n + 1) + 1 : left[k] = stream[(n + 1) + k - 1]
    BY <1>1, <2>1, SubSeqProperties
  <2>3. QED
    BY <1>1, <2>2
<1>4. rx' = rx \o part /\ stream' = left /\ Len(rx) + n <= BUFFER_SIZE
  BY DEF Arrive
<1> HIDE DEF part, left
<1>5. /\ rx' \in Seq(Pieces) /\ Len(rx') = Len(rx) + n
      /\ \A k \in 1..Len(rx) + n : rx'[k] = IF k <= Len(rx) THEN rx[k] ELSE part[k - Len(rx)]
  BY <1>1, <1>2, <1>4, ConcatProperties
<1>6. Unread' = Unread /\ Unread = Len(rx) + Len(stream)
  <2>1. Len(stream') = Len(stream) - n /\ Len(rx') = Len(rx) + n
    BY <1>3, <1>4, <1>5
  <2>2. QED
    BY <2>1, <1>1 DEF Unread
<1>7. ASSUME NEW k \in 1..Len(rx')
      PROVE  rx'[k] = End <=> (Unread' - k) % 3 = 0
  <2>1. CASE k <= Len(rx)
    BY <1>1, <1>5, <1>6, <2>1 DEF Framed
  <2>2. CASE k > Len(rx)
    <3>1. k - Len(rx) \in 1..n /\ rx'[k] = stream[k - Len(rx)]
      BY <1>1, <1>2, <1>5, <2>2
    <3>2. Len(stream) - (k - Len(rx)) = Unread' - k
      BY <1>1, <1>6
    <3>3. QED
      BY <1>1, <3>1, <3>2 DEF Framed
  <2>3. QED
    BY <1>1, <2>1, <2>2
<1>8. ASSUME NEW k \in 1..Len(stream')
      PROVE  stream'[k] = End <=> (Len(stream') - k) % 3 = 0
  <2>1. n + k \in 1..Len(stream) /\ stream'[k] = stream[n + k]
    BY <1>1, <1>3, <1>4
  <2>2. Len(stream) - (n + k) = Len(stream') - k
    BY <1>1, <1>3, <1>4
  <2>3. QED
    BY <2>1, <2>2 DEF Framed
<1>9. QED
  BY <1>1, <1>3, <1>4, <1>5, <1>6, <1>7, <1>8 DEF Framed

(* A whole command more. *)
LEMMA SendFramed ==
  ASSUME Framed, NEW c \in Commands, ClientSends(c)
  PROVE  Framed' /\ Unread' = Unread + 3 /\ Unread \in Nat
<1>1. rx \in Seq(Pieces) /\ Len(rx) \in Nat /\ stream \in Seq(Pieces) /\ Len(stream) \in Nat
  BY LenProperties DEF Framed
<1>2. /\ Bytes(c) \in Seq(Pieces) /\ Len(Bytes(c)) = 3
      /\ Bytes(c)[1] # End /\ Bytes(c)[2] # End /\ Bytes(c)[3] = End
  BY BytesType, BytesPieces, CommandPieces
<1>3. stream' = stream \o Bytes(c) /\ rx' = rx
  BY DEF ClientSends
<1>4. /\ stream' \in Seq(Pieces) /\ Len(stream') = Len(stream) + 3
      /\ \A k \in 1..Len(stream) + 3 :
           stream'[k] = IF k <= Len(stream) THEN stream[k] ELSE Bytes(c)[k - Len(stream)]
  <2>1. /\ stream \o Bytes(c) \in Seq(Pieces)
        /\ Len(stream \o Bytes(c)) = Len(stream) + Len(Bytes(c))
        /\ \A k \in 1..Len(stream) + Len(Bytes(c)) :
             (stream \o Bytes(c))[k] =
               IF k <= Len(stream) THEN stream[k] ELSE Bytes(c)[k - Len(stream)]
    BY <1>1, <1>2, ConcatProperties, ZenonT(30)
  <2>2. QED
    BY <1>1, <1>2, <1>3, <2>1
<1>5. Unread' = Unread + 3 /\ Unread \in Nat
  BY <1>1, <1>3, <1>4 DEF Unread
<1>6. ASSUME NEW k \in 1..Len(rx')
      PROVE  rx'[k] = End <=> (Unread' - k) % 3 = 0
  <2>1. (Unread' - k) % 3 = (Unread - k) % 3
    BY <1>1, <1>3, <1>5
  <2>2. QED
    BY <1>3, <2>1 DEF Framed
<1>7. ASSUME NEW k \in 1..Len(stream')
      PROVE  stream'[k] = End <=> (Len(stream') - k) % 3 = 0
  <2>1. CASE k <= Len(stream)
    <3>1. stream'[k] = stream[k] /\ k \in 1..Len(stream)
      BY <1>1, <1>4, <2>1
    <3>2. (Len(stream') - k) % 3 = (Len(stream) - k) % 3
      BY <1>1, <1>4
    <3>3. QED
      BY <3>1, <3>2 DEF Framed
  <2>2. CASE k = Len(stream) + 1
    <3>1. stream'[k] = Bytes(c)[1]
      BY <1>1, <1>4, <2>2
    <3>2. (Len(stream') - k) % 3 = 2
      BY <1>1, <1>4, <2>2
    <3>3. QED
      BY <3>1, <3>2, <1>2
  <2>3. CASE k = Len(stream) + 2
    <3>1. stream'[k] = Bytes(c)[2]
      BY <1>1, <1>4, <2>3
    <3>2. (Len(stream') - k) % 3 = 1
      BY <1>1, <1>4, <2>3
    <3>3. QED
      BY <3>1, <3>2, <1>2
  <2>4. CASE k = Len(stream) + 3
    <3>1. stream'[k] = Bytes(c)[3]
      BY <1>1, <1>4, <2>4
    <3>2. (Len(stream') - k) % 3 = 0
      BY <1>1, <1>4, <2>4
    <3>3. QED
      BY <3>1, <3>2, <1>2
  <2>5. QED
    BY <1>1, <1>4, <2>1, <2>2, <2>3, <2>4
<1>8. QED
  BY <1>1, <1>3, <1>4, <1>5, <1>6, <1>7 DEF Framed

(* A read takes what the chip has; without an end character in it the       *)
(* pieces of the command it belongs to add up.                             *)
LEMMA ReceiveFramed ==
  ASSUME Framed, Receive, SizeBounded, receive_size \in Nat
  PROVE  /\ Framed'
         /\ rx # <<>> /\ Len(rx) \in Nat \ {0}
         /\ (\A k \in 1..Len(rx) : rx[k] # End) =>
              \A size \in Nat : size <= receive_size + Len(rx) =>
                /\ Unread' % 3 = 0 => size <= 1
                /\ Unread' % 3 = 2 => size <= 2
                /\ Unread' % 3 = 1 => size <= 3
<1>1. rx \in Seq(Pieces) /\ Len(rx) \in Nat /\ stream \in Seq(Pieces) /\ Len(stream) \in Nat
  BY LenProperties DEF Framed
<1>2. rx' = <<>> /\ stream' = stream /\ rx # <<>>
  BY DEF Receive
<1>3. Len(rx) \in Nat \ {0} /\ Len(rx) \in Nat /\ Len(rx) >= 1
  BY <1>1, <1>2, EmptySeq
<1>4. Len(rx') = 0 /\ rx' \in Seq(Pieces)
  BY <1>2, EmptySeq
<1>5. Framed'
  BY <1>1, <1>2, <1>4, Sizes DEF Framed, Unread
<1>6. Unread = Len(rx) + Len(stream) /\ Unread' = Len(stream)
  BY <1>1, <1>2, <1>4 DEF Unread
<1>7. ASSUME \A k \in 1..Len(rx) : rx[k] # End,
             NEW size \in Nat, size <= receive_size + Len(rx)
      PROVE  /\ Unread' % 3 = 0 => size <= 1
             /\ Unread' % 3 = 2 => size <= 2
             /\ Unread' % 3 = 1 => size <= 3
  <2>1. \A k \in 1..Len(rx) : (Unread - k) % 3 # 0
    BY <1>7 DEF Framed
  <2>2. Unread \in Nat /\ Unread % 3 \in {0, 1, 2}
    BY <1>1, <1>6
  <2>3. Unread % 3 # 1
    <3>1. 1 \in 1..Len(rx)
      BY <1>3
    <3>2. (Unread - 1) % 3 # 0
      BY <2>1, <3>1
    <3>3. QED
      BY <2>2, <3>2
  <2>4. CASE Unread % 3 = 2
    <3>1. Len(rx) = 1
      <4>1. ASSUME Len(rx) >= 2 PROVE FALSE
        <5>1. (Unread - 2) % 3 # 0
          BY <2>1, <4>1, <1>3
        <5>2. QED
          BY <5>1, <2>2, <2>4
      <4>2. \A l \in Nat : l >= 1 /\ ~(l >= 2) => l = 1
        OBVIOUS
      <4>3. QED
        BY <4>1, <4>2, <1>3, Zenon
    <3>2. Unread' % 3 = 1
      BY <3>1, <2>2, <2>4, <1>1, <1>6
    <3>3. QED
      BY <3>1, <3>2, <2>4, <1>7 DEF SizeBounded
  <2>5. CASE Unread % 3 = 0
    <3>1. Len(rx) \in {1, 2}
      <4>1. ASSUME Len(rx) >= 3 PROVE FALSE
        <5>1. (Unread - 3) % 3 # 0
          BY <2>1, <4>1, <1>3
        <5>2. QED
          BY <5>1, <2>2, <2>5
      <4>2. \A l \in Nat : l >= 1 /\ ~(l >= 3) => l \in {1, 2}
        OBVIOUS
      <4>3. QED
        BY <4>1, <4>2, <1>3, Zenon
    <3>2. Unread' % 3 = 3 - Len(rx)
      <4>1. PICK u \in Nat : Unread' = u /\ Unread = Len(rx) + u
        BY <1>1, <1>6
      <4>2. /\ (1 + u) % 3 = 0 => u % 3 = 3 - 1
            /\ (2 + u) % 3 = 0 => u % 3 = 3 - 2
        OBVIOUS
      <4>3. (Len(rx) + u) % 3 = 0
        BY <4>1, <2>5
      <4>4. u % 3 = 3 - Len(rx)
        BY <3>1, <4>2, <4>3
      <4>5. QED
        BY <4>1, <4>4
    <3>3. receive_size <= 1
      BY <2>5 DEF SizeBounded
    <3>4. QED
      BY <3>1, <3>2, <3>3, <1>7
  <2>6. QED
    BY <2>2, <2>3, <2>4, <2>5
<1>8. QED
  BY <1>2, <1>3, <1>5, <1>7
-----------------------------------------------------------------------------
(* What handle_receive_bufffer finds in a buffer that begins with a read *)

(* An end character of the read is found, ... *)
LEMMA EndOfRead ==
  ASSUME BufferType, Fresh, NEW k \in 0..Len(lastRead) - 1, lastRead[k + 1] = End
  PROVE  k \in Ends
<1>1. /\ Len(lastRead) \in Nat /\ Len(lastRead) <= BUFFER_SIZE /\ lastRead \in Seq(Pieces)
      /\ k \in Nat /\ k < Len(lastRead) /\ receive_size \in Nat
  BY LenProperties, Sizes DEF BufferType
<1>2. k \in Places /\ k < receive_size /\ receive_buffer[k] = End
  BY <1>1, Sizes DEF Fresh, Places
<1>3. ASSUME NEW j \in 0..k - 1
      PROVE  receive_buffer[j] # Zero
  <2>1. j \in Places /\ j < Len(lastRead) /\ j + 1 \in 1..Len(lastRead)
    BY <1>1, Sizes DEF Places
  <2>2. receive_buffer[j] = lastRead[j + 1]
    BY <2>1 DEF Fresh
  <2>3. lastRead[j + 1] \in Pieces
    BY <1>1, <2>1, ElementOfSeq
  <2>4. QED
    BY <2>2, <2>3, NoZeroPiece
<1>4. QED
  BY <1>2, <1>3 DEF Ends

(* ... and no other is; the text before the first one is that of the read.  *)
LEMMA EndIsRead ==
  ASSUME BufferType, Fresh, NEW k \in Ends
  PROVE  /\ k \in Nat /\ k < Len(lastRead) /\ k \in Places /\ lastRead[k + 1] = End
         /\ \A j \in Nat : j <= k => receive_buffer[j] = lastRead[j + 1]
<1>1. /\ Len(lastRead) \in Nat /\ Len(lastRead) <= BUFFER_SIZE
      /\ k \in Places /\ k \in Nat /\ receive_buffer[k] = End
  BY LenProperties, Sizes DEF BufferType, Ends, Places
<1>2. k < Len(lastRead)
  BY <1>1 DEF Fresh
<1>3. ASSUME NEW j \in Nat, j <= k
      PROVE  receive_buffer[j] = lastRead[j + 1]
  <2>1. j \in Places /\ j < Len(lastRead)
    BY <1>1, <1>2, <1>3, Sizes DEF Places
  <2>2. QED
    BY <2>1 DEF Fresh
<1>4. QED
  BY <1>1, <1>2, <1>3

LEMMA FirstEnd ==
  ASSUME Ends # {}
  PROVE  Min(Ends) \in Ends /\ \A k \in Ends : Min(Ends) <= k
<1>1. Ends \subseteq Nat
  BY Sizes DEF Ends, Places
<1>2. QED
  BY <1>1, Least

(* The text is a command exactly if the read begins with that command.      *)
LEMMA TextIsFirst ==
  ASSUME BufferType, Fresh, Ends # {}, NEW c \in Commands
  PROVE  Text(Min(Ends)) = c <=> c \in FirstCommand(lastRead)
<1> DEFINE end == Min(Ends)
<1>1. end \in Ends /\ \A k \in Ends : end <= k
  BY FirstEnd
<1> HIDE DEF end
<1>2. /\ end \in Nat /\ end < Len(lastRead) /\ lastRead[end + 1] = End
      /\ \A j \in Nat : j <= end => receive_buffer[j] = lastRead[j + 1]
  BY <1>1, EndIsRead
<1>3. lastRead \in Seq(Pieces) /\ Len(lastRead) \in Nat
  BY LenProperties DEF BufferType
<1>4. /\ DOMAIN Text(end) = 1..end
      /\ \A i \in 1..end : Text(end)[i] = lastRead[i]
  <2>1. ASSUME NEW i \in 1..end
        PROVE  Text(end)[i] = lastRead[i]
    <3>1. i - 1 \in Nat /\ i - 1 <= end /\ (i - 1) + 1 = i
      BY <1>2
    <3>2. receive_buffer[i - 1] = lastRead[i]
      BY <1>2, <3>1
    <3>3. QED
      BY <3>2 DEF Text
  <2>2. QED
    BY <2>1 DEF Text
<1>5. c \in FirstCommand(lastRead) <=>
        Len(lastRead) >= 3 /\ lastRead[1] = c[1] /\ lastRead[2] = c[2] /\ lastRead[3] = End
  BY <1>3, PrefixPieces DEF FirstCommand
<1>6. /\ c = <<c[1], c[2]>> /\ c[1] # End /\ c[2] # End
  BY CommandPieces
<1>7. ASSUME Text(end) = c
      PROVE  c \in FirstCommand(lastRead)
  <2>1. DOMAIN c = 1..2
    <3>1. DOMAIN <<c[1], c[2]>> = 1..2
      OBVIOUS
    <3>2. QED
      BY <1>6, <3>1, Zenon
  <2>2. end = 2
    <3>1. 1..end = 1..2
      BY <1>4, <1>7, <2>1, Zenon
    <3>2. 2 \in 1..end /\ ~(3 \in 1..end)
      BY <3>1
    <3>3. QED
      BY <1>2, <3>2
  <2>3. c[1] = lastRead[1] /\ c[2] = lastRead[2] /\ lastRead[3] = End
    BY <1>2, <1>4, <1>7, <2>2
  <2>4. QED
    BY <1>2, <1>3, <1>5, <2>2, <2>3
<1>8. ASSUME c \in FirstCommand(lastRead)
      PROVE  Text(end) = c
  <2>1. Len(lastRead) >= 3 /\ lastRead[1] = c[1] /\ lastRead[2] = c[2] /\ lastRead[3] = End
    BY <1>5, <1>8
  <2>2. 2 \in Ends
    <3>1. 2 \in 0..Len(lastRead) - 1 /\ lastRead[2 + 1] = End
      BY <1>3, <2>1
    <3>2. QED
      BY <3>1, EndOfRead
  <2>3. end <= 2
    BY <1>1, <2>2
  <2>4. end # 0 /\ end # 1
    BY <1>2, <1>6, <2>1
  <2>5. end = 2
    BY <1>2, <2>3, <2>4
  <2>6. /\ DOMAIN Text(end) = 1..2 /\ Text(end)[1] = c[1] /\ Text(end)[2] = c[2]
    BY <1>4, <2>1, <2>5
  <2>7. Text(end) = <<c[1], c[2]>>
    <3>1. Text(end) = [k \in 1..2 |-> receive_buffer[k - 1]]
      BY <2>5 DEF Text
    <3>2. receive_buffer[1 - 1] = c[1] /\ receive_buffer[2 - 1] = c[2]
      BY <2>6, <3>1
    <3>3. QED
      BY <3>1, <3>2
  <2>8. QED
    BY <1>6, <2>7, Zenon
<1>9. QED
  BY <1>7, <1>8 DEF end

(* Without an end character in the read there is no command in it. *)
LEMMA NoEndNoCommand ==
  ASSUME BufferType, Fresh, Ends = {}
  PROVE  SizeBounded /\ FirstCommand(lastRead) = {} /\ WithoutEnd(lastRead)
<1>1. lastRead \in Seq(Pieces) /\ Len(lastRead) \in Nat
  BY LenProperties DEF BufferType
<1>2. ASSUME NEW k \in 1..Len(lastRead)
      PROVE  lastRead[k] # End
  <2>1. k - 1 \in 0..Len(lastRead) - 1 /\ (k - 1) + 1 = k
    BY <1>1
  <2>2. QED
    BY <2>1, EndOfRead
<1>3. SizeBounded
  BY <1>2 DEF Fresh
<1>4. ASSUME NEW c \in FirstCommand(lastRead)
      PROVE  FALSE
  <2>1. c \in Commands /\ IsPrefix(Bytes(c), lastRead)
    BY DEF FirstCommand
  <2>2. Len(lastRead) >= 3 /\ lastRead[3] = End
    BY <1>1, <2>1, PrefixPieces
  <2>3. QED
    BY <1>1, <1>2, <2>2
<1>5. WithoutEnd(lastRead)
  <2>1. DOMAIN lastRead = 1..Len(lastRead)
    BY <1>1, LenProperties
  <2>2. QED
    BY <1>2, <2>1 DEF Fresh, WithoutEnd, ToSet
<1>6. QED
  BY <1>3, <1>4, <1>5
-----------------------------------------------------------------------------
(* The steps *)

LEMMA NothingRead == FirstCommand(<<>>) = {}
<1>1. ASSUME NEW c \in Commands, Len(Bytes(c)) <= Len(<<>>)
      PROVE  FALSE
  <2>1. Len(<<>>) = 0 /\ Len(Bytes(c)) = 3
    BY BytesPieces, EmptySeq
  <2>2. QED
    BY <1>1, <2>1
<1>2. QED
  BY <1>1 DEF FirstCommand, IsPrefix

LEMMA InitInv == Init => Inv
<1> SUFFICES ASSUME Init PROVE Inv
  OBVIOUS
<1>1. BufferType
  BY Sizes, EmptySeq DEF Init, BufferType
<1>2. Framed
  BY Sizes, EmptySeq DEF Init, Framed
<1>3. FirstCommand(<<>>) = {}
  BY NothingRead
<1>4. ToSet(<<>>) = {} /\ Len(<<>>) = 0
  BY EmptySeq DEF ToSet
<1>5. Settled
  <2>1. SizeBounded
    BY DEF Init, SizeBounded
  <2>2. \A k \in Places : k < receive_size => receive_buffer[k] # End
    BY Sizes DEF Init, Places, End, Zero
  <2>3. QED
    <3>1. handled = <<>> /\ lastRead = <<>>
      BY DEF Init
    <3>2. Len(handled) = 0 /\ ToSet(handled) = FirstCommand(lastRead)
      BY <1>3, <1>4, <3>1, Zenon
    <3>3. QED
      BY <2>1, <2>2, <3>2 DEF Settled
<1>6. QED
  BY <1>1, <1>2, <1>5, Sizes DEF Init, Inv

(* A read makes the buffer begin with it; what is behind it are remains     *)
(* without an end character.                                               *)
LEMMA ReceiveFresh ==
  ASSUME Inv, Receive
  PROVE  Inv' /\ pc' = "handle" /\ Fresh'
<1>1. Settled /\ pc = "poll"
  BY DEF Inv, Receive
<1>2. BufferType /\ Framed /\ SizeBounded /\ receive_size \in Nat /\ receive_size <= 3
  <2>1. BufferType /\ Framed /\ SizeBounded /\ receive_size \in Nat
    BY <1>1, Sizes DEF Inv, Settled, BufferType
  <2>2. Unread % 3 \in {0, 1, 2}
    <3>1. Len(rx) \in Nat /\ Len(stream) \in Nat
      BY <2>1, LenProperties DEF Framed
    <3>2. QED
      BY <3>1 DEF Unread
  <2>3. QED
    BY <2>1, <2>2 DEF SizeBounded
<1>3. /\ Framed' /\ rx # <<>> /\ Len(rx) \in Nat \ {0} /\ rx \in Seq(Pieces) /\ Len(rx) <= BUFFER_SIZE
      /\ (\A k \in 1..Len(rx) : rx[k] # End) =>
           \A size \in Nat : size <= receive_size + Len(rx) =>
             /\ Unread' % 3 = 0 => size <= 1
             /\ Unread' % 3 = 2 => size <= 2
             /\ Unread' % 3 = 1 => size <= 3
  BY <1>2, ReceiveFramed DEF Framed
<1>4. PICK left \in SizeAfterClear : receive_size' = left + Len(rx)
  BY DEF Receive
<1>5. left \in Nat /\ left <= receive_size
  BY <1>2, <1>4 DEF SizeAfterClear
<1>6. /\ receive_buffer' = Filled(Cleared, rx) /\ lastRead' = rx /\ handled' = <<>>
      /\ pc' = "handle" /\ sent' = sent
  BY DEF Receive
<1>7. ASSUME NEW k \in Places
      PROVE  /\ receive_buffer'[k] \in {Zero} \cup Pieces
             /\ k < Len(rx) => receive_buffer'[k] = rx[k + 1]
             /\ k >= Len(rx) => receive_buffer'[k] # End
  <2>1. receive_buffer'[k] = IF k < Len(rx) THEN rx[k + 1] ELSE Cleared[k]
    BY <1>6 DEF Filled
  <2>2. Cleared[k] \in {Zero} \cup Pieces /\ Cleared[k] # End
    <3>1. Cleared[k] = IF k < receive_size THEN receive_buffer[k] ELSE Zero
      BY DEF Cleared
    <3>2. receive_buffer[k] \in {Zero} \cup Pieces
      BY <1>2 DEF BufferType
    <3>3. k < receive_size => receive_buffer[k] # End
      BY <1>1 DEF Settled
    <3>4. Zero # End
      BY DEF Zero, End
    <3>5. QED
      BY <3>1, <3>2, <3>3, <3>4
  <2>3. k < Len(rx) => rx[k + 1] \in Pieces
    <3>1. k \in Nat
      BY Sizes DEF Places
    <3>2. k < Len(rx) => k + 1 \in 1..Len(rx)
      BY <1>3, <3>1
    <3>3. QED
      BY <1>3, <3>2, ElementOfSeq
  <2>4. k \in Int /\ Len(rx) \in Int
    BY <1>3, Sizes DEF Places
  <2>5. QED
    BY <2>1, <2>2, <2>3, <2>4
<1>8. BufferType'
  <2>1. receive_buffer' \in [Places -> {Zero} \cup Pieces]
    <3>1. receive_buffer' = [k \in Places |-> receive_buffer'[k]]
      BY <1>6 DEF Filled
    <3>2. QED
      BY <1>7, <3>1
  <2>2. receive_size' \in 0..BUFFER_SIZE + 3
    BY <1>2, <1>3, <1>4, <1>5, Sizes
  <2>3. QED
    BY <1>3, <1>6, <2>1, <2>2 DEF BufferType
<1>9. Fresh'
  <2>1. receive_size' \in Nat /\ receive_size' >= Len(rx) /\ receive_size' <= receive_size + Len(rx)
    BY <1>2, <1>3, <1>4, <1>5
  <2>2. (\A k \in 1..Len(lastRead') : lastRead'[k] # End) => SizeBounded'
    BY <1>3, <1>6, <2>1 DEF SizeBounded
  <2>3. QED
    BY <1>3, <1>6, <1>7, <2>1, <2>2 DEF Fresh
<1>10. QED
  BY <1>3, <1>6, <1>8, <1>9 DEF Inv

(* The first command of a read is what is made of it, and it is settled. *)
LEMMA HandleSettles ==
  ASSUME Inv, HandleText
  PROVE  Inv' /\ receive_size' \in {0, 1}
<1> DEFINE end == Min(Ends)
           text == Text(end)
<1>1. /\ pc = "handle" /\ Ends # {}
      /\ receive_buffer' = Terminated(end) /\ receive_size' = SizeAfter(text)
      /\ text \in Commands => handled' = Append(handled, text) /\ pc' = pc
      /\ text \notin Commands => pc' = "poll" /\ handled' = handled
      /\ sent' = sent /\ stream' = stream /\ rx' = rx /\ lastRead' = lastRead
  BY DEF HandleText
<1>2. BufferType /\ Framed /\ Fresh
  <2>1. Settled => Ends = {}
    BY DEF Settled, Ends
  <2>2. QED
    BY <1>1, <2>1 DEF Inv
<1>3. end \in Ends /\ \A k \in Ends : end <= k
  BY <1>1, FirstEnd
<1>4. \A c \in Commands : text = c <=> c \in FirstCommand(lastRead)
  BY <1>1, <1>2, TextIsFirst
<1> HIDE DEF end, text
<1>5. FirstCommand(lastRead) = IF text \in Commands THEN {text} ELSE {}
  <2>1. FirstCommand(lastRead) \subseteq Commands
    BY DEF FirstCommand
  <2>2. QED
    BY <1>4, <2>1
<1>6. /\ end \in Places /\ receive_size' \in {0, 1}
      /\ receive_size' = 1 => text \in Commands
  BY <1>1, <1>3, CommandsAssumption DEF Ends, SizeAfter
<1>7. receive_buffer' = [receive_buffer EXCEPT ![end] = Zero]
  BY <1>1 DEF Terminated
<1>8. BufferType'
  BY <1>1, <1>2, <1>6, <1>7, Sizes DEF BufferType
<1>9. Framed' /\ Unread' = Unread
  BY <1>1, <1>2 DEF Framed, Unread
<1>10. SizeBounded'
  BY <1>6 DEF SizeBounded
<1>11. \A k \in Places : k < receive_size' => receive_buffer'[k] # End
  <2> SUFFICES ASSUME NEW k \in Places, k < receive_size' PROVE receive_buffer'[k] # End
    OBVIOUS
  <2>1. k = 0 /\ receive_size' = 1 /\ text \in Commands
    BY <1>6, Sizes DEF Places
  <2>2. receive_buffer'[k] = IF k = end THEN Zero ELSE receive_buffer[k]
    BY <1>2, <1>6, <1>7 DEF BufferType
  <2>3. receive_buffer[0] # End
    <3>1. text \in FirstCommand(lastRead) /\ lastRead \in Seq(Pieces)
      BY <1>2, <1>5, <2>1 DEF BufferType
    <3>2. Len(lastRead) >= 3 /\ lastRead[1] = text[1]
      BY <2>1, <3>1, PrefixPieces DEF FirstCommand
    <3>3. text[1] # End
      BY <2>1, CommandPieces
    <3>4. receive_buffer[0] = lastRead[0 + 1]
      <4>1. 0 \in Places /\ Len(lastRead) \in Nat
        BY <3>1, LenProperties, Sizes DEF Places
      <4>2. QED
        BY <1>2, <3>2, <4>1 DEF Fresh
    <3>5. QED
      BY <3>2, <3>3, <3>4
  <2>4. QED
    BY <2>1, <2>2, <2>3 DEF Zero, End
<1>12. Len(handled') <= 1 /\ ToSet(handled') = FirstCommand(lastRead)
  <2>1. handled = <<>>
    BY <1>2 DEF Fresh
  <2>2. CASE text \in Commands
    <3>1. handled' = <<text>>
      BY <1>1, <2>1, <2>2
    <3>2. Len(<<text>>) = 1 /\ ToSet(<<text>>) = {text}
      BY DEF ToSet
    <3>3. QED
      BY <1>5, <2>2, <3>1, <3>2
  <2>3. CASE text \notin Commands
    <3>1. ToSet(<<>>) = {} /\ Len(<<>>) = 0
      BY EmptySeq DEF ToSet
    <3>2. QED
      BY <1>1, <1>5, <2>1, <2>3, <3>1
  <2>4. QED
    BY <2>2, <2>3
<1>13. Settled'
  <2>1. FirstCommand(lastRead') = FirstCommand(lastRead)
    BY <1>1
  <2>2. FirstCommand(lastRead)' = FirstCommand(lastRead')
    BY DEF FirstCommand
  <2>3. QED
    BY <1>10, <1>11, <1>12, <2>1, <2>2 DEF Settled, Places
<1>14. QED
  BY <1>1, <1>6, <1>8, <1>9, <1>13 DEF Inv

LEMMA NoTextSettles ==
  ASSUME Inv, NoText
  PROVE  Inv'
<1>1. /\ Ends = {} /\ pc' = "poll"
      /\ UNCHANGED <<bufferVars, sent, stream, rx, history>>
  BY DEF NoText
<1>2. UNCHANGED <<receive_buffer, receive_size, sent, stream, rx, lastRead, handled>>
  BY <1>1 DEF bufferVars, history
<1>3. BufferType /\ Framed
  BY DEF Inv
<1>4. Settled
  <2>1. CASE Fresh
    <3>1. SizeBounded /\ FirstCommand(lastRead) = {}
      BY <1>1, <1>3, <2>1, NoEndNoCommand
    <3>2. handled = <<>> /\ ToSet(<<>>) = {} /\ Len(<<>>) = 0
      BY <2>1, EmptySeq DEF Fresh, ToSet
    <3>3. ASSUME NEW k \in Places, k < receive_size
          PROVE  receive_buffer[k] # End
      <4>1. k \in Nat /\ Len(lastRead) \in Nat
        BY <1>3, Sizes, LenProperties DEF Places, BufferType
      <4>2. CASE k < Len(lastRead)
        <5>1. k \in 0..Len(lastRead) - 1 /\ receive_buffer[k] = lastRead[k + 1]
          BY <2>1, <4>1, <4>2 DEF Fresh
        <5>2. QED
          BY <1>1, <1>3, <2>1, <5>1, EndOfRead
      <4>3. CASE k >= Len(lastRead)
        BY <2>1, <4>3 DEF Fresh
      <4>4. QED
        BY <4>1, <4>2, <4>3
    <3>4. QED
      BY <3>1, <3>2, <3>3 DEF Settled
  <2>2. QED
    BY <2>1 DEF Inv
<1>5. BufferType' /\ Framed' /\ Settled'
  BY <1>2, <1>3, <1>4 DEF BufferType, Framed, Unread, Settled, SizeBounded, FirstCommand
<1>6. QED
  BY <1>1, <1>2, <1>5 DEF Inv

(* What the client and the chip do keeps what the server knows. *)
LEMMA UnreadKeeps ==
  ASSUME Inv, Framed', Unread' % 3 = Unread % 3, sent' \in 0..MaxSent,
         UNCHANGED <<pc, bufferVars, history>>
  PROVE  Inv' /\ (Fresh => Fresh')
<1>1. UNCHANGED <<pc, receive_buffer, receive_size, lastRead, handled>>
  BY DEF bufferVars, history
<1>2. SizeBounded => SizeBounded'
  BY <1>1 DEF SizeBounded
<1>3. BufferType'
  BY <1>1 DEF Inv, BufferType
<1>4. Settled => Settled'
  BY <1>1, <1>2 DEF Settled, FirstCommand
<1>5. Fresh => Fresh'
  BY <1>1, <1>2 DEF Fresh
<1>6. QED
  BY <1>1, <1>3, <1>4, <1>5 DEF Inv

LEMMA NextConnectionSettled ==
  ASSUME Inv, NextConnection
  PROVE  Inv'
<1>1. /\ pc = "poll" /\ pc' = pc /\ receive_buffer' = receive_buffer /\ receive_size' = 0
      /\ sent' = 0 /\ stream' = <<>> /\ rx' = <<>> /\ lastRead' = <<>> /\ handled' = <<>>
  BY DEF NextConnection
<1>2. <<>> \in Seq(Pieces) /\ Len(<<>>) = 0 /\ ToSet(<<>>) = {}
  BY EmptySeq DEF ToSet
<1>3. BufferType'
  BY <1>1, <1>2, Sizes DEF Inv, BufferType
<1>4. Framed'
  BY <1>1, <1>2, Sizes DEF Framed
<1>5. Len(handled') <= 1 /\ ToSet(handled)' = FirstCommand(lastRead)'
  BY <1>1, <1>2, NothingRead DEF FirstCommand, ToSet
<1>6. Settled'
  <2>1. SizeBounded'
    BY <1>1 DEF SizeBounded
  <2>2. \A k \in Places : ~(k < receive_size')
    BY <1>1, Sizes DEF Places
  <2>3. QED
    BY <1>5, <2>1, <2>2 DEF Settled
<1>7. QED
  BY <1>1, <1>3, <1>4, <1>6, Sizes DEF Inv

ClientStep == (\E c \in Commands : ClientSends(c)) \/ (\E n \in 1..Len(stream) : Arrive(n))

LEMMA ClientKeeps ==
  ASSUME Inv, ClientStep \/ UNCHANGED vars
  PROVE  Inv' /\ (Fresh => Fresh') /\ UNCHANGED <<pc, bufferVars, history>>
<1>1. Framed /\ sent \in 0..MaxSent
  BY DEF Inv
<1>2. CASE \E c \in Commands : ClientSends(c)
  <2>1. PICK c \in Commands : ClientSends(c)
    BY <1>2
  <2>2. Framed' /\ Unread' = Unread + 3 /\ Unread \in Nat
    BY <1>1, <2>1, SendFramed
  <2>3. Unread' % 3 = Unread % 3
    BY <2>2
  <2>4. sent' \in 0..MaxSent /\ UNCHANGED <<pc, bufferVars, history>>
    BY <1>1, <2>1, Sizes DEF ClientSends
  <2>5. QED
    BY <2>2, <2>3, <2>4, UnreadKeeps
<1>3. CASE \E n \in 1..Len(stream) : Arrive(n)
  <2>1. PICK n \in 1..Len(stream) : Arrive(n)
    BY <1>3
  <2>2. Framed' /\ Unread' = Unread
    BY <1>1, <2>1, ArriveFramed
  <2>3. sent' = sent /\ UNCHANGED <<pc, bufferVars, history>>
    BY <2>1 DEF Arrive
  <2>4. QED
    BY <1>1, <2>2, <2>3, UnreadKeeps
<1>4. CASE UNCHANGED vars
  <2>1. UNCHANGED <<pc, bufferVars, history>> /\ UNCHANGED <<sent, stream, rx>>
    BY <1>4 DEF vars
  <2>2. Framed' /\ Unread' = Unread
    BY <1>1, <2>1 DEF Framed, Unread
  <2>3. QED
    BY <1>1, <2>1, <2>2, UnreadKeeps
<1>5. QED
  BY <1>2, <1>3, <1>4 DEF ClientStep

LEMMA NextInv == Inv /\ [Next]_vars => Inv'
<1> SUFFICES ASSUME Inv, [Next]_vars PROVE Inv'
  OBVIOUS
<1>1. Framed /\ sent \in 0..MaxSent
  BY DEF Inv
<1>2. CASE Receive
  BY <1>2, ReceiveFresh
<1>3. CASE ReceiveNothing
  <2>1. Settled /\ pc' = "handle" /\ BufferType
    BY <1>3 DEF Inv, ReceiveNothing
  <2>2. UNCHANGED <<receive_buffer, receive_size, sent, stream, rx, lastRead, handled>>
    BY <1>3 DEF ReceiveNothing, bufferVars
  <2>3. BufferType' /\ Framed' /\ Settled'
    BY <1>1, <2>1, <2>2 DEF BufferType, Framed, Unread, Settled, SizeBounded, FirstCommand
  <2>4. QED
    BY <1>1, <2>1, <2>2, <2>3 DEF Inv
<1>4. CASE HandleText
  BY <1>4, HandleSettles
<1>5. CASE NoText
  BY <1>5, NoTextSettles
<1>6. CASE ClientStep \/ UNCHANGED vars
  BY <1>6, ClientKeeps
<1>7. CASE NextConnection
  BY <1>7, NextConnectionSettled
<1>8. QED
  BY <1>2, <1>3, <1>4, <1>5, <1>6, <1>7 DEF Next, Server, ClientStep

(* A text is spoilt only by what a read without an end character has left. *)
LEMMA StepText == Inv /\ TextInv /\ [Next]_vars => TextInv'
<1> SUFFICES ASSUME Inv, TextInv, [Next]_vars PROVE TextInv'
  OBVIOUS
<1>1. CASE Receive
  <2>1. pc' = "handle" /\ Fresh'
    BY <1>1, ReceiveFresh
  <2>2. /\ pc = "poll" /\ told' \in TextAfterClear /\ (cut' <=> WithoutEnd(lastRead))
        /\ cut' \in BOOLEAN
    BY <1>1 DEF Receive, WithoutEnd
  <2>3. told' = "spoilt" => receive_size > 1
    BY <2>2 DEF TextAfterClear, Sendable
  <2>4. told' \in Sendable \cup {"spoilt"}
    BY <2>2 DEF TextAfterClear
  <2>5. QED
    BY <2>1, <2>2, <2>3, <2>4 DEF TextInv, Sendable
<1>2. CASE ReceiveNothing
  <2>1. /\ receive_size > 1 => WithoutEnd(lastRead)
        /\ receive_size' = receive_size /\ lastRead' = lastRead /\ cut' = cut
        /\ told' \in Sendable
    BY <1>2 DEF TextInv, ReceiveNothing, bufferVars
  <2>2. QED
    BY <2>1 DEF TextInv, WithoutEnd, Sendable
<1>3. CASE HandleText
  <2>1. receive_size' \in {0, 1} /\ told' = told /\ cut' = cut
    BY <1>3, HandleSettles DEF HandleText
  <2>2. ~(receive_size' > 1)
    BY <2>1
  <2>3. QED
    BY <2>1, <2>2 DEF TextInv, Sendable
<1>4. CASE NoText
  <2>1. Ends = {} /\ UNCHANGED <<bufferVars, history>> /\ BufferType
    BY <1>4 DEF NoText, Inv
  <2>2. Fresh => WithoutEnd(lastRead)
    BY <2>1, NoEndNoCommand
  <2>3. QED
    BY <2>1, <2>2 DEF TextInv, WithoutEnd, Sendable, bufferVars, history
<1>5. CASE NextConnection
  <2>1. receive_size' = 0 /\ told' = "nothing" /\ cut' = FALSE
    BY <1>5 DEF NextConnection
  <2>2. ~(receive_size' > 1)
    BY <2>1
  <2>3. QED
    BY <2>1, <2>2 DEF TextInv, Sendable
<1>6. CASE ClientStep \/ UNCHANGED vars
  <2>1. (Fresh => Fresh') /\ UNCHANGED <<pc, bufferVars, history>>
    BY <1>6, ClientKeeps
  <2>2. QED
    BY <2>1 DEF TextInv, WithoutEnd, Sendable, bufferVars, history
<1>7. QED
  BY <1>1, <1>2, <1>3, <1>4, <1>5, <1>6 DEF Next, Server, ClientStep

-----------------------------------------------------------------------------
(* Theorems *)

THEOREM Invariance == Spec => [](Inv /\ TextInv)
<1>1. Init => Inv /\ TextInv
  <2>1. ASSUME Init PROVE TextInv
    <3>1. receive_size = 0 /\ told = "nothing" /\ cut = FALSE
      BY <2>1 DEF Init
    <3>2. ~(receive_size > 1)
      BY <3>1
    <3>3. QED
      BY <3>1, <3>2 DEF TextInv, Sendable
  <2>2. QED
    BY <2>1, InitInv
<1>2. QED
  BY <1>1, NextInv, StepText, PTL DEF Spec

(* receive_size never exceeds what the buffer and one broken command hold,  *)
(* and between reads it stays below four whatever the client sends and      *)
(* however the stream breaks: the remains in the buffer do not add up.      *)
THEOREM TypesHold == Spec => []TypeOK
<1>1. Inv /\ TextInv => TypeOK
  <2> SUFFICES ASSUME Inv, TextInv PROVE TypeOK
    OBVIOUS
  <2>1. BufferType /\ Framed
    BY DEF Inv
  <2>2. pc = "poll" => receive_size <= 3
    <3>1. pc = "poll" => SizeBounded
      BY DEF Inv, Settled
    <3>2. Unread % 3 \in {0, 1, 2}
      <4>1. Len(rx) \in Nat /\ Len(stream) \in Nat
        BY <2>1, LenProperties DEF Framed
      <4>2. QED
        BY <4>1 DEF Unread
    <3>3. receive_size \in Int
      BY <2>1, Sizes DEF BufferType
    <3>4. QED
      BY <3>1, <3>2, <3>3 DEF SizeBounded
  <2>3. QED
    <3>1. receive_buffer \in [Places -> {Zero} \cup Pieces] /\ receive_size \in 0..BUFFER_SIZE + 3
      BY <2>1 DEF BufferType
    <3>2. pc \in {"poll", "handle"} /\ sent \in 0..MaxSent /\ Len(rx) <= BUFFER_SIZE
      BY <2>1 DEF Inv, Framed
    <3>3. told \in Sendable \cup {"spoilt"} /\ cut \in BOOLEAN
      BY DEF TextInv
    <3>4. QED
      BY <2>2, <3>1, <3>2, <3>3, Zenon DEF TypeOK, Pieces
<1>2. QED
  BY <1>1, Invariance, PTL

(* For every set of two-piece commands and every way the stream can break,  *)
(* a read that begins with a whole command yields that one, once, and no    *)
(* other read yields any: what earlier reads or connections left in         *)
(* receive_buffer does not matter.  Nor does it spoil the text that is sent *)
(* next, unless the read before had no end character.                      *)
THEOREM ReadsStandAloneHolds == Spec => []ReadsStandAlone
<1>1. Inv /\ TextInv => ReadsStandAlone
  <2> SUFFICES ASSUME Inv, TextInv PROVE ReadsStandAlone
    OBVIOUS
  <2>1. CASE Settled
    BY <2>1 DEF Settled, ReadsStandAlone, TextInv
  <2>2. CASE pc = "handle" /\ Fresh
    <3>1. Len(<<>>) = 0
      OBVIOUS
    <3>2. QED
      BY <2>2, <3>1 DEF Fresh, ReadsStandAlone, TextInv
  <2>3. QED
    BY <2>1, <2>2 DEF Inv
<1>2. QED
  BY <1>1, Invariance, PTL
=============================================================================
