------------------------- MODULE AuditRelayProofs --------------------------
(* What the audit relay writes: the records of the file, and of each socket *)
(* connection, in the order Vault wrote them, none twice, for buffers,      *)
(* channels and records of any size, any number of records, connections and *)
(* restarts, and appends that readers see torn.                             *)
(*                                                                          *)
(* InOrder speaks of stdout alone.  It is kept because every record the     *)
(* process holds (in the channel, with the writer, with a reader) already   *)
(* stands in the order in which it will be written, and because whatever    *)
(* was ever taken in lies behind the place the readers go on from: before   *)
(* the offset in the file, which a restart moves to the file's end, and     *)
(* before what is left on the connection, which a restart drops.            *)
EXTENDS AuditRelay, SequenceTheorems, TLAPS

Chunk == [rec : Nat, part : Nat, size : Nat]
Token == [rec : Nat, size : Nat]

(* The types, those of the socket's readers apart from the others.          *)
Pipes ==
  /\ file \in Seq(Chunk) /\ writing \in Seq(Chunk)
  /\ \A i \in DOMAIN file : file[i].part \in 1 .. file[i].size /\ file[i].rec \in 1 .. appended
  /\ \A i \in DOMAIN writing : /\ writing[i].part \in 1 .. writing[i].size
                               /\ writing[i].rec \in 1 .. appended
  /\ appended \in 0 .. MaxRecords /\ sent \in 0 .. MaxRecords
  /\ tail \in {"open", "read", "discard", "send"} /\ pos \in 0 .. Len(file)
  /\ start \in -1 .. Len(file) /\ torn \subseteq 1 .. appended
  /\ held \in {Nothing} \cup ({File} \X (1 .. appended))
  /\ held # Nothing <=> tail = "send"
  /\ channel \in Seq(Item \ {Nothing}) /\ Len(channel) <= ChannelSize
  /\ writer \in Item /\ stdout \in Seq(Item \ {Nothing})
  /\ crashes \in 0 .. MaxCrashes
Sockets ==
  /\ scan \in [Connection -> {"new", "read", "send", "over"}]
  /\ link \in [Connection -> Seq(Token)]
  /\ caught \in [Connection -> Item]
  /\ \A c \in Connection :
       /\ caught[c] \in {Nothing} \cup ({c} \X (1 .. sent))
       /\ caught[c] # Nothing <=> scan[c] = "send"
       /\ ~Open(c) => link[c] = <<>>
       /\ \A i \in DOMAIN link[c] : link[c][i].rec \in 1 .. sent
Typed == Pipes /\ Sockets
Record == Item \ {Nothing}

(* A record's first chunk comes after every chunk of the records before it. *)
Appended == /\ \A i, j \in DOMAIN file :
                 i < j /\ file[j].part = 1 => file[i].rec < file[j].rec
            /\ \A i, j \in DOMAIN writing :
                 i < j /\ writing[j].part = 1 => writing[i].rec < writing[j].rec
            /\ \A i \in DOMAIN file, j \in DOMAIN writing :
                 writing[j].part = 1 => file[i].rec < writing[j].rec
Sent == \A c \in Connection : \A i, j \in DOMAIN link[c] :
          i < j => link[c][i].rec < link[c][j].rec

(* The readers go on behind a record they took in.                          *)
FileBehind(x) == x[1] = File =>
                   \E k \in DOMAIN file : /\ file[k].rec = x[2]
                                          /\ tail # "open" => k <= pos
SocketBehind(x) == \A c \in Connection : x[1] = c =>
                     x[2] <= sent /\ \A i \in DOMAIN link[c] : x[2] < link[c][i].rec
Behind(x) == FileBehind(x) /\ SocketBehind(x)
InHand == {held} \cup {caught[c] : c \in Connection}
TakenIn == {stdout[i] : i \in DOMAIN stdout} \cup {channel[i] : i \in DOMAIN channel}
             \cup {writer} \cup InHand
Taken == \A x \in TakenIn : Behind(x)

(* Of two records of one stream, the one nearer to stdout is the older.     *)
Precedes(x, y) == x[1] = y[1] /\ x[1] # -1 => x[2] < y[2]
Ordered(s) == \A i, j \in DOMAIN s : i < j => Precedes(s[i], s[j])
AllPrecede(s, y) == \A i \in DOMAIN s : Precedes(s[i], y)
Flow == /\ Ordered(stdout) /\ Ordered(channel)
        /\ \A j \in DOMAIN channel : /\ AllPrecede(stdout, channel[j])
                                     /\ Precedes(writer, channel[j])
        /\ AllPrecede(stdout, writer)
        /\ \A y \in InHand : /\ AllPrecede(stdout, y) /\ AllPrecede(channel, y)
                            /\ Precedes(writer, y)

RelayInv == Typed /\ Appended /\ Sent /\ Taken /\ Flow

-----------------------------------------------------------------------------
(* Sequences.                                                               *)

LEMMA ChunksTyped ==
  ASSUME NEW r \in Nat, NEW n \in Nat, NEW f, f = Chunks(r, n)
  PROVE  /\ f \in Seq(Chunk) /\ DOMAIN f = 1 .. n
         /\ \A k \in 1 .. n : f[k].rec = r /\ f[k].part = k /\ f[k].size = n
<1>1. f \in [1 .. n -> Chunk]
  BY DEF Chunks, Chunk
<1>2. f \in Seq(Chunk)
  BY <1>1, SeqDef
<1> QED
  BY <1>1, <1>2 DEF Chunks

(* What Visible does to the two halves of the file.                         *)
LEMMA Shown ==
  ASSUME NEW k \in 1 .. Len(writing), Typed
  PROVE  /\ SubSeq(writing, 1, k) \in Seq(Chunk)
         /\ SubSeq(writing, k + 1, Len(writing)) \in Seq(Chunk)
         /\ Len(file \o SubSeq(writing, 1, k)) = Len(file) + k
         /\ DOMAIN (file \o SubSeq(writing, 1, k)) = 1 .. Len(file) + k
         /\ file \o SubSeq(writing, 1, k) \in Seq(Chunk)
         /\ \A i \in 1 .. Len(file) + k :
              (file \o SubSeq(writing, 1, k))[i]
                = IF i <= Len(file) THEN file[i] ELSE writing[i - Len(file)]
         /\ DOMAIN SubSeq(writing, k + 1, Len(writing)) = 1 .. Len(writing) - k
         /\ \A i \in 1 .. Len(writing) - k :
              SubSeq(writing, k + 1, Len(writing))[i] = writing[i + k]
<1> DEFINE front == SubSeq(writing, 1, k)
           back == SubSeq(writing, k + 1, Len(writing))
<1>1. /\ file \in Seq(Chunk) /\ writing \in Seq(Chunk)
      /\ Len(file) \in Nat /\ Len(writing) \in Nat
  BY LenProperties DEF Typed, Pipes
<1>2. \A i \in 1 .. Len(writing) : writing[i] \in Chunk
  BY <1>1, ElementOfSeq
<1>3. /\ front \in Seq(Chunk) /\ Len(front) = k
      /\ \A i \in 1 .. k : front[i] = writing[i]
  <2>1. \A i \in 1 .. k : writing[i] \in Chunk
    BY <1>1, <1>2
  <2>2. /\ front \in Seq(Chunk) /\ Len(front) = IF 1 <= k THEN k - 1 + 1 ELSE 0
        /\ \A i \in 1 .. k - 1 + 1 : front[i] = writing[1 + i - 1]
    BY <2>1, <1>1, SubSeqProperties
  <2> QED
    BY <2>2, <1>1
<1>4. /\ back \in Seq(Chunk) /\ Len(back) = Len(writing) - k
      /\ \A i \in 1 .. Len(writing) - k : back[i] = writing[i + k]
  <2>1. \A i \in k + 1 .. Len(writing) : writing[i] \in Chunk
    BY <1>1, <1>2
  <2>2. /\ back \in Seq(Chunk)
        /\ Len(back) = IF k + 1 <= Len(writing) THEN Len(writing) - (k + 1) + 1 ELSE 0
        /\ \A i \in 1 .. Len(writing) - (k + 1) + 1 : back[i] = writing[k + 1 + i - 1]
    BY <2>1, <1>1, SubSeqProperties
  <2> QED
    BY <2>2, <1>1
<1>5. /\ file \o front \in Seq(Chunk) /\ Len(file \o front) = Len(file) + k
      /\ \A i \in 1 .. Len(file) + k :
           (file \o front)[i] = IF i <= Len(file) THEN file[i] ELSE front[i - Len(file)]
  BY <1>1, <1>3, ConcatProperties
<1>6. \A i \in 1 .. Len(file) + k : ~ i <= Len(file) => front[i - Len(file)] = writing[i - Len(file)]
  BY <1>1, <1>3
<1>7. DOMAIN (file \o front) = 1 .. Len(file) + k /\ DOMAIN back = 1 .. Len(writing) - k
  BY <1>4, <1>5, LenProperties
<1> QED
  BY <1>3, <1>4, <1>5, <1>6, <1>7

(* Taking the head of a queue and putting something at its end.             *)
LEMMA Shift ==
  ASSUME NEW S, NEW s \in Seq(S), s # <<>>
  PROVE  /\ Tail(s) \in Seq(S) /\ Len(s) \in Nat /\ Len(s) > 0 /\ Len(Tail(s)) = Len(s) - 1
         /\ DOMAIN s = 1 .. Len(s) /\ DOMAIN Tail(s) = 1 .. Len(s) - 1
         /\ 1 \in DOMAIN s /\ Head(s) = s[1] /\ Head(s) \in S
         /\ \A i \in DOMAIN Tail(s) : i + 1 \in DOMAIN s /\ Tail(s)[i] = s[i + 1]
<1>1. Len(s) \in Nat \ {0} /\ DOMAIN s = 1 .. Len(s)
  BY EmptySeq, LenProperties
<1>2. /\ Head(s) \in S /\ Tail(s) \in Seq(S) /\ Len(Tail(s)) = Len(s) - 1
      /\ \A i \in 1 .. Len(Tail(s)) : Tail(s)[i] = s[i + 1]
  BY HeadTailProperties
<1>3. DOMAIN Tail(s) = 1 .. Len(s) - 1
  BY <1>2, LenProperties
<1>4. Head(s) = s[1]
  OBVIOUS
<1> QED
  BY <1>1, <1>2, <1>3, <1>4

LEMMA Push ==
  ASSUME NEW S, NEW s \in Seq(S), NEW e \in S
  PROVE  /\ Append(s, e) \in Seq(S) /\ Len(s) \in Nat /\ Len(Append(s, e)) = Len(s) + 1
         /\ DOMAIN s = 1 .. Len(s) /\ DOMAIN Append(s, e) = 1 .. Len(s) + 1
         /\ \A i \in DOMAIN s : i \in DOMAIN Append(s, e) /\ Append(s, e)[i] = s[i]
         /\ Append(s, e)[Len(s) + 1] = e
         /\ \A i \in DOMAIN Append(s, e) : i \in DOMAIN s \/ i = Len(s) + 1
<1>1. Len(s) \in Nat /\ DOMAIN s = 1 .. Len(s)
  BY LenProperties
<1>2. /\ Append(s, e) \in Seq(S) /\ Len(Append(s, e)) = Len(s) + 1
      /\ \A i \in 1 .. Len(s) : Append(s, e)[i] = s[i]
      /\ Append(s, e)[Len(s) + 1] = e
  BY AppendProperties
<1>3. DOMAIN Append(s, e) = 1 .. Len(s) + 1
  BY <1>2, LenProperties
<1> QED
  BY <1>1, <1>2, <1>3

-----------------------------------------------------------------------------
(* What the variables range over.                                           *)

LEMMA Ranges ==
  ASSUME Typed
  PROVE  /\ Len(file) \in Nat /\ DOMAIN file = 1 .. Len(file)
         /\ Len(writing) \in Nat /\ DOMAIN writing = 1 .. Len(writing)
         /\ Len(channel) \in Nat /\ DOMAIN channel = 1 .. Len(channel)
         /\ \A i \in DOMAIN file : file[i] \in Chunk
         /\ \A i \in DOMAIN writing : writing[i] \in Chunk
         /\ appended \in Nat /\ sent \in Nat /\ pos \in 0 .. Len(file)
         /\ \A n \in LineEnds : pos + n \in DOMAIN file /\ n \in 1 .. Len(file) - pos
<1>1. /\ file \in Seq(Chunk) /\ writing \in Seq(Chunk) /\ channel \in Seq(Record)
      /\ appended \in 0 .. MaxRecords /\ sent \in 0 .. MaxRecords /\ pos \in 0 .. Len(file)
  BY DEF Typed, Pipes, Record
<1>2. /\ Len(file) \in Nat /\ DOMAIN file = 1 .. Len(file)
      /\ Len(writing) \in Nat /\ DOMAIN writing = 1 .. Len(writing)
      /\ Len(channel) \in Nat /\ DOMAIN channel = 1 .. Len(channel)
  BY <1>1, LenProperties
<1>3. /\ \A i \in DOMAIN file : file[i] \in Chunk
      /\ \A i \in DOMAIN writing : writing[i] \in Chunk
  BY <1>1, <1>2, ElementOfSeq
<1>4. \A n \in LineEnds : pos + n \in DOMAIN file /\ n \in 1 .. Len(file) - pos
  BY <1>1, <1>2 DEF LineEnds
<1> QED
  BY <1>1, <1>2, <1>3, <1>4, RelayBoundAssumption

(* A record is a stream and a number.                                       *)
LEMMA Records ==
  /\ \A x \in Record : x[1] \in {File} \cup Connection /\ x[2] \in 1 .. MaxRecords /\ x[2] \in Nat
                      /\ x # Nothing
  /\ \A f \in {File} \cup Connection, r \in 1 .. MaxRecords : <<f, r>> \in Record
  /\ \A c \in Connection : c \in Nat /\ c # File /\ c # -1
  /\ Item = {Nothing} \cup Record
BY RelayBoundAssumption DEF Record, Item, Nothing, File, Connection

LEMMA TypedTyped == Typed => TypeOK
<1> SUFFICES ASSUME Typed PROVE TypeOK
  OBVIOUS
<1>1. held \in Item
  BY RelayBoundAssumption DEF Typed, Pipes, Item, File
<1>2. \A i \in DOMAIN channel : channel[i] \in Item
  BY LenProperties, ElementOfSeq DEF Typed, Pipes
<1> QED
  BY <1>1, <1>2 DEF Typed, Pipes, Sockets, TypeOK

LEMMA TypedInit == Init => Typed
<1> SUFFICES ASSUME Init PROVE Typed
  OBVIOUS
<1>1. /\ <<>> \in Seq(Chunk) /\ <<>> \in Seq(Token) /\ <<>> \in Seq(Item \ {Nothing})
      /\ Len(<<>>) = 0 /\ DOMAIN <<>> = {}
  OBVIOUS
<1>2. Pipes
  BY <1>1, SizeAssumption, RelayBoundAssumption DEF Init, Pipes, Nothing, Item
<1>3. Sockets
  BY <1>1 DEF Init, Sockets, Item, Open
<1> QED
  BY <1>2, <1>3 DEF Typed

(* What a step does to a connection.                                        *)
LEMMA LinkStep ==
  ASSUME Typed, [Next]_vars
  PROVE  /\ link' \in [Connection -> Seq(Token)] /\ sent \in Nat /\ sent' \in Nat /\ sent <= sent'
         /\ \A c \in Connection :
              \/ \A i \in DOMAIN link'[c] : i \in DOMAIN link[c] /\ link'[c][i] = link[c][i]
              \/ /\ Len(link[c]) \in Nat /\ DOMAIN link'[c] = 1 .. Len(link[c]) - 1
                 /\ \A i \in DOMAIN link'[c] : i + 1 \in DOMAIN link[c] /\ link'[c][i] = link[c][i + 1]
              \/ /\ sent' = sent + 1
                 /\ Len(link[c]) \in Nat /\ DOMAIN link[c] = 1 .. Len(link[c])
                 /\ \A i \in DOMAIN link'[c] :
                      \/ i \in DOMAIN link[c] /\ link'[c][i] = link[c][i]
                      \/ i = Len(link[c]) + 1 /\ link'[c][i].rec = sent + 1
<1> USE DEF vaultVars, tailVars, scanVars, outVars, tailRest, readRest
<1>0. link \in [Connection -> Seq(Token)] /\ sent \in Nat
  BY Ranges DEF Typed, Sockets
<1>e. <<>> \in Seq(Token) /\ DOMAIN <<>> = {}
  OBVIOUS
<1>1. CASE VaultSends
  <2>1. sent' = sent + 1
    BY <1>1 DEF VaultSends
  <2>2. CASE UNCHANGED link
    BY <2>1, <2>2, <1>0
  <2>3. CASE ~UNCHANGED link
    <3>1. PICK d \in Connection, n \in Sizes :
            link' = [link EXCEPT ![d] = Append(@, Written(sent + 1, n))]
      BY <2>3, <1>1 DEF VaultSends
    <3>2. PICK e : e = Written(sent + 1, n)
      OBVIOUS
    <3>3. e \in Token /\ e.rec = sent + 1
      BY <3>2, <1>0, SizeAssumption DEF Token, Written
    <3>4. link'[d] = Append(link[d], e) /\ \A c \in Connection : c # d => link'[c] = link[c]
      BY <3>1, <3>2, <1>0
    <3>5. /\ Append(link[d], e) \in Seq(Token) /\ Len(link[d]) \in Nat
          /\ DOMAIN link[d] = 1 .. Len(link[d])
          /\ \A i \in DOMAIN Append(link[d], e) :
               \/ i \in DOMAIN link[d] /\ Append(link[d], e)[i] = link[d][i]
               \/ i = Len(link[d]) + 1 /\ Append(link[d], e)[i] = e
      BY <3>3, <1>0, Push
    <3>6. link' \in [Connection -> Seq(Token)]
      BY <3>1, <3>2, <3>5, <1>0
    <3>7. \A c \in Connection : c # d =>
            \A i \in DOMAIN link'[c] : i \in DOMAIN link[c] /\ link'[c][i] = link[c][i]
      BY <3>4
    <3>8. \A i \in DOMAIN link'[d] :
            \/ i \in DOMAIN link[d] /\ link'[d][i] = link[d][i]
            \/ i = Len(link[d]) + 1 /\ link'[d][i].rec = sent + 1
      BY <3>3, <3>4, <3>5
    <3> SUFFICES ASSUME NEW c \in Connection
                 PROVE  \/ \A i \in DOMAIN link'[c] : i \in DOMAIN link[c] /\ link'[c][i] = link[c][i]
                        \/ /\ Len(link[c]) \in Nat /\ DOMAIN link[c] = 1 .. Len(link[c])
                           /\ \A i \in DOMAIN link'[c] :
                                \/ i \in DOMAIN link[c] /\ link'[c][i] = link[c][i]
                                \/ i = Len(link[c]) + 1 /\ link'[c][i].rec = sent + 1
      BY <2>1, <3>6, <1>0
    <3>9. CASE c = d
      BY <3>5, <3>8, <3>9
    <3>10. CASE c # d
      BY <3>7, <3>10
    <3> QED
      BY <3>9, <3>10
  <2> QED
    BY <2>2, <2>3
<1>2. ASSUME NEW d \in Connection, SocketRead(d)
      PROVE  /\ link' \in [Connection -> Seq(Token)] /\ sent' = sent
             /\ Len(link[d]) \in Nat /\ DOMAIN link'[d] = 1 .. Len(link[d]) - 1
             /\ \A i \in DOMAIN link'[d] : i + 1 \in DOMAIN link[d] /\ link'[d][i] = link[d][i + 1]
             /\ \A c \in Connection : c # d => link'[c] = link[c]
  <2>1. /\ link[d] # <<>> /\ link' = [link EXCEPT ![d] = Tail(@)] /\ sent' = sent
        /\ link[d] \in Seq(Token)
    BY <1>2, <1>0 DEF SocketRead
  <2>2. link'[d] = Tail(link[d]) /\ \A c \in Connection : c # d => link'[c] = link[c]
    BY <2>1, <1>0
  <2>3. /\ Tail(link[d]) \in Seq(Token) /\ Len(link[d]) \in Nat
        /\ DOMAIN Tail(link[d]) = 1 .. Len(link[d]) - 1
        /\ \A i \in DOMAIN Tail(link[d]) : i + 1 \in DOMAIN link[d] /\ Tail(link[d])[i] = link[d][i + 1]
    BY <2>1, Shift
  <2>4. link' \in [Connection -> Seq(Token)]
    BY <2>1, <2>3, <1>0
  <2> QED
    BY <2>1, <2>2, <2>3, <2>4
<1>3. ASSUME NEW d \in Connection, SocketTooLong(d)
      PROVE  /\ link' \in [Connection -> Seq(Token)] /\ sent' = sent
             /\ \A c \in Connection : link'[c] \in {<<>>, link[c]}
  BY <1>3, <1>0, <1>e DEF SocketTooLong
<1>4. Crash => /\ link' \in [Connection -> Seq(Token)] /\ sent' = sent
               /\ \A c \in Connection : link'[c] \in {<<>>, link[c]}
  BY <1>0, <1>e DEF Crash
<1>5. ASSUME \A c \in Connection : link'[c] \in {<<>>, link[c]}
      PROVE  \A c \in Connection : \A i \in DOMAIN link'[c] :
               i \in DOMAIN link[c] /\ link'[c][i] = link[c][i]
  <2> SUFFICES ASSUME NEW c \in Connection, NEW i \in DOMAIN link'[c]
               PROVE  i \in DOMAIN link[c] /\ link'[c][i] = link[c][i]
    OBVIOUS
  <2>1. CASE link'[c] = <<>>
    BY <2>1, <1>e
  <2>2. CASE link'[c] = link[c]
    BY <2>2
  <2> QED
    BY <2>1, <2>2, <1>5
<1>6. Next => \/ VaultSends \/ (\E d \in Connection : SocketRead(d) \/ SocketTooLong(d)) \/ Crash
              \/ UNCHANGED <<link, sent>>
  BY DEF Next, VaultAppends, Visible, Connect, TailStep, OpenAtEnd, OpenAt, ReadLine, ReadEOF,
         ReadOversized, DiscardEnds, FileSend, ScanStep, VaultCloses, SocketSend, Take, Write
<1>7. CASE \E d \in Connection : SocketRead(d)
  <2>1. PICK d \in Connection : SocketRead(d)
    BY <1>7
  <2>2. SUFFICES ASSUME NEW c \in Connection
                 PROVE  \/ \A i \in DOMAIN link'[c] : i \in DOMAIN link[c] /\ link'[c][i] = link[c][i]
                        \/ /\ Len(link[c]) \in Nat /\ DOMAIN link'[c] = 1 .. Len(link[c]) - 1
                           /\ \A i \in DOMAIN link'[c] :
                                i + 1 \in DOMAIN link[c] /\ link'[c][i] = link[c][i + 1]
    BY <2>1, <1>2, <1>0
  <2>3. CASE c = d
    BY <2>1, <2>3, <1>2
  <2>4. CASE c # d
    <3>1. link'[c] = link[c]
      BY <2>1, <2>4, <1>2
    <3> QED
      BY <3>1
  <2> QED
    BY <2>3, <2>4
<1>8. CASE (\E d \in Connection : SocketTooLong(d)) \/ Crash
  BY <1>8, <1>3, <1>4, <1>5, <1>0
<1>9. CASE UNCHANGED <<link, sent>>
  BY <1>9, <1>0
<1> QED
  BY <1>1, <1>6, <1>7, <1>8, <1>9 DEF vars

(* What a step does to what the readers of the socket hold.                 *)
LEMMA CaughtStep ==
  ASSUME Typed, [Next]_vars
  PROVE  /\ caught' \in [Connection -> {Nothing} \cup Record]
         /\ \A c \in Connection : \/ caught'[c] = caught[c] \/ caught'[c] = Nothing
                                 \/ /\ SocketRead(c) /\ link[c] # <<>>
                                    /\ caught'[c] = <<c, link[c][1].rec>>
                                    /\ link[c][1].rec \in 1 .. sent
         /\ \A c, d \in Connection : SocketRead(c) /\ d # c => caught'[d] = caught[d]
<1> USE DEF vaultVars, tailVars, scanVars, outVars, tailRest, readRest
<1>0. /\ caught \in [Connection -> {Nothing} \cup Record] /\ Nothing \in {Nothing} \cup Record
      /\ link \in [Connection -> Seq(Token)]
  BY DEF Typed, Sockets, Record
<1>1. ASSUME NEW d \in Connection, SocketRead(d)
      PROVE  /\ caught' \in [Connection -> {Nothing} \cup Record]
             /\ link[d] # <<>> /\ caught'[d] = <<d, link[d][1].rec>> /\ link[d][1].rec \in 1 .. sent
             /\ \A c \in Connection : c # d => caught'[c] = caught[c]
  <2>1. link[d] \in Seq(Token) /\ link[d] # <<>> /\ caught' = [caught EXCEPT ![d] = <<d, Head(link[d]).rec>>]
    BY <1>1, <1>0 DEF SocketRead
  <2>2. 1 \in DOMAIN link[d] /\ Head(link[d]) = link[d][1]
    BY <2>1, Shift
  <2>3. link[d][1].rec \in 1 .. sent /\ sent \in 0 .. MaxRecords
    BY <2>2 DEF Typed, Pipes, Sockets
  <2>4. <<d, link[d][1].rec>> \in Record
    <3>1. link[d][1].rec \in 1 .. MaxRecords
      BY <2>3, RelayBoundAssumption
    <3> QED
      BY <3>1, Records
  <2> QED
    BY <2>1, <2>2, <2>3, <2>4, <1>0
<1>2. ASSUME NEW d \in Connection, SocketSend(d)
      PROVE  /\ caught' \in [Connection -> {Nothing} \cup Record]
             /\ \A c \in Connection : caught'[c] = caught[c] \/ caught'[c] = Nothing
  BY <1>2, <1>0 DEF SocketSend
<1>3. Crash => /\ caught' \in [Connection -> {Nothing} \cup Record]
               /\ \A c \in Connection : caught'[c] = Nothing
  BY <1>0 DEF Crash
<1>4. Next => \/ \E d \in Connection : SocketRead(d) \/ SocketSend(d)
              \/ Crash \/ UNCHANGED caught
  BY DEF Next, VaultAppends, Visible, VaultSends, Connect, TailStep, OpenAtEnd, OpenAt, ReadLine, ReadEOF,
         ReadOversized, DiscardEnds, FileSend, ScanStep, SocketTooLong, VaultCloses, Take, Write
<1>5. \A c, d \in Connection : SocketRead(c) /\ d # c => caught'[d] = caught[d]
  BY <1>1
<1>6. CASE \E d \in Connection : SocketRead(d)
  <2>1. PICK d \in Connection : SocketRead(d)
    BY <1>6
  <2> QED
    BY <2>1, <1>1, <1>5
<1>7. CASE \E d \in Connection : SocketSend(d)
  BY <1>7, <1>2, <1>5
<1> QED
  BY <1>0, <1>3, <1>4, <1>5, <1>6, <1>7 DEF vars

LEMMA SocketsStep ==
  ASSUME Typed, [Next]_vars
  PROVE  Sockets'
<1> USE DEF vaultVars, tailVars, scanVars, outVars, tailRest, readRest
<1>0. /\ scan \in [Connection -> {"new", "read", "send", "over"}]
      /\ link \in [Connection -> Seq(Token)] /\ caught \in [Connection -> Item]
      /\ \A c \in Connection : /\ caught[c] \in {Nothing} \cup ({c} \X (1 .. sent))
                               /\ caught[c] # Nothing <=> scan[c] = "send"
                               /\ ~Open(c) => link[c] = <<>>
                               /\ \A i \in DOMAIN link[c] : link[c][i].rec \in 1 .. sent
  BY DEF Typed, Sockets
<1>1. /\ link' \in [Connection -> Seq(Token)] /\ caught' \in [Connection -> Item]
      /\ sent \in Nat /\ sent' \in Nat /\ 1 .. sent \subseteq 1 .. sent'
  <2>1. sent \in Nat /\ sent' \in Nat /\ sent <= sent' /\ link' \in [Connection -> Seq(Token)]
    BY LinkStep
  <2>2. 1 .. sent \subseteq 1 .. sent'
    BY <2>1
  <2> QED
    BY <2>1, <2>2, CaughtStep, Records
<1>2. ASSUME NEW c \in Connection
      PROVE  /\ caught'[c] \in {Nothing} \cup ({c} \X (1 .. sent'))
             /\ \A i \in DOMAIN link'[c] : link'[c][i].rec \in 1 .. sent'
  <2>1. caught'[c] \in {Nothing} \cup ({c} \X (1 .. sent'))
    <3>1. CASE caught'[c] = caught[c]
      BY <3>1, <1>0, <1>1
    <3>2. CASE caught'[c] = Nothing
      BY <3>2
    <3>3. CASE caught'[c] = <<c, link[c][1].rec>> /\ link[c][1].rec \in 1 .. sent
      <4>1. PICK n : n = link[c][1].rec
        OBVIOUS
      <4>2. n \in 1 .. sent' /\ caught'[c] = <<c, n>>
        BY <3>3, <4>1, <1>1
      <4> QED
        BY <4>2
    <3> QED
      BY <3>1, <3>2, <3>3, CaughtStep
  <2>2. \A i \in DOMAIN link'[c] : link'[c][i].rec \in 1 .. sent'
    <3> SUFFICES ASSUME NEW i \in DOMAIN link'[c] PROVE link'[c][i].rec \in 1 .. sent'
      OBVIOUS
    <3>1. \/ i \in DOMAIN link[c] /\ link'[c][i] = link[c][i]
          \/ i + 1 \in DOMAIN link[c] /\ link'[c][i] = link[c][i + 1]
          \/ sent' = sent + 1 /\ link'[c][i].rec = sent + 1
      BY LinkStep
    <3>2. \A k \in DOMAIN link[c] : link[c][k].rec \in 1 .. sent'
      BY <1>0, <1>1
    <3>3. CASE sent' = sent + 1 /\ link'[c][i].rec = sent + 1
      BY <3>3, <1>1
    <3> QED
      BY <3>1, <3>2, <3>3
  <2> QED
    BY <2>1, <2>2
<1>3. /\ scan' \in [Connection -> {"new", "read", "send", "over"}]
      /\ \A c \in Connection : /\ caught'[c] # Nothing <=> scan'[c] = "send"
                               /\ ~Open(c)' => link'[c] = <<>>
  <2> USE DEF Open
  <2>1. CASE \E c \in Connection : Connect(c)
    BY <2>1, <1>0 DEF Connect
  <2>2. CASE VaultSends
    BY <2>2, <1>0 DEF VaultSends
  <2>3. CASE \E c \in Connection : SocketRead(c)
    <3>1. PICK c \in Connection : SocketRead(c)
      BY <2>3
    <3>2. <<c, Head(link[c]).rec>> # Nothing
      BY Records DEF Nothing
    <3> QED
      BY <3>1, <3>2, <1>0 DEF SocketRead
  <2>4. CASE \E c \in Connection : SocketTooLong(c) \/ VaultCloses(c)
    <3>1. PICK c \in Connection : SocketTooLong(c) \/ VaultCloses(c)
      BY <2>4
    <3>2. /\ scan' = [scan EXCEPT ![c] = "over"] /\ caught' = caught
          /\ scan[c] = "read" /\ link' \in [Connection -> Seq(Token)]
          /\ link'[c] = <<>> /\ \A d \in Connection : d # c => link'[d] = link[d]
      BY <3>1, <1>0, <1>1 DEF SocketTooLong, VaultCloses
    <3>3. scan'[c] = "over" /\ caught'[c] = Nothing
      BY <3>2, <1>0
    <3>4. \A d \in Connection : d # c => scan'[d] = scan[d] /\ caught'[d] = caught[d]
      BY <3>2, <1>0
    <3>5. scan' \in [Connection -> {"new", "read", "send", "over"}]
      BY <3>2, <1>0
    <3> QED
      BY <3>2, <3>3, <3>4, <3>5, <1>0
  <2>5. CASE \E c \in Connection : SocketSend(c)
    BY <2>5, <1>0 DEF SocketSend
  <2>6. CASE Crash
    BY <2>6, <1>0 DEF Crash
  <2>7. CASE UNCHANGED <<scan, caught, link>>
    BY <2>7, <1>0
  <2>8. Next => \/ \E c \in Connection : \/ Connect(c) \/ SocketRead(c) \/ SocketTooLong(c)
                                        \/ VaultCloses(c) \/ SocketSend(c)
                \/ VaultSends \/ Crash \/ UNCHANGED <<scan, caught, link>>
    BY DEF Next, VaultAppends, Visible, TailStep, OpenAtEnd, OpenAt, ReadLine, ReadEOF,
           ReadOversized, DiscardEnds, FileSend, ScanStep, Take, Write
  <2> QED
    BY <2>1, <2>2, <2>3, <2>4, <2>5, <2>6, <2>7, <2>8 DEF vars
<1> QED
  BY <1>1, <1>2, <1>3 DEF Sockets

(* Nothing but the files and the pipes behind them.                         *)
LEMMA PipesStep ==
  ASSUME Typed, [Next]_vars
  PROVE  Pipes'
<1> USE DEF vaultVars, tailVars, scanVars, outVars, tailRest, readRest
<1>0. Pipes
  BY DEF Typed
<1>1. CASE VaultAppends
  <2>1. PICK n \in Sizes : writing' = Chunks(appended + 1, n)
    BY <1>1 DEF VaultAppends
  <2>2. /\ n \in Nat /\ appended \in Nat /\ appended + 1 \in Nat /\ appended < MaxRecords /\ appended' = appended + 1
    BY <1>1, <2>1, <1>0, SizeAssumption, RelayBoundAssumption DEF VaultAppends, Pipes
  <2>3. /\ writing' \in Seq(Chunk)
        /\ \A i \in DOMAIN writing' : /\ writing'[i].part \in 1 .. writing'[i].size
                                      /\ writing'[i].rec \in 1 .. appended'
    <3>0. PICK r \in Nat : r = appended + 1
      BY <2>2
    <3>1. PICK f : f = Chunks(r, n)
      OBVIOUS
    <3>2. f \in Seq(Chunk)
      BY <3>1, <2>2, ChunksTyped
    <3>3. \A k \in DOMAIN f : f[k].rec = r /\ f[k].part = k /\ f[k].size = n /\ k \in 1 .. n
      BY <3>1, <2>2, ChunksTyped
    <3>4. r \in 1 .. appended'
      BY <3>0, <2>2
    <3> QED
      BY <2>1, <3>0, <3>1, <3>2, <3>3, <3>4
  <2>4. 1 .. appended \subseteq 1 .. appended'
    BY <2>2
  <2>5. /\ \A i \in DOMAIN file : file[i].part \in 1 .. file[i].size /\ file[i].rec \in 1 .. appended'
        /\ torn \subseteq 1 .. appended' /\ appended' \in 0 .. MaxRecords
        /\ held \in {Nothing} \cup ({File} \X (1 .. appended'))
    BY <1>0, <2>2, <2>4, RelayBoundAssumption DEF Pipes
  <2> QED
    BY <1>0, <1>1, <2>3, <2>5 DEF VaultAppends, Pipes
<1>2. CASE Visible
  <2>1. PICK k \in 1 .. Len(writing) :
          /\ file' = file \o SubSeq(writing, 1, k)
          /\ writing' = SubSeq(writing, k + 1, Len(writing))
    <3>1. writing # <<>> => Len(writing) \in 1 .. Len(writing)
      BY <1>0, EmptySeq DEF Pipes
    <3> QED
      BY <3>1, <1>2 DEF Visible
  <2>2. /\ file' \in Seq(Chunk) /\ writing' \in Seq(Chunk)
        /\ Len(file') = Len(file) + k /\ DOMAIN file' = 1 .. Len(file) + k
        /\ \A i \in 1 .. Len(file) + k :
             file'[i] = IF i <= Len(file) THEN file[i] ELSE writing[i - Len(file)]
        /\ DOMAIN writing' = 1 .. Len(writing) - k
        /\ \A i \in 1 .. Len(writing) - k : writing'[i] = writing[i + k]
    BY <2>1, Shown
  <2>3. \A i \in DOMAIN file' : \/ i \in DOMAIN file /\ file'[i] = file[i]
                                \/ i - Len(file) \in DOMAIN writing /\ file'[i] = writing[i - Len(file)]
    BY <2>2, Ranges
  <2>4. \A i \in DOMAIN writing' : i + k \in DOMAIN writing /\ writing'[i] = writing[i + k]
    BY <2>2, Ranges
  <2>5. /\ \A i \in DOMAIN file' : /\ file'[i].part \in 1 .. file'[i].size
                                   /\ file'[i].rec \in 1 .. appended
        /\ \A i \in DOMAIN writing' : /\ writing'[i].part \in 1 .. writing'[i].size
                                      /\ writing'[i].rec \in 1 .. appended
    BY <1>0, <2>3, <2>4 DEF Pipes
  <2>6. pos \in 0 .. Len(file') /\ start \in -1 .. Len(file')
    BY <1>0, <2>2, Ranges DEF Pipes
  <2> QED
    BY <1>0, <1>2, <2>2, <2>5, <2>6 DEF Visible, Pipes
<1>3. CASE \E c \in Connection : Connect(c) \/ SocketRead(c) \/ SocketTooLong(c) \/ VaultCloses(c)
  BY <1>0, <1>3 DEF Connect, SocketRead, SocketTooLong, VaultCloses, Pipes
<1>4. CASE VaultSends
  BY <1>0, <1>4, RelayBoundAssumption DEF VaultSends, Pipes
<1>5. CASE OpenAtEnd
  <2>1. Len(file) \in Nat /\ pos' \in 0 .. Len(file) /\ start' \in -1 .. Len(file)
    BY <1>0, <1>5, Ranges DEF OpenAtEnd, OpenAt, Pipes
  <2> QED
    BY <1>0, <1>5, <2>1 DEF OpenAtEnd, OpenAt, Pipes
<1>6. CASE ReadLine
  <2>1. PICK n \in LineEnds :
          /\ pos' = pos + n
          /\ IF file[pos + 1].part = 1
             THEN tail' = "send" /\ held' = <<File, file[pos + 1].rec>>
             ELSE UNCHANGED <<tail, held>>
    BY <1>6 DEF ReadLine
  <2>2. /\ pos' \in 0 .. Len(file) /\ pos + 1 \in DOMAIN file
    BY <2>1, Ranges
  <2>3. file[pos + 1].rec \in 1 .. appended /\ tail = "read"
    BY <1>0, <2>2, <1>6 DEF Pipes, ReadLine
  <2>4. /\ held' \in {Nothing} \cup ({File} \X (1 .. appended))
        /\ tail' \in {"open", "read", "discard", "send"}
        /\ held' # Nothing <=> tail' = "send"
    BY <1>0, <2>1, <2>3 DEF Nothing, File, Pipes
  <2> QED
    BY <1>0, <1>6, <2>2, <2>4 DEF ReadLine, Pipes
<1>7. CASE ReadEOF
  <2>0. Len(file) \in Nat /\ DOMAIN file = 1 .. Len(file) /\ pos \in 0 .. Len(file)
    BY Ranges
  <2>1. torn' \subseteq 1 .. appended /\ pos' \in 0 .. Len(file)
    <3>1. \A k \in pos + 1 .. Len(file) : k \in DOMAIN file
      BY <2>0
    <3>2. \A k \in DOMAIN file : file[k].rec \in 1 .. appended
      BY <1>0 DEF Pipes
    <3>3. torn \subseteq 1 .. appended
      BY <1>0 DEF Pipes
    <3>4. CutShort \subseteq 1 .. appended
      BY <3>1, <3>2, <3>3, Zenon DEF CutShort
    <3> QED
      BY <3>4, <2>0, <1>7 DEF ReadEOF
  <2> QED
    BY <1>0, <1>7, <2>1 DEF ReadEOF, Pipes
<1>8. CASE ReadOversized
  <2>1. pos' \in 0 .. Len(file)
    BY <1>8, Ranges, SizeAssumption DEF ReadOversized, BufferFull
  <2>2. held = Nothing
    BY <1>0, <1>8 DEF Pipes, ReadOversized
  <2> QED
    BY <1>0, <1>8, <2>1, <2>2 DEF ReadOversized, Pipes
<1>9. CASE DiscardEnds
  <2>1. pos' \in 0 .. Len(file)
    BY <1>9, Ranges DEF DiscardEnds, LineOf
  <2>2. held = Nothing
    BY <1>0, <1>9 DEF Pipes, DiscardEnds
  <2> QED
    BY <1>0, <1>9, <2>1, <2>2 DEF DiscardEnds, Pipes
<1>10. CASE FileSend
  <2>1. held \in Record
    <3>1. held \in {File} \X (1 .. appended) /\ appended \in 0 .. MaxRecords
      BY <1>0, <1>10 DEF FileSend, Pipes
    <3>2. held \in {File} \X (1 .. MaxRecords)
      BY <3>1, RelayBoundAssumption
    <3> QED
      BY <3>2, Records
  <2>2. channel' \in Seq(Record) /\ Len(channel') <= ChannelSize
    BY <1>0, <2>1, <1>10, Push, SizeAssumption DEF FileSend, Pipes, Record
  <2> QED
    BY <1>0, <1>10, <2>1, <2>2 DEF FileSend, Pipes, Record
<1>11. CASE \E c \in Connection : SocketSend(c)
  <2>1. PICK c \in Connection : SocketSend(c)
    BY <1>11
  <2>2. caught[c] \in Record
    BY <2>1 DEF SocketSend, Typed, Sockets, Record
  <2>3. channel' \in Seq(Record) /\ Len(channel') <= ChannelSize
    BY <1>0, <2>1, <2>2, Push, SizeAssumption DEF SocketSend, Pipes, Record
  <2> QED
    BY <1>0, <2>1, <2>3 DEF SocketSend, Pipes, Record
<1>12. CASE Take
  <2>1. channel \in Seq(Record) /\ channel # <<>>
    BY <1>0, <1>12 DEF Take, Pipes, Record
  <2>2. /\ channel' \in Seq(Record) /\ Len(channel') = Len(channel) - 1 /\ Len(channel) \in Nat
        /\ writer' \in Record
    BY <2>1, <1>12, Shift DEF Take
  <2>3. Len(channel') <= ChannelSize
    BY <1>0, <2>2, SizeAssumption DEF Pipes
  <2> QED
    BY <1>0, <1>12, <2>2, <2>3 DEF Take, Pipes, Record
<1>13. CASE Write
  <2>1. writer \in Record /\ stdout \in Seq(Record)
    BY <1>0, <1>13 DEF Write, Pipes, Record
  <2>2. stdout' \in Seq(Record)
    BY <2>1, <1>13, Push DEF Write
  <2> QED
    BY <1>0, <1>13, <2>2 DEF Write, Pipes, Record, Item
<1>14. CASE Crash
  <2>1. 0 \in 0 .. Len(file) /\ -1 \in -1 .. Len(file)
    BY Ranges
  <2>2. crashes' \in 0 .. MaxCrashes
    BY <1>0, <1>14, RelayBoundAssumption DEF Crash, Pipes
  <2>3. <<>> \in Seq(Item \ {Nothing}) /\ Len(<<>>) = 0
    OBVIOUS
  <2> QED
    BY <1>0, <1>14, <2>1, <2>2, <2>3, SizeAssumption DEF Crash, Pipes, Item
<1>15. CASE UNCHANGED vars
  BY <1>0, <1>15 DEF vars, Pipes
<1> QED
  BY <1>1, <1>2, <1>3, <1>4, <1>5, <1>6, <1>7, <1>8, <1>9, <1>10, <1>11, <1>12, <1>13, <1>14, <1>15
     DEF Next, TailStep, ScanStep

LEMMA TypedStep ==
  ASSUME Typed, [Next]_vars
  PROVE  Typed'
BY SocketsStep, PipesStep DEF Typed

-----------------------------------------------------------------------------
(* What is read, and in which order.                                        *)

LEMMA AppendedStep ==
  ASSUME Typed, Typed', Appended, [Next]_vars
  PROVE  Appended'
<1> USE DEF vaultVars, tailVars, scanVars, outVars, tailRest, readRest
<1>1. CASE VaultAppends
  <2>1. PICK n \in Sizes : writing' = Chunks(appended + 1, n)
    BY <1>1 DEF VaultAppends
  <2>2. n \in Nat /\ appended \in Nat
    BY <2>1, SizeAssumption, Ranges
  <2>3. PICK r \in Nat : r = appended + 1
    BY <2>2
  <2>4. PICK f : f = Chunks(r, n)
    OBVIOUS
  <2>5. \A i \in DOMAIN f : f[i].rec = r /\ f[i].part = i /\ i \in 1 .. n
    BY <2>2, <2>4, ChunksTyped
  <2>6. writing' = f /\ file' = file
    BY <1>1, <2>1, <2>3, <2>4 DEF VaultAppends
  <2>7. \A i \in DOMAIN file : file[i].rec < r
    <3>1. \A i \in DOMAIN file : file[i].rec \in 1 .. appended
      BY DEF Typed, Pipes
    <3> QED
      BY <3>1, <2>2, <2>3
  <2>8. \A i, j \in DOMAIN writing' :
          i < j /\ writing'[j].part = 1 => writing'[i].rec < writing'[j].rec
    BY <2>5, <2>6, <2>2
  <2>9. \A i \in DOMAIN file', j \in DOMAIN writing' :
          writing'[j].part = 1 => file'[i].rec < writing'[j].rec
    BY <2>5, <2>6, <2>7
  <2> QED
    BY <2>6, <2>8, <2>9 DEF Appended
<1>2. CASE Visible
  <2>1. PICK k \in 1 .. Len(writing) :
          /\ file' = file \o SubSeq(writing, 1, k)
          /\ writing' = SubSeq(writing, k + 1, Len(writing))
    <3>1. writing # <<>> => Len(writing) \in 1 .. Len(writing)
      <4>1. writing \in Seq(Chunk)
        BY DEF Typed, Pipes
      <4>2. Len(writing) \in Nat /\ (writing # <<>> => Len(writing) # 0)
        BY <4>1, EmptySeq, LenProperties
      <4> QED
        BY <4>2
    <3> QED
      BY <3>1, <1>2 DEF Visible
  <2>2. /\ Len(file) \in Nat /\ DOMAIN file = 1 .. Len(file)
        /\ Len(writing) \in Nat /\ DOMAIN writing = 1 .. Len(writing)
    BY Ranges
  <2>3. \A i \in DOMAIN file' :
          \/ i \in DOMAIN file /\ file'[i] = file[i]
          \/ /\ i - Len(file) \in 1 .. k /\ i - Len(file) \in DOMAIN writing
             /\ file'[i] = writing[i - Len(file)]
    BY <2>1, <2>2, Shown
  <2>4. \A i \in DOMAIN writing' : /\ i \in Nat /\ i + k \in DOMAIN writing /\ i >= 1
                                   /\ writing'[i] = writing[i + k]
    BY <2>1, <2>2, Shown
  <2>5. \A i \in DOMAIN file' : i \in Nat
    BY <2>1, <2>2, Shown
  <2>6. \A i, j \in DOMAIN file' :
          i < j /\ file'[j].part = 1 => file'[i].rec < file'[j].rec
    <3> SUFFICES ASSUME NEW i \in DOMAIN file', NEW j \in DOMAIN file', i < j, file'[j].part = 1
                 PROVE  file'[i].rec < file'[j].rec
      OBVIOUS
    <3>1. CASE j \in DOMAIN file /\ file'[j] = file[j]
      <4>1. i \in DOMAIN file
        BY <3>1, <2>2, <2>5, <2>3
      <4>2. file'[i] = file[i]
        BY <4>1, <2>2, <2>3
      <4> QED
        BY <3>1, <4>1, <4>2 DEF Appended
    <3>2. CASE /\ j - Len(file) \in 1 .. k /\ j - Len(file) \in DOMAIN writing
               /\ file'[j] = writing[j - Len(file)]
      <4>1. CASE i \in DOMAIN file /\ file'[i] = file[i]
        BY <4>1, <3>2 DEF Appended
      <4>2. CASE /\ i - Len(file) \in DOMAIN writing /\ file'[i] = writing[i - Len(file)]
        <5>1. i - Len(file) < j - Len(file)
          BY <2>2, <2>5
        <5> QED
          BY <5>1, <4>2, <3>2 DEF Appended
      <4> QED
        BY <4>1, <4>2, <2>3
    <3> QED
      BY <3>1, <3>2, <2>3
  <2>7. \A i, j \in DOMAIN writing' :
          i < j /\ writing'[j].part = 1 => writing'[i].rec < writing'[j].rec
    <3> SUFFICES ASSUME NEW i \in DOMAIN writing', NEW j \in DOMAIN writing', i < j,
                        writing'[j].part = 1
                 PROVE  writing'[i].rec < writing'[j].rec
      OBVIOUS
    <3>1. i + k < j + k
      BY <2>4
    <3> QED
      BY <3>1, <2>4 DEF Appended
  <2>8. \A i \in DOMAIN file', j \in DOMAIN writing' :
          writing'[j].part = 1 => file'[i].rec < writing'[j].rec
    <3> SUFFICES ASSUME NEW i \in DOMAIN file', NEW j \in DOMAIN writing', writing'[j].part = 1
                 PROVE  file'[i].rec < writing'[j].rec
      OBVIOUS
    <3>1. CASE i \in DOMAIN file /\ file'[i] = file[i]
      BY <3>1, <2>4 DEF Appended
    <3>2. CASE /\ i - Len(file) \in 1 .. k /\ i - Len(file) \in DOMAIN writing
               /\ file'[i] = writing[i - Len(file)]
      <4>1. i - Len(file) < j + k
        BY <3>2, <2>2, <2>4
      <4> QED
        BY <4>1, <3>2, <2>4 DEF Appended
    <3> QED
      BY <3>1, <3>2, <2>3
  <2> QED
    BY <2>6, <2>7, <2>8 DEF Appended
<1>3. CASE UNCHANGED <<file, writing>>
  BY <1>3 DEF Appended
<1>4. Next => VaultAppends \/ Visible \/ UNCHANGED <<file, writing>>
  BY DEF Next, Connect, VaultSends, TailStep, OpenAtEnd, OpenAt, ReadLine, ReadEOF, ReadOversized,
         DiscardEnds, FileSend, ScanStep, SocketRead, SocketTooLong, VaultCloses, SocketSend,
         Take, Write, Crash
<1> QED
  BY <1>1, <1>2, <1>3, <1>4 DEF vars

LEMMA SentStep ==
  ASSUME Typed, Sent, [Next]_vars
  PROVE  Sent'
<1> SUFFICES ASSUME NEW c \in Connection, NEW i \in DOMAIN link'[c], NEW j \in DOMAIN link'[c], i < j
             PROVE  link'[c][i].rec < link'[c][j].rec
  BY DEF Sent
<1>1. \A k, l \in DOMAIN link[c] : k < l => link[c][k].rec < link[c][l].rec
  BY DEF Sent
<1>2. \A k \in DOMAIN link[c] : link[c][k].rec \in 1 .. sent
  BY DEF Typed, Sockets
<1>3. CASE \A k \in DOMAIN link'[c] : k \in DOMAIN link[c] /\ link'[c][k] = link[c][k]
  BY <1>1, <1>3
<1>4. CASE /\ Len(link[c]) \in Nat /\ DOMAIN link'[c] = 1 .. Len(link[c]) - 1
           /\ \A k \in DOMAIN link'[c] : k + 1 \in DOMAIN link[c] /\ link'[c][k] = link[c][k + 1]
  <2>1. i + 1 < j + 1
    BY <1>4
  <2> QED
    BY <2>1, <1>1, <1>4
<1>5. CASE /\ sent' = sent + 1
           /\ Len(link[c]) \in Nat /\ DOMAIN link[c] = 1 .. Len(link[c])
           /\ \A k \in DOMAIN link'[c] :
                \/ k \in DOMAIN link[c] /\ link'[c][k] = link[c][k]
                \/ k = Len(link[c]) + 1 /\ link'[c][k].rec = sent + 1
  <2>1. i \in DOMAIN link[c] /\ link'[c][i] = link[c][i]
    BY <1>5
  <2>2. CASE j \in DOMAIN link[c] /\ link'[c][j] = link[c][j]
    BY <2>1, <2>2, <1>1
  <2>3. CASE link'[c][j].rec = sent + 1
    BY <2>1, <2>3, <1>2, Ranges
  <2> QED
    BY <2>2, <2>3, <1>5
<1> QED
  BY <1>3, <1>4, <1>5, LinkStep

(* Nothing that was taken in comes before the readers again.                *)
LEMMA FileBehindKept ==
  ASSUME Typed, Typed', [Next]_vars, NEW x, FileBehind(x)
  PROVE  FileBehind(x)'
<1> USE DEF vaultVars, tailVars, scanVars, outVars, tailRest, readRest
<1> SUFFICES ASSUME x[1] = File
             PROVE  \E k \in DOMAIN file' : file'[k].rec = x[2] /\ (tail' # "open" => k <= pos')
  BY DEF FileBehind
<1>1. PICK k \in DOMAIN file : file[k].rec = x[2] /\ (tail # "open" => k <= pos)
  BY DEF FileBehind
<1>2. /\ Len(file) \in Nat /\ DOMAIN file = 1 .. Len(file) /\ pos \in 0 .. Len(file)
      /\ BufferSize \in Nat /\ \A n \in LineEnds : n \in 1 .. Len(file) - pos
  BY Ranges, SizeAssumption
<1>3. /\ k \in DOMAIN file' /\ file'[k] = file[k]
  <2>1. CASE Visible
    <3>1. PICK m \in 1 .. Len(writing) : file' = file \o SubSeq(writing, 1, m)
      <4>1. writing # <<>> => Len(writing) \in 1 .. Len(writing)
        BY EmptySeq DEF Typed, Pipes
      <4> QED
        BY <4>1, <2>1 DEF Visible
    <3> QED
      BY <3>1, <1>1, <1>2, Shown
  <2>2. CASE UNCHANGED file
    BY <2>2, <1>1
  <2>3. Next => Visible \/ UNCHANGED file
    BY DEF Next, VaultAppends, VaultSends, Connect, TailStep, OpenAtEnd, OpenAt, ReadLine, ReadEOF,
           ReadOversized, DiscardEnds, FileSend, ScanStep, SocketRead, SocketTooLong, VaultCloses,
           SocketSend, Take, Write, Crash
  <2> QED
    BY <2>1, <2>2, <2>3 DEF vars
<1>4. tail' # "open" => k <= pos'
  <2>1. OpenAtEnd => k <= pos'
    BY <1>1, <1>2 DEF OpenAtEnd, OpenAt
  <2>2. TailStep => OpenAtEnd \/ (tail # "open" /\ (pos' = pos \/ pos' >= pos))
    <3>1. ReadLine => tail # "open" /\ pos' >= pos
      BY <1>2 DEF ReadLine
    <3>2. ReadEOF => tail # "open" /\ pos' >= pos
      BY <1>2 DEF ReadEOF
    <3>3. ReadOversized => tail # "open" /\ pos' >= pos
      BY <1>2 DEF ReadOversized
    <3>4. DiscardEnds => tail # "open" /\ pos' >= pos
      BY <1>2 DEF DiscardEnds
    <3>5. FileSend => tail # "open" /\ pos' = pos
      BY DEF FileSend
    <3> QED
      BY <3>1, <3>2, <3>3, <3>4, <3>5 DEF TailStep
  <2>3. Next => TailStep \/ tail' = "open" \/ UNCHANGED <<tail, pos>>
    BY DEF Next, VaultAppends, Visible, VaultSends, Connect, ScanStep, SocketRead, SocketTooLong,
           VaultCloses, SocketSend, Take, Write, Crash
  <2>4. pos' \in Nat
    <3>1. Len(file') \in Nat /\ pos' \in 0 .. Len(file')
      BY LenProperties DEF Typed, Pipes
    <3> QED
      BY <3>1
  <2> QED
    BY <1>1, <1>2, <2>1, <2>2, <2>3, <2>4 DEF vars
<1> QED
  BY <1>1, <1>3, <1>4

LEMMA SocketBehindKept ==
  ASSUME Typed, [Next]_vars, NEW x, x[2] \in Nat, SocketBehind(x)
  PROVE  SocketBehind(x)'
<1> SUFFICES ASSUME NEW c \in Connection, x[1] = c
             PROVE  x[2] <= sent' /\ \A i \in DOMAIN link'[c] : x[2] < link'[c][i].rec
  BY DEF SocketBehind
<1>1. x[2] <= sent /\ \A i \in DOMAIN link[c] : x[2] < link[c][i].rec
  BY DEF SocketBehind
<1>2. sent \in Nat /\ sent' \in Nat /\ sent <= sent'
  BY LinkStep
<1>3. ASSUME NEW i \in DOMAIN link'[c] PROVE x[2] < link'[c][i].rec
  <2>1. \/ i \in DOMAIN link[c] /\ link'[c][i] = link[c][i]
        \/ i + 1 \in DOMAIN link[c] /\ link'[c][i] = link[c][i + 1]
        \/ link'[c][i].rec = sent + 1
    BY LinkStep
  <2> QED
    BY <2>1, <1>1, <1>2
<1> QED
  BY <1>1, <1>2, <1>3

(* A record that is read now is later than everything of its device that   *)
(* was taken in before, and it stays behind the reader.                     *)
LEMMA LineIsLater ==
  ASSUME Typed, Appended, ReadLine, held' # held, NEW x, FileBehind(x), x[2] \in Nat
  PROVE  Precedes(x, held')
<1>1. PICK n \in LineEnds :
        IF file[pos + 1].part = 1
        THEN tail' = "send" /\ held' = <<File, file[pos + 1].rec>>
        ELSE UNCHANGED <<tail, held>>
  BY DEF ReadLine
<1>2. file[pos + 1].part = 1 /\ held' = <<File, file[pos + 1].rec>> /\ tail = "read"
  BY <1>1 DEF ReadLine
<1>3. /\ Len(file) \in Nat /\ DOMAIN file = 1 .. Len(file) /\ pos \in 0 .. Len(file)
      /\ n \in 1 .. Len(file) - pos
  BY Ranges, <1>1
<1>4. SUFFICES ASSUME x[1] = File
               PROVE  x[2] < file[pos + 1].rec
  BY <1>2 DEF Precedes
<1>5. PICK k \in DOMAIN file : file[k].rec = x[2] /\ k <= pos
  BY <1>2, <1>4 DEF FileBehind
<1>6. pos + 1 \in DOMAIN file /\ k < pos + 1
  BY <1>3, <1>5
<1> QED
  BY <1>2, <1>5, <1>6 DEF Appended

LEMMA LineIsBehind ==
  ASSUME Typed, ReadLine, held' # held
  PROVE  Behind(held)'
<1> USE DEF vaultVars, tailVars, scanVars, outVars, tailRest, readRest
<1>1. PICK n \in LineEnds :
        /\ pos' = pos + n
        /\ IF file[pos + 1].part = 1
           THEN tail' = "send" /\ held' = <<File, file[pos + 1].rec>>
           ELSE UNCHANGED <<tail, held>>
  BY DEF ReadLine
<1>2. held' = <<File, file[pos + 1].rec>> /\ file' = file
  BY <1>1 DEF ReadLine
<1>3. /\ Len(file) \in Nat /\ DOMAIN file = 1 .. Len(file) /\ pos \in 0 .. Len(file)
      /\ n \in 1 .. Len(file) - pos
  BY Ranges, <1>1
<1>4. pos + 1 \in DOMAIN file' /\ pos + 1 <= pos' /\ file'[pos + 1].rec = file[pos + 1].rec
  BY <1>1, <1>2, <1>3
<1>5. \A c \in Connection : c # File
  BY Records
<1>6. FileBehind(held)'
  BY <1>2, <1>4 DEF FileBehind
<1>7. SocketBehind(held)'
  BY <1>2, <1>5 DEF SocketBehind
<1> QED
  BY <1>6, <1>7 DEF Behind

LEMMA TokenIsLater ==
  ASSUME Typed, [Next]_vars, NEW c \in Connection, SocketRead(c), caught'[c] = <<c, link[c][1].rec>>,
         link[c] # <<>>, NEW x, SocketBehind(x)
  PROVE  Precedes(x, caught'[c])
<1>1. link[c] \in Seq(Token)
  BY DEF Typed, Sockets
<1>2. 1 \in DOMAIN link[c]
  BY <1>1, Shift
<1> QED
  BY <1>2 DEF Precedes, SocketBehind

LEMMA TokenIsBehind ==
  ASSUME Typed, Sent, NEW c \in Connection, SocketRead(c), link[c] # <<>>,
         NEW x, x = <<c, link[c][1].rec>>
  PROVE  Behind(x)'
<1> USE DEF vaultVars, tailVars, scanVars, outVars, tailRest, readRest
<1>1. /\ link \in [Connection -> Seq(Token)] /\ link'[c] = Tail(link[c]) /\ sent' = sent
  BY DEF SocketRead, Typed, Sockets
<1>2. /\ 1 \in DOMAIN link[c]
      /\ Len(link[c]) \in Nat /\ DOMAIN link'[c] = 1 .. Len(link[c]) - 1
      /\ \A i \in DOMAIN link'[c] : i + 1 \in DOMAIN link[c] /\ link'[c][i] = link[c][i + 1]
  BY <1>1, Shift
<1>3. link[c][1].rec <= sent
  BY <1>2, Ranges DEF Typed, Sockets
<1>4. \A i \in DOMAIN link'[c] : link[c][1].rec < link'[c][i].rec
  BY <1>2 DEF Sent
<1>5. c # File
  BY Records
<1>6. FileBehind(x)'
  BY <1>5 DEF FileBehind
<1>7. SocketBehind(x)'
  BY <1>1, <1>3, <1>4 DEF SocketBehind
<1> QED
  BY <1>6, <1>7 DEF Behind

LEMMA NothingIsBehind == Behind(Nothing) /\ Behind(Nothing)'
BY Records DEF Behind, FileBehind, SocketBehind, Nothing, File

(* The records the relay holds are those it held, and the one it reads.     *)
LEMMA TakenInStep ==
  ASSUME Typed, [Next]_vars, NEW x \in TakenIn'
  PROVE  \/ x \in TakenIn \/ x = Nothing
         \/ ReadLine /\ held' # held /\ x = held'
         \/ \E c \in Connection : /\ SocketRead(c) /\ link[c] # <<>> /\ x = caught'[c]
                                  /\ x = <<c, link[c][1].rec>>
<1> USE DEF vaultVars, tailVars, scanVars, outVars, tailRest, readRest
<1>0. ASSUME NEW c \in Connection, x = caught'[c]
      PROVE  \/ x \in InHand \/ x = Nothing
             \/ \E d \in Connection : /\ SocketRead(d) /\ link[d] # <<>> /\ x = caught'[d]
                                      /\ x = <<d, link[d][1].rec>>
  BY <1>0, CaughtStep DEF InHand
<1>a. \A c \in Connection : caught[c] \in InHand
  BY DEF InHand
<1>b. held \in InHand /\ InHand \subseteq TakenIn /\ writer \in TakenIn
  BY DEF InHand, TakenIn
<1>c. /\ \A i \in DOMAIN stdout : stdout[i] \in TakenIn
      /\ \A i \in DOMAIN channel : channel[i] \in TakenIn
  BY DEF TakenIn
<1>d. \/ \E i \in DOMAIN stdout' : x = stdout'[i]
      \/ \E i \in DOMAIN channel' : x = channel'[i]
      \/ x = writer' \/ x = held' \/ \E c \in Connection : x = caught'[c]
  BY DEF TakenIn, InHand
<1>1. CASE FileSend
  <2>1. channel \in Seq(Record) /\ held \in Record /\ channel' = Append(channel, held)
    <3>1. /\ channel \in Seq(Record) /\ held # Nothing /\ channel' = Append(channel, held)
          /\ held \in {Nothing} \cup ({File} \X (1 .. appended)) /\ appended \in 0 .. MaxRecords
      BY <1>1 DEF FileSend, Typed, Pipes, Record
    <3>2. held \in {File} \X (1 .. MaxRecords)
      BY <3>1, RelayBoundAssumption
    <3>3. held \in Record
      BY <3>2, <3>1 DEF Record, Item
    <3> QED
      BY <3>1, <3>3
  <2>2. \A i \in DOMAIN channel' : (i \in DOMAIN channel /\ channel'[i] = channel[i]) \/ channel'[i] = held
    BY <2>1, Push
  <2>3. UNCHANGED <<stdout, writer, caught>> /\ held' = Nothing
    BY <1>1 DEF FileSend
  <2> QED
    BY <2>2, <2>3, <1>a, <1>b, <1>c, <1>d
<1>2. CASE \E c \in Connection : SocketSend(c)
  <2>0. PICK c \in Connection : SocketSend(c)
    BY <1>2
  <2>1. channel \in Seq(Record) /\ caught[c] \in Record /\ channel' = Append(channel, caught[c])
    BY <2>0 DEF SocketSend, Typed, Pipes, Sockets, Record
  <2>2. \A i \in DOMAIN channel' : (i \in DOMAIN channel /\ channel'[i] = channel[i]) \/ channel'[i] = caught[c]
    BY <2>1, Push
  <2>3. UNCHANGED <<stdout, writer, held>>
    BY <2>0 DEF SocketSend
  <2> QED
    BY <2>2, <2>3, <1>0, <1>a, <1>b, <1>c, <1>d
<1>3. CASE Take
  <2>1. channel \in Seq(Record) /\ channel # <<>> /\ channel' = Tail(channel) /\ writer' = Head(channel)
    BY <1>3 DEF Take, Typed, Pipes, Record
  <2>2. /\ 1 \in DOMAIN channel /\ writer' = channel[1]
        /\ \A i \in DOMAIN channel' : i + 1 \in DOMAIN channel /\ channel'[i] = channel[i + 1]
    BY <2>1, Shift
  <2>3. UNCHANGED <<stdout, held, caught>>
    BY <1>3 DEF Take
  <2> QED
    BY <2>2, <2>3, <1>a, <1>b, <1>c, <1>d
<1>4. CASE Write
  <2>1. stdout \in Seq(Record) /\ writer \in Record /\ stdout' = Append(stdout, writer)
    BY <1>4 DEF Write, Typed, Pipes, Record
  <2>2. \A i \in DOMAIN stdout' : (i \in DOMAIN stdout /\ stdout'[i] = stdout[i]) \/ stdout'[i] = writer
    BY <2>1, Push
  <2>3. UNCHANGED <<channel, held, caught>> /\ writer' = Nothing
    BY <1>4 DEF Write
  <2> QED
    BY <2>2, <2>3, <1>a, <1>b, <1>c, <1>d
<1>5. CASE Crash
  <2>1. /\ UNCHANGED stdout /\ channel' = <<>> /\ writer' = Nothing /\ held' = Nothing
        /\ \A c \in Connection : caught'[c] = Nothing
    BY <1>5 DEF Crash
  <2>2. DOMAIN channel' = {}
    BY <2>1
  <2> QED
    BY <2>1, <2>2, <1>c, <1>d
<1>6. CASE ReadLine
  <2>1. UNCHANGED <<stdout, channel, writer, caught>>
    BY <1>6 DEF ReadLine
  <2> QED
    BY <1>6, <2>1, <1>a, <1>b, <1>c, <1>d
<1>7. CASE UNCHANGED <<stdout, channel, writer, held>>
  BY <1>7, <1>0, <1>b, <1>c, <1>d
<1>8. Next => \/ FileSend \/ (\E c \in Connection : SocketSend(c)) \/ Take \/ Write \/ Crash \/ ReadLine
              \/ UNCHANGED <<stdout, channel, writer, held>>
  BY DEF Next, VaultAppends, Visible, VaultSends, Connect, TailStep, OpenAtEnd, OpenAt, ReadEOF,
         ReadOversized, DiscardEnds, ScanStep, SocketRead, SocketTooLong, VaultCloses
<1> QED
  BY <1>1, <1>2, <1>3, <1>4, <1>5, <1>6, <1>7, <1>8 DEF vars

LEMMA TakenInTyped ==
  ASSUME Typed, NEW x \in TakenIn
  PROVE  x[2] \in Nat
<1>1. /\ \A i \in DOMAIN stdout : stdout[i] \in Record
      /\ \A i \in DOMAIN channel : channel[i] \in Record
  BY LenProperties, ElementOfSeq DEF Typed, Pipes, Record
<1>2. writer \in {Nothing} \cup Record /\ \A c \in Connection : caught[c] \in {Nothing} \cup Record
  BY Records DEF Typed, Pipes, Sockets
<1>3. held[2] \in Nat
  BY Ranges DEF Typed, Pipes, Nothing
<1>4. \A y \in {Nothing} \cup Record : y[2] \in Nat
  BY Records DEF Nothing
<1> QED
  BY <1>1, <1>2, <1>3, <1>4 DEF TakenIn, InHand

LEMMA TakenStep ==
  ASSUME Typed, Typed', Sent, Taken, [Next]_vars
  PROVE  Taken'
<1> SUFFICES ASSUME NEW x \in TakenIn' PROVE Behind(x)'
  BY DEF Taken
<1>1. CASE x \in TakenIn
  BY <1>1, FileBehindKept, SocketBehindKept, TakenInTyped DEF Taken, Behind
<1>2. CASE x = Nothing
  BY <1>2, NothingIsBehind
<1>3. CASE ReadLine /\ held' # held /\ x = held'
  BY <1>3, LineIsBehind DEF Behind, FileBehind, SocketBehind
<1>4. ASSUME NEW c \in Connection, SocketRead(c), link[c] # <<>>, x = <<c, link[c][1].rec>>
      PROVE  Behind(x)'
  BY <1>4, TokenIsBehind
<1> QED
  BY <1>1, <1>2, <1>3, <1>4, TakenInStep

(* The order of what was taken in is the order in which it is written.      *)
LEMMA NothingPrecedes == \A x : Precedes(Nothing, x) /\ Precedes(x, Nothing)
BY DEF Precedes, Nothing

LEMMA ReadFlow ==
  ASSUME Typed, Appended, Taken, Flow, ReadLine
  PROVE  Flow'
<1> USE DEF vaultVars, tailVars, scanVars, outVars, tailRest, readRest
<1>1. UNCHANGED <<stdout, channel, writer, caught>>
  BY DEF ReadLine
<1>2. CASE held' = held
  BY <1>1, <1>2 DEF Flow, Ordered, AllPrecede, Precedes, InHand
<1>3. CASE held' # held
  <2>1. ASSUME NEW x \in TakenIn PROVE Precedes(x, held')
    BY <1>3, LineIsLater, TakenInTyped DEF Taken, Behind
  <2>2. /\ AllPrecede(stdout, held') /\ AllPrecede(channel, held') /\ Precedes(writer, held')
    BY <2>1 DEF TakenIn, AllPrecede
  <2>3. \A y \in InHand' : y = held' \/ y \in InHand
    BY <1>1 DEF InHand
  <2> QED
    BY <1>1, <2>2, <2>3 DEF Flow, Ordered, AllPrecede, Precedes
<1> QED
  BY <1>2, <1>3

LEMMA SocketReadFlow ==
  ASSUME Typed, Taken, Flow, [Next]_vars, NEW c \in Connection, SocketRead(c)
  PROVE  Flow'
<1> USE DEF vaultVars, tailVars, scanVars, outVars, tailRest, readRest
<1>1. UNCHANGED <<stdout, channel, writer, held>>
  BY DEF SocketRead
<1>a. /\ link[c] # <<>> /\ caught'[c] = <<c, link[c][1].rec>>
      /\ \A d \in Connection : d # c => caught'[d] = caught[d]
  <2>1. link[c] # <<>>
    BY DEF SocketRead
  <2>2. link[c] \in Seq(Token) /\ caught' = [caught EXCEPT ![c] = <<c, Head(link[c]).rec>>]
        /\ caught \in [Connection -> Item]
    BY DEF SocketRead, Typed, Sockets
  <2>3. Head(link[c]) = link[c][1]
    BY <2>1, <2>2, Shift
  <2> QED
    BY <2>1, <2>2, <2>3
<1>2. ASSUME NEW x \in TakenIn PROVE Precedes(x, caught'[c])
  BY <1>a, TokenIsLater DEF Taken, Behind
<1>3. /\ AllPrecede(stdout, caught'[c]) /\ AllPrecede(channel, caught'[c]) /\ Precedes(writer, caught'[c])
  BY <1>2 DEF TakenIn, AllPrecede
<1>4. \A y \in InHand' : y = caught'[c] \/ y \in InHand
  BY <1>1, <1>a DEF InHand
<1> QED
  BY <1>1, <1>3, <1>4 DEF Flow, Ordered, AllPrecede, Precedes

(* A send puts the record of one reader behind the channel; the other       *)
(* reader's record is of the other device.                                  *)
LEMMA SendFlow ==
  ASSUME Typed, Flow, NEW y \in InHand, y \in Record, channel' = Append(channel, y),
         UNCHANGED <<stdout, writer>>,
         \A z \in InHand' : z = Nothing \/ (z \in InHand /\ z[1] # y[1])
  PROVE  Flow'
<1>1. /\ Len(channel) \in Nat /\ DOMAIN channel = 1 .. Len(channel)
      /\ \A i \in DOMAIN channel' :
           \/ i \in DOMAIN channel /\ channel'[i] = channel[i]
           \/ i = Len(channel) + 1 /\ channel'[i] = y
  BY Push DEF Typed, Pipes, Record
<1>2. /\ AllPrecede(stdout, y) /\ AllPrecede(channel, y) /\ Precedes(writer, y)
  BY DEF Flow
<1>3. Ordered(channel)'
  BY <1>1, <1>2 DEF Flow, Ordered, AllPrecede
<1>4. \A j \in DOMAIN channel' : AllPrecede(stdout', channel'[j]) /\ Precedes(writer', channel'[j])
  BY <1>1, <1>2 DEF Flow
<1>5. \A z \in InHand' :
        AllPrecede(stdout', z) /\ AllPrecede(channel', z) /\ Precedes(writer', z)
  <2> SUFFICES ASSUME NEW z \in InHand'
               PROVE  AllPrecede(stdout, z) /\ AllPrecede(channel', z) /\ Precedes(writer, z)
    OBVIOUS
  <2>1. CASE z = Nothing
    BY <2>1, NothingPrecedes DEF AllPrecede
  <2>2. CASE z # Nothing
    <3>1. z \in InHand /\ Precedes(y, z)
      BY <2>2 DEF Precedes
    <3>2. AllPrecede(stdout, z) /\ AllPrecede(channel, z) /\ Precedes(writer, z)
      BY <3>1 DEF Flow
    <3> QED
      BY <3>1, <3>2, <1>1 DEF AllPrecede
  <2> QED
    BY <2>1, <2>2
<1>6. Ordered(stdout)' /\ AllPrecede(stdout', writer')
  BY DEF Flow, Ordered, AllPrecede, Precedes
<1> QED
  BY <1>3, <1>4, <1>5, <1>6 DEF Flow, AllPrecede

LEMMA FileSendFlow ==
  ASSUME Typed, Flow, FileSend
  PROVE  Flow'
<1> USE DEF vaultVars, tailVars, scanVars, outVars
<1>1. held \in {File} \X (1 .. appended) /\ appended \in 0 .. MaxRecords
  BY DEF FileSend, Typed, Pipes
<1>2. held \in Record /\ held[1] = File
  <2>1. held \in {File} \X (1 .. MaxRecords)
    BY <1>1, RelayBoundAssumption
  <2> QED
    BY <2>1, Records
<1>3. UNCHANGED <<stdout, writer, caught>> /\ held' = Nothing /\ channel' = Append(channel, held)
  BY DEF FileSend
<1>4. \A c \in Connection : caught[c] = Nothing \/ caught[c][1] = c
  BY DEF Typed, Sockets
<1>5. \A z \in InHand' : z = Nothing \/ (z \in InHand /\ z[1] # File)
  BY <1>3, <1>4, Records DEF InHand
<1>6. held \in InHand
  BY DEF InHand
<1> QED
  BY <1>2, <1>3, <1>5, <1>6, SendFlow

LEMMA SocketSendFlow ==
  ASSUME Typed, Flow, NEW c \in Connection, SocketSend(c)
  PROVE  Flow'
<1> USE DEF vaultVars, tailVars, scanVars, outVars
<1>1. /\ caught \in [Connection -> Item] /\ caught[c] # Nothing
      /\ \A d \in Connection : caught[d] = Nothing \/ caught[d][1] = d
  BY DEF SocketSend, Typed, Sockets
<1>2. caught[c] \in Record /\ caught[c][1] = c
  BY <1>1 DEF Record
<1>3. /\ UNCHANGED <<stdout, writer, held>> /\ channel' = Append(channel, caught[c])
      /\ caught'[c] = Nothing /\ \A d \in Connection : d # c => caught'[d] = caught[d]
  BY <1>1 DEF SocketSend
<1>4. held = Nothing \/ held[1] # c
  BY Records DEF Typed, Pipes
<1>5. \A z \in InHand' : z = Nothing \/ (z \in InHand /\ z[1] # c)
  BY <1>1, <1>3, <1>4 DEF InHand
<1>6. caught[c] \in InHand
  BY DEF InHand
<1> QED
  BY <1>2, <1>3, <1>5, <1>6, SendFlow

LEMMA TakeFlow ==
  ASSUME Typed, Flow, Take
  PROVE  Flow'
<1> USE DEF vaultVars, tailVars, scanVars, outVars
<1>1. channel \in Seq(Record) /\ channel # <<>> /\ channel' = Tail(channel) /\ writer' = Head(channel)
  BY DEF Take, Typed, Pipes, Record
<1>2. /\ 1 \in DOMAIN channel /\ writer' = channel[1] /\ Len(channel) \in Nat
      /\ DOMAIN channel = 1 .. Len(channel) /\ DOMAIN channel' = 1 .. Len(channel) - 1
      /\ \A i \in DOMAIN channel' : i + 1 \in DOMAIN channel /\ channel'[i] = channel[i + 1]
  BY <1>1, Shift
<1>3. UNCHANGED <<stdout, held, caught>>
  BY DEF Take
<1>4. Ordered(channel)'
  BY <1>2 DEF Flow, Ordered
<1>5. \A j \in DOMAIN channel' : AllPrecede(stdout', channel'[j]) /\ Precedes(writer', channel'[j])
  <2> SUFFICES ASSUME NEW j \in DOMAIN channel'
               PROVE  AllPrecede(stdout, channel'[j]) /\ Precedes(writer', channel'[j])
    BY <1>3
  <2>1. 1 < j + 1 /\ j + 1 \in DOMAIN channel /\ channel'[j] = channel[j + 1]
    BY <1>2
  <2> QED
    BY <2>1, <1>2 DEF Flow, Ordered
<1>6. Ordered(stdout)' /\ AllPrecede(stdout', writer')
  BY <1>2, <1>3 DEF Flow, Ordered, Precedes
<1>7. \A z \in InHand' :
        AllPrecede(stdout', z) /\ AllPrecede(channel', z) /\ Precedes(writer', z)
  BY <1>2, <1>3 DEF Flow, AllPrecede, InHand
<1> QED
  BY <1>4, <1>5, <1>6, <1>7 DEF Flow, AllPrecede

LEMMA WriteFlow ==
  ASSUME Typed, Flow, Write
  PROVE  Flow'
<1> USE DEF vaultVars, tailVars, scanVars, outVars
<1>1. stdout \in Seq(Record) /\ writer \in Record /\ stdout' = Append(stdout, writer)
  BY DEF Write, Typed, Pipes, Record
<1>2. /\ Len(stdout) \in Nat /\ DOMAIN stdout = 1 .. Len(stdout)
      /\ \A i \in DOMAIN stdout' :
           \/ i \in DOMAIN stdout /\ stdout'[i] = stdout[i]
           \/ i = Len(stdout) + 1 /\ stdout'[i] = writer
  BY <1>1, Push
<1>3. UNCHANGED <<channel, held, caught>> /\ writer' = Nothing
  BY DEF Write
<1>4. Ordered(stdout)'
  BY <1>2 DEF Flow, Ordered, AllPrecede
<1>5. \A j \in DOMAIN channel' : AllPrecede(stdout', channel'[j]) /\ Precedes(writer', channel'[j])
  BY <1>2, <1>3, NothingPrecedes DEF Flow, AllPrecede
<1>6. AllPrecede(stdout', writer') /\ \A z : Precedes(writer', z)
  BY <1>3, NothingPrecedes DEF AllPrecede
<1>7. \A z \in InHand' : AllPrecede(stdout', z) /\ AllPrecede(channel', z)
  BY <1>2, <1>3 DEF Flow, AllPrecede, InHand
<1>8. Ordered(channel)'
  BY <1>3 DEF Flow, Ordered
<1> QED
  BY <1>4, <1>5, <1>6, <1>7, <1>8 DEF Flow, AllPrecede

LEMMA CrashFlow ==
  ASSUME Typed, Flow, Crash
  PROVE  Flow'
<1> USE DEF vaultVars, tailVars, scanVars, outVars
<1>1. /\ channel' = <<>> /\ writer' = Nothing /\ held' = Nothing
      /\ \A c \in Connection : caught'[c] = Nothing
      /\ UNCHANGED stdout
  BY DEF Crash
<1>2. DOMAIN channel' = {} /\ \A y \in InHand' : y = Nothing
  BY <1>1 DEF InHand
<1> QED
  BY <1>1, <1>2, NothingPrecedes DEF Flow, Ordered, AllPrecede

LEMMA FlowStep ==
  ASSUME Typed, Appended, Taken, Flow, [Next]_vars
  PROVE  Flow'
<1> USE DEF vaultVars, tailVars, scanVars, outVars, tailRest, readRest
<1>1. CASE UNCHANGED <<stdout, channel, writer, held, caught>>
  BY <1>1 DEF Flow, Ordered, AllPrecede, Precedes, InHand
<1>2. CASE \E c \in Connection : SocketRead(c) \/ SocketSend(c)
  BY <1>2, SocketReadFlow, SocketSendFlow
<1>3. Next => \/ FileSend \/ Take \/ Write \/ Crash \/ ReadLine
              \/ \E c \in Connection : SocketRead(c) \/ SocketSend(c)
              \/ UNCHANGED <<stdout, channel, writer, held, caught>>
  BY DEF Next, VaultAppends, Visible, VaultSends, Connect, TailStep, OpenAtEnd, OpenAt, ReadEOF,
         ReadOversized, DiscardEnds, ScanStep, SocketTooLong, VaultCloses
<1> QED
  BY <1>1, <1>2, <1>3, ReadFlow, FileSendFlow, TakeFlow, WriteFlow, CrashFlow DEF vars

-----------------------------------------------------------------------------
(* The theorems.                                                            *)

LEMMA RelayInvInit == Init => RelayInv
<1> SUFFICES ASSUME Init PROVE RelayInv
  OBVIOUS
<1>1. Typed
  BY TypedInit
<1>2. /\ DOMAIN file = {} /\ DOMAIN writing = {} /\ \A c \in Connection : DOMAIN link[c] = {}
      /\ DOMAIN channel = {} /\ DOMAIN stdout = {}
      /\ writer = Nothing /\ \A y \in InHand : y = Nothing
  BY DEF Init, InHand
<1>3. Appended /\ Sent
  BY <1>2 DEF Appended, Sent
<1>4. Taken
  BY <1>2, NothingIsBehind DEF Taken, TakenIn
<1>5. Flow
  BY <1>2, NothingPrecedes DEF Flow, Ordered, AllPrecede
<1> QED
  BY <1>1, <1>3, <1>4, <1>5 DEF RelayInv

LEMMA RelayInvStep == RelayInv /\ [Next]_vars => RelayInv'
<1> SUFFICES ASSUME RelayInv, [Next]_vars PROVE RelayInv'
  OBVIOUS
<1>1. Typed'
  BY TypedStep DEF RelayInv
<1> QED
  BY <1>1, AppendedStep, SentStep, TakenStep, FlowStep DEF RelayInv

LEMMA RelayInvHolds == Spec => []RelayInv
BY RelayInvInit, RelayInvStep, PTL DEF Spec

(* TypeOK of AuditRelay: a reader holds a record exactly while it sends it  *)
(* (main.go, emitRecord), the channel never exceeds its capacity and the    *)
(* connection is empty while nobody reads it.                               *)
THEOREM RelayTyped == Spec => []TypeOK
<1>1. RelayInv => TypeOK
  BY TypedTyped DEF RelayInv
<1> QED
  BY <1>1, RelayInvHolds, PTL

(* InOrder: the relay writes the records of the file, and those of each     *)
(* connection, in the order Vault wrote them and none twice (main.go,       *)
(* tailFile, readRecords and writeRecords), whatever the sizes of records,  *)
(* buffers and channel, however many connections are read at once, however  *)
(* appends are torn and however often the relay restarts.                   *)
THEOREM InOrderHolds == Spec => []InOrder
<1>1. RelayInv => InOrder
  <2> SUFFICES ASSUME RelayInv PROVE InOrder
    OBVIOUS
  <2>1. \A i \in DOMAIN stdout : stdout[i][1] # -1
    <3>1. \A i \in DOMAIN stdout : stdout[i] \in Record
      BY LenProperties, ElementOfSeq DEF RelayInv, Typed, Pipes, Record
    <3> QED
      BY <3>1, Records DEF File
  <2> QED
    BY <2>1 DEF RelayInv, Flow, Ordered, Precedes, InOrder
<1> QED
  BY <1>1, RelayInvHolds, PTL
=============================================================================
