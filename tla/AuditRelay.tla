----------------------------- MODULE AuditRelay -----------------------------
(* cmd/vault-audit-relay: a sidecar that copies Vault's audit records from  *)
(* the file device and from the socket device to stdout.  tailFile follows  *)
(* the file, a readRecords goroutine reads each connection accepted on the  *)
(* socket, all send to one bounded channel and writeRecords alone writes    *)
(* stdout.  The process may crash and restart; nothing it holds persists.   *)
(*                                                                          *)
(* A record is a number, in the order Vault writes them to its device.  In  *)
(* the file it is a run of chunks, the last of which carries the newline; a *)
(* reader may see the file between two chunks of one append (Torn).         *)
EXTENDS Integers, Sequences

CONSTANTS Sizes,       \* how many chunks a record may have
          BufferSize,  \* chunks the readers' buffers hold (1 MiB)
          ChannelSize, \* capacity of the records channel (128)
          Torn,        \* may a reader see part of an append?
          MaxRecords,  \* bound: records Vault writes to each device
          MaxConnections, \* bound: connections the socket ever accepts
          MaxCrashes   \* bound: restarts of the relay

ASSUME SizeAssumption == /\ Sizes \subseteq Nat \ {0}
                         /\ BufferSize \in Nat \ {0} /\ ChannelSize \in Nat \ {0}
ASSUME RelayBoundAssumption == /\ Torn \in BOOLEAN
                               /\ MaxRecords \in Nat /\ MaxCrashes \in Nat
                               /\ MaxConnections \in Nat

VARIABLES
  file,      \* the chunks a reader of the audit file can see
  writing,   \* chunks of Vault's current append that are not visible yet
  appended,  \* records Vault began to append; the file exists with the first
  link,      \* per connection: what Vault wrote and nobody read
  sent,      \* records Vault wrote to its socket device
  tail, pos, held,   \* tailFile: where it is, its offset, the record to send
  start,     \* history: the offset this process first read from, -1 before
  torn,      \* history: records a read at the end of the file cut in two
  scan, caught,      \* readRecords per connection: where, the record to send
  channel,   \* the records channel
  writer,    \* the record writeRecords is about to write
  stdout,    \* what was written, as <<stream, record>>
  crashes

vaultVars == <<writing, appended, sent>>
tailVars == <<tail, pos, held, start, torn>>
scanVars == <<scan, caught>>
outVars == <<writer, stdout>>
vars == <<file, vaultVars, link, tailVars, scanVars, channel, outVars, crashes>>

(* The streams of records: the file, and each connection by its number.     *)
File == 0
Connection == 1 .. MaxConnections
Nothing == <<-1, 0>>
Chunks(r, n) == [k \in 1 .. n |-> [rec |-> r, part |-> k, size |-> n]]
Newline(ch) == ch.part = ch.size
Written(r, n) == [rec |-> r, size |-> n]

Init ==
  /\ file = <<>> /\ writing = <<>> /\ appended = 0
  /\ link = [c \in Connection |-> <<>>] /\ sent = 0
  /\ tail = "open" /\ pos = 0 /\ held = Nothing /\ start = -1 /\ torn = {}
  /\ scan = [c \in Connection |-> "new"]
  /\ caught = [c \in Connection |-> Nothing]
  /\ channel = <<>> /\ writer = Nothing /\ stdout = <<>>
  /\ crashes = 0

-----------------------------------------------------------------------------
(* Vault's file device: one write per record.                               *)
VaultAppends == /\ writing = <<>> /\ appended < MaxRecords
                /\ appended' = appended + 1
                /\ \E n \in Sizes : writing' = Chunks(appended + 1, n)
                /\ UNCHANGED <<file, sent, link, tailVars, scanVars, channel, outVars, crashes>>

Visible == /\ writing # <<>>
           /\ \E k \in IF Torn THEN 1 .. Len(writing) ELSE {Len(writing)} :
                /\ file' = file \o SubSeq(writing, 1, k)
                /\ writing' = SubSeq(writing, k + 1, Len(writing))
           /\ UNCHANGED <<appended, sent, link, tailVars, scanVars, channel, outVars, crashes>>

(* Vault's socket device connects, and connects anew when a write fails.    *)
(* The relay accepts every connection and reads it in a goroutine of its    *)
(* own: the reader of an older one may still be at work.  Vault writes a    *)
(* record to one connection, whichever is open; one that it writes again    *)
(* counts as another, and one it has no connection for goes to the file     *)
(* only.                                                                    *)
Open(c) == scan[c] \in {"read", "send"}
Connect(c) == /\ scan[c] = "new" /\ \A d \in 1 .. c - 1 : scan[d] # "new"
              /\ scan' = [scan EXCEPT ![c] = "read"]
              /\ UNCHANGED <<file, vaultVars, link, tailVars, caught, channel, outVars, crashes>>

VaultSends == /\ sent < MaxRecords
              /\ sent' = sent + 1
              /\ \/ UNCHANGED link /\ \A c \in Connection : ~Open(c)
                 \/ \E c \in Connection, n \in Sizes :
                      Open(c) /\ link' = [link EXCEPT ![c] = Append(@, Written(sent + 1, n))]
              /\ UNCHANGED <<file, writing, appended, tailVars, scanVars, channel, outVars, crashes>>

-----------------------------------------------------------------------------
(* tailFile opens the file and seeks to its end.                            *)
OpenAt(p) == /\ tail = "open" /\ appended > 0
             /\ tail' = "read" /\ pos' = p
             /\ start' = IF start = -1 THEN p ELSE start
             /\ UNCHANGED <<file, vaultVars, link, held, torn, scanVars, channel, outVars, crashes>>
OpenFromStart == OpenAt(0)                                        \* mutant
OpenAtEnd == OpenAt(Len(file))

tailRest == <<file, vaultVars, link, start, scanVars, channel, outVars, crashes>>
readRest == <<tailRest, torn>>

(* ReadSlice finds a newline at the n-th chunk from here, within a buffer.  *)
LineEnds == {n \in 1 .. Len(file) - pos : Newline(file[pos + n])}
LineOf(n) == n \in LineEnds /\ n <= BufferSize /\ \A k \in LineEnds : n <= k
BufferFull == Len(file) - pos >= BufferSize /\ \A n \in LineEnds : n > BufferSize
EndOfFile == Len(file) - pos < BufferSize /\ LineEnds = {}

(* A line that starts at its record's first chunk is JSON and is sent on;   *)
(* any other is the rest of a record whose beginning is gone: discarded.    *)
ReadLine == /\ tail = "read"
            /\ \E n \in LineEnds :
                 /\ LineOf(n)
                 /\ pos' = pos + n
                 /\ IF file[pos + 1].part = 1
                    THEN tail' = "send" /\ held' = <<File, file[pos + 1].rec>>
                    ELSE UNCHANGED <<tail, held>>
            /\ UNCHANGED readRest

(* At the end of the file ReadSlice hands out, and thereby consumes, what   *)
(* there is of a line; followFile ignores it and reads on later.            *)
CutShort == torn \cup {file[k].rec : k \in pos + 1 .. Len(file)}
ReopeningReadEOF == /\ tail = "read" /\ EndOfFile                 \* mutant
                    /\ pos' = Len(file) /\ tail' = "open"
                    /\ torn' = CutShort
                    /\ UNCHANGED <<tailRest, held>>
ReadEOF == /\ tail = "read" /\ EndOfFile
           /\ pos' = Len(file)
           /\ torn' = CutShort
           /\ UNCHANGED <<tailRest, tail, held>>

(* An oversized record: discarded up to its newline, or to the end of file. *)
ReadOversized == /\ tail \in {"read", "discard"} /\ BufferFull
                 /\ pos' = pos + BufferSize
                 /\ tail' = "discard"
                 /\ UNCHANGED <<readRest, held>>

DiscardEnds == /\ tail = "discard"
               /\ \/ \E n \in LineEnds : LineOf(n) /\ pos' = pos + n
                  \/ EndOfFile /\ pos' = Len(file)
               /\ tail' = "read"
               /\ UNCHANGED <<readRest, held>>

(* emitRecord: the send blocks while the channel is full.                   *)
UnboundedFileSend == /\ tail = "send"                             \* mutant
                     /\ channel' = Append(channel, held)
                     /\ tail' = "read" /\ held' = Nothing
                     /\ UNCHANGED <<file, vaultVars, link, pos, start, torn, scanVars, outVars,
                                    crashes>>
FileSend == /\ tail = "send" /\ Len(channel) < ChannelSize
            /\ channel' = Append(channel, held)
            /\ tail' = "read" /\ held' = Nothing
            /\ UNCHANGED <<file, vaultVars, link, pos, start, torn, scanVars, outVars, crashes>>

-----------------------------------------------------------------------------
(* readRecords: one token after another; a token beyond the buffer ends the *)
(* scan and closes the connection with what is still in it.                 *)
SocketRead(c) == /\ scan[c] = "read" /\ link[c] # <<>> /\ Head(link[c]).size <= BufferSize
                 /\ caught' = [caught EXCEPT ![c] = <<c, Head(link[c]).rec>>]
                 /\ link' = [link EXCEPT ![c] = Tail(@)]
                 /\ scan' = [scan EXCEPT ![c] = "send"]
                 /\ UNCHANGED <<file, vaultVars, tailVars, channel, outVars, crashes>>

SocketTooLong(c) == /\ scan[c] = "read" /\ link[c] # <<>> /\ Head(link[c]).size > BufferSize
                    /\ scan' = [scan EXCEPT ![c] = "over"] /\ link' = [link EXCEPT ![c] = <<>>]
                    /\ UNCHANGED <<file, vaultVars, tailVars, caught, channel, outVars, crashes>>

(* The end of a connection that Vault has closed: what it wrote is read.    *)
VaultCloses(c) == /\ scan[c] = "read" /\ link[c] = <<>>
                  /\ scan' = [scan EXCEPT ![c] = "over"]
                  /\ UNCHANGED <<file, vaultVars, link, tailVars, caught, channel, outVars, crashes>>

SocketSend(c) == /\ scan[c] = "send" /\ Len(channel) < ChannelSize
                 /\ channel' = Append(channel, caught[c])
                 /\ scan' = [scan EXCEPT ![c] = "read"]
                 /\ caught' = [caught EXCEPT ![c] = Nothing]
                 /\ UNCHANGED <<file, vaultVars, link, tailVars, outVars, crashes>>

-----------------------------------------------------------------------------
(* writeRecords, the only writer.                                           *)
Take == /\ writer = Nothing /\ channel # <<>>
        /\ writer' = Head(channel) /\ channel' = Tail(channel)
        /\ UNCHANGED <<file, vaultVars, link, tailVars, scanVars, stdout, crashes>>

Write == /\ writer # Nothing
         /\ stdout' = Append(stdout, writer) /\ writer' = Nothing
         /\ UNCHANGED <<file, vaultVars, link, tailVars, scanVars, channel, crashes>>

(* The process dies; its container starts again with nothing in memory.     *)
Crash == /\ crashes < MaxCrashes
         /\ crashes' = crashes + 1
         /\ tail' = "open" /\ pos' = 0 /\ held' = Nothing /\ start' = -1
         /\ scan' = [c \in Connection |-> IF scan[c] = "new" THEN "new" ELSE "over"]
         /\ caught' = [c \in Connection |-> Nothing]
         /\ link' = [c \in Connection |-> <<>>]
         /\ channel' = <<>> /\ writer' = Nothing
         /\ UNCHANGED <<file, vaultVars, torn, stdout>>

TailStep == OpenAtEnd \/ ReadLine \/ ReadEOF \/ ReadOversized \/ DiscardEnds \/ FileSend
ScanStep(c) == SocketRead(c) \/ SocketTooLong(c) \/ VaultCloses(c) \/ SocketSend(c)

Next == \/ VaultAppends \/ Visible \/ VaultSends
        \/ \E c \in Connection : Connect(c) \/ ScanStep(c)
        \/ TailStep \/ Take \/ Write \/ Crash

Spec == Init /\ [][Next]_vars

(* tailFile and writeRecords are scheduled, stdout is drained, an append    *)
(* that began becomes visible.  Nothing is assumed of the socket's readers. *)
FairSpec == /\ Spec
            /\ WF_vars(Visible) /\ WF_vars(TailStep) /\ WF_vars(Take) /\ WF_vars(Write)

-----------------------------------------------------------------------------
Out == {stdout[i] : i \in DOMAIN stdout}
Item == {Nothing} \cup (({File} \cup Connection) \X (1 .. MaxRecords))

TypeOK ==
  /\ \A i \in DOMAIN file : file[i].part \in 1 .. file[i].size /\ file[i].rec \in 1 .. appended
  /\ appended \in 0 .. MaxRecords /\ sent \in 0 .. MaxRecords
  /\ tail \in {"open", "read", "discard", "send"} /\ pos \in 0 .. Len(file)
  /\ start \in -1 .. Len(file) /\ torn \subseteq 1 .. appended
  /\ held \in Item /\ (held # Nothing <=> tail = "send")
  /\ scan \in [Connection -> {"new", "read", "send", "over"}]
  /\ caught \in [Connection -> Item]
  /\ \A c \in Connection : /\ caught[c] # Nothing <=> scan[c] = "send"
                           /\ ~Open(c) => link[c] = <<>>
  /\ Len(channel) <= ChannelSize /\ \A i \in DOMAIN channel : channel[i] \in Item
  /\ writer \in Item /\ crashes \in 0 .. MaxCrashes

(* stdout carries the records of the file, and those of each connection, in *)
(* the order Vault wrote them and none twice: across the channel on which   *)
(* the reader of the file and those of several connections meet, and across *)
(* restarts of the relay.  Between two connections of the socket device the *)
(* code keeps no order: the reader of the older one may come second.        *)
InOrder == \A i, j \in DOMAIN stdout :
             i < j /\ stdout[i][1] = stdout[j][1] => stdout[i][2] < stdout[j][2]

\* Records whose append began after this process started to follow the file.
NewlyAppended == {file[i].rec : i \in {k \in DOMAIN file :
                    /\ start >= 0 /\ k > start /\ file[k].part = 1
                    /\ file[k].size <= BufferSize}}
CaughtUp == /\ writing = <<>> /\ tail = "read" /\ pos = Len(file)
            /\ channel = <<>> /\ writer = Nothing

(* "newly appended audit records are the only file input" (main.go 97): the *)
(* relay "forwards newline-delimited JSON from the socket and from newly    *)
(* appended file records to stdout" (docs/operations/                       *)
(* vault-validator-audit.md:36-37).  Once it has read to the end of the     *)
(* file and written all it had, every record that fits the buffer and was   *)
(* appended since it began to follow is on stdout.                          *)
FileRecordsDelivered ==
  CaughtUp => \A r \in NewlyAppended : <<File, r>> \in Out

(* Every such record that no read at the end of the file has cut in two     *)
(* reaches stdout, behind oversized records and however much the socket     *)
(* competes for the channel, unless the relay crashes before and gives it   *)
(* up.                                                                      *)
FileRecordsReachStdout ==
  \A r \in 1 .. MaxRecords :
    (r \in NewlyAppended \ torn) ~> (<<File, r>> \in Out \/ r \in torn \/ r \notin NewlyAppended)
=============================================================================
