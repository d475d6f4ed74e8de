---------------------------- MODULE ScpTransfer ----------------------------
(* The legacy SCP protocol of kube-ssh-helper                                  *)
(* (pkg/podssh/backend/helper/scp.go): runSCPSource sends a file or a          *)
(* directory tree, runSCPSink stores it. The two halves are paired over the    *)
(* two byte streams of a session; in use the peer of either is an scp client.  *)
(*                                                                              *)
(* A stream is a sequence of units: a byte of a file, the zero byte (which     *)
(* acknowledges, ends a file, and may also be data), the byte 1 and the text   *)
(* of an error, or a header line. Files may change while they are sent, any    *)
(* call on either file system may fail, the session may be cut and either      *)
(* helper may be told to stop. A stream never fills up.                        *)
EXTENDS Naturals, Sequences, SequencesExt

CONSTANTS
  Kind,        \* the source's tree: [paths -> {"dir", "file", "other"}]
  Size,        \* initial sizes: [files -> Nat]
  BadNames,    \* names cleanSCPName refuses, as "."
  Targets      \* what the sink's target may be: "dir", "file" or "absent"

Paths == DOMAIN Kind
Files == {p \in Paths : Kind[p] = "file"}

ASSUME TreeAssumption ==
  /\ \A p \in Paths : Len(p) > 1 => Front(p) \in Paths /\ Kind[Front(p)] = "dir"
  /\ Size \in [Files -> Nat]

VARIABLES
  root,       \* the source's argument
  preserve,   \* -p
  recursive,  \* -r
  target,     \* what the sink's argument was at the start
  file,       \* the source's files: their bytes, or Gone
  changed,    \* the files another program changed
  src,        \* the source: where it is, what it sends, the directories it is in
  up,         \* the stream to the sink
  down,       \* the stream to the source
  snk,        \* the sink: where it is, its directories, pending times, open file
  disk,       \* what is stored below the sink's target
  cut,        \* the session is cut
  stopped,    \* the helper told to stop, if any
  read        \* history: the bytes the source read from a file

envVars == <<root, preserve, recursive, target>>
srcVars == <<src, read>>
snkVars == <<snk, disk>>
vars == <<envVars, file, changed, srcVars, up, down, snkVars, cut, stopped>>

Zero == [t |-> "zero"]
Byte(p) == [t |-> "byte", of |-> p]
Times(p) == [t |-> "T", of |-> p]
Dir(p) == [t |-> "D", name |-> Last(p)]
File(p, n) == [t |-> "C", name |-> Last(p), size |-> n]
DirEnd == [t |-> "E"]
ErrorText == <<[t |-> "one"], [t |-> "text"]>>
EndsLine(u) == u.t \in {"T", "D", "C", "E", "text"}

Gone == <<[t |-> "gone"]>>
Unread == <<[t |-> "unread"]>>
NoTimes == <<>>
Now == <<"now">>
Top == <<"target">>
Ended(pc) == pc \in {"ok", "failed"}
Full(p) == [i \in 1..Size[p] |-> Byte(p)]

Init ==
  /\ root \in {p \in Paths : Kind[p] # "other"}
  /\ preserve \in BOOLEAN /\ recursive \in BOOLEAN
  /\ target \in Targets
  /\ file = [p \in Files |-> Full(p)]
  /\ changed = {}
  /\ src = [pc |-> "hello", path |-> root, size |-> 0, dirs |-> <<>>]
  /\ snk = [pc |-> "hello", dirs |-> <<Top>>, times |-> NoTimes, dest |-> Top, left |-> 0]
  /\ disk = IF target = "absent" THEN [d \in {} |-> d]
            ELSE [d \in {Top} |-> [kind |-> target, data |-> <<>>, time |-> <<"old">>]]
  /\ up = <<>> /\ down = <<>>
  /\ cut = FALSE /\ stopped = {}
  /\ read = [p \in Files |-> Unread]

----------------------------------------------------------------------------
(* The streams. A write fails once the session is cut or the writer's context *)
(* is done, and may fail once the peer has ended; nobody reads it then. A read *)
(* of a done context fails unless the bytes are already in the bufio.Reader.   *)

Writable(side) == ~cut /\ side \notin stopped
Broken(side, peer) == ~Writable(side) \/ Ended(peer.pc)

ToSink(units) == up' = IF Writable("source") /\ ~Ended(snk.pc) THEN up \o units ELSE up
ToSource(units) == down' = IF Writable("sink") /\ ~Ended(src.pc) THEN down \o units ELSE down

SourceEOF == down = <<>> /\ (cut \/ Ended(snk.pc))
SinkEOF == cut \/ Ended(src.pc)

(* A write of the source that must succeed for it to go on. *)
SourceWrites(units, next) ==
  \/ Writable("source") /\ ToSink(units) /\ src' = next
  \/ Broken("source", snk) /\ src' = [src EXCEPT !.pc = "failed"] /\ UNCHANGED up

(* "_ = writeSCPAck(out, err); return err" on either side. *)
SourceReports ==
  ToSink(ErrorText) /\ src' = [src EXCEPT !.pc = "failed"]

SinkAcks(next) ==
  \/ Writable("sink") /\ ToSource(<<Zero>>) /\ snk' = next
  \/ Broken("sink", src) /\ snk' = [snk EXCEPT !.pc = "failed"] /\ UNCHANGED down

SinkReports ==
  ToSource(ErrorText) /\ snk' = [snk EXCEPT !.pc = "failed"]

----------------------------------------------------------------------------
(* The source. *)

AfterResponse ==
  CASE src.pc = "hello"       -> [src EXCEPT !.pc = "stat"]
    [] src.pc = "awaitTimes"  -> [src EXCEPT !.pc = "header"]
    [] src.pc = "awaitHeader" -> [src EXCEPT !.pc = IF Kind[src.path] = "dir" THEN "list" ELSE "copy"]
    [] src.pc = "awaitFile"   -> [src EXCEPT !.pc = IF src.dirs = <<>> THEN "ok" ELSE "next"]
    [] src.pc = "awaitEnd"    -> [src EXCEPT !.pc = IF Len(src.dirs) = 1 THEN "ok" ELSE "next",
                                             !.dirs = Front(@)]

Awaits == src.pc \in {"hello", "awaitTimes", "awaitHeader", "awaitFile", "awaitEnd"}

(* readSCPResponse; an error's text is read with it. *)
SourceResponse ==
  /\ Awaits
  /\ \/ /\ down # <<>> /\ Head(down) = Zero
        /\ src' = AfterResponse
        /\ down' = Tail(down)
     \/ /\ Len(down) > 1 /\ Head(down) # Zero
        /\ src' = [src EXCEPT !.pc = "failed"]
        /\ down' = SubSeq(down, 3, Len(down))
     \/ /\ SourceEOF \/ (down # <<>> /\ Head(down) # Zero /\ cut)
        /\ src' = [src EXCEPT !.pc = "failed"]
        /\ UNCHANGED down
  /\ UNCHANGED <<envVars, file, changed, read, up, snkVars, cut, stopped>>

SourceReadStopped ==
  /\ Awaits /\ "source" \in stopped
  /\ src' = [src EXCEPT !.pc = "failed"]
  /\ UNCHANGED <<envVars, file, changed, read, up, down, snkVars, cut, stopped>>

SizeOf(p) == IF p \in Files THEN Len(file[p]) ELSE 0
Exists(p) == p \in Files => file[p] # Gone

(* What an entry is sent with: its times first when they are preserved. *)
Start(p, rest) ==
  [src EXCEPT !.pc = IF preserve THEN "times" ELSE "header",
              !.path = p, !.size = SizeOf(p), !.dirs = rest]

SourceStat ==
  /\ src.pc = "stat"
  /\ \/ /\ Exists(root) /\ (Kind[root] = "dir" => recursive)
        /\ src' = Start(root, <<>>)
        /\ UNCHANGED up
     \/ ~Exists(root) /\ SourceReports
     \/ Kind[root] = "dir" /\ ~recursive /\ SourceReports
  /\ UNCHANGED <<envVars, file, changed, read, down, snkVars, cut, stopped>>

sendSCPTimes ==
  /\ src.pc = "times"
  /\ SourceWrites(<<Times(src.path)>>, [src EXCEPT !.pc = "awaitTimes"])
  /\ UNCHANGED <<envVars, file, changed, read, down, snkVars, cut, stopped>>

SourceHeader ==
  /\ src.pc = "header"
  /\ SourceWrites(<<IF Kind[src.path] = "dir" THEN Dir(src.path) ELSE File(src.path, src.size)>>,
                  [src EXCEPT !.pc = "awaitHeader"])
  /\ UNCHANGED <<envVars, file, changed, read, down, snkVars, cut, stopped>>

(* Open and copy, whatever the size is by now; Open may fail, and so may Read. *)
sendSCPFile ==
  /\ src.pc = "copy"
  /\ \/ SourceReports /\ UNCHANGED read
     \/ /\ file[src.path] # Gone
        /\ \/ /\ SourceWrites(Append(file[src.path], Zero), [src EXCEPT !.pc = "awaitFile"])
              /\ read' = [read EXCEPT ![src.path] = file[src.path]]
           \/ /\ \E n \in 0..Len(file[src.path]) : ToSink(SubSeq(file[src.path], 1, n))
              /\ src' = [src EXCEPT !.pc = "failed"]
              /\ UNCHANGED read
  /\ UNCHANGED <<envVars, file, changed, down, snkVars, cut, stopped>>

ReadDir(p) ==
  SetToSeq({q \in Paths : Len(q) = Len(p) + 1 /\ Front(q) = p /\ Exists(q)})

sendSCPDir ==
  /\ src.pc = "list"
  /\ \/ /\ src' = [src EXCEPT !.pc = "next", !.dirs = Append(@, ReadDir(src.path))]
        /\ UNCHANGED up
     \/ SourceReports
  /\ UNCHANGED <<envVars, file, changed, read, down, snkVars, cut, stopped>>

(* The next entry of the directory, or its end. entry.Info fails when the       *)
(* entry is gone; what is neither a directory nor a regular file is skipped.    *)
SourceNext ==
  /\ src.pc = "next"
  /\ LET todo == Last(src.dirs)
         rest == Append(Front(src.dirs), Tail(todo))
     IN \/ /\ todo = <<>>
           /\ SourceWrites(<<DirEnd>>, [src EXCEPT !.pc = "awaitEnd"])
        \/ /\ todo # <<>> /\ Exists(Head(todo))
           /\ src' = IF Kind[Head(todo)] = "other" THEN [src EXCEPT !.dirs = rest]
                     ELSE Start(Head(todo), rest)
           /\ UNCHANGED up
        \/ todo # <<>> /\ ~Exists(Head(todo)) /\ SourceReports
  /\ UNCHANGED <<envVars, file, changed, read, down, snkVars, cut, stopped>>

----------------------------------------------------------------------------
(* The sink. *)

SinkHello ==
  /\ snk.pc = "hello"
  /\ SinkAcks([snk EXCEPT !.pc = "command"])
  /\ UNCHANGED <<envVars, file, changed, srcVars, up, disk, cut, stopped>>

LineEnds == {i \in 1..Len(up) : EndsLine(up[i])}
HasLine == LineEnds # {}
LineLen == CHOOSE i \in LineEnds : \A j \in LineEnds : i <= j
AtLine(t) == snk.pc = "command" /\ HasLine /\ Head(up).t = t
TakesLine == up' = SubSeq(up, LineLen + 1, Len(up))

SinkTimes ==
  /\ AtLine("T") /\ TakesLine
  /\ SinkAcks([snk EXCEPT !.times = Head(up).of])
  /\ UNCHANGED <<envVars, file, changed, srcVars, disk, cut, stopped>>

(* Below the target when it was a directory or a directory was entered, else  *)
(* the target itself.                                                          *)
Dest(name) ==
  IF target = "dir" \/ Len(snk.dirs) > 1 THEN Append(Last(snk.dirs), name) ELSE Last(snk.dirs)

(* A new entry changed the time of the directory it is made in. *)
Touch(fs, d, new) ==
  [x \in DOMAIN fs \cup {d} |->
     IF x = d THEN new
     ELSE IF d \notin DOMAIN fs /\ x = Front(d) THEN [fs[x] EXCEPT !.time = Now]
     ELSE fs[x]]

Clean(name) == name \notin BadNames

MkdirAll(d) ==
  Touch(disk, d, [kind |-> "dir", data |-> <<>>,
                  time |-> IF d \in DOMAIN disk THEN disk[d].time ELSE Now])

(* The pending times are set or, as the error of Chtimes is ignored, are not. *)
Chtimes(fs, d) ==
  {fs} \cup (IF snk.times = NoTimes THEN {} ELSE {[fs EXCEPT ![d].time = snk.times]})

SinkDir ==
  /\ AtLine("D") /\ TakesLine
  /\ LET d == Dest(Head(up).name)
     IN \/ /\ Clean(Head(up).name) /\ (d \in DOMAIN disk => disk[d].kind = "dir")
           /\ disk' \in Chtimes(MkdirAll(d), d)
           /\ SinkAcks([snk EXCEPT !.dirs = Append(@, d), !.times = NoTimes])
        \/ SinkReports /\ UNCHANGED disk
  /\ UNCHANGED <<envVars, file, changed, srcVars, cut, stopped>>

(* Mutants: the directory is not left; its end is not acknowledged. *)
EndStaysInside ==
  /\ AtLine("E") /\ TakesLine
  /\ SinkAcks(snk)
  /\ UNCHANGED <<envVars, file, changed, srcVars, disk, cut, stopped>>

EndUnacknowledged ==
  /\ AtLine("E") /\ TakesLine
  /\ snk' = [snk EXCEPT !.dirs = IF Len(@) > 1 THEN Front(@) ELSE @]
  /\ UNCHANGED <<envVars, file, changed, srcVars, down, disk, cut, stopped>>

SinkDirEnd ==
  /\ AtLine("E") /\ TakesLine
  /\ SinkAcks([snk EXCEPT !.dirs = IF Len(@) > 1 THEN Front(@) ELSE @])
  /\ UNCHANGED <<envVars, file, changed, srcVars, disk, cut, stopped>>

(* The header is acknowledged before the file is opened: an Open that fails   *)
(* reports after the acknowledgement.                                          *)
SinkFile ==
  /\ AtLine("C") /\ TakesLine
  /\ LET d == Dest(Head(up).name)
     IN \/ /\ Clean(Head(up).name) /\ (d \in DOMAIN disk => disk[d].kind = "file")
           /\ \/ /\ Writable("sink") /\ ToSource(<<Zero>>)
                 /\ snk' = [snk EXCEPT !.pc = "data", !.dest = d, !.left = Head(up).size]
                 /\ disk' = Touch(disk, d, [kind |-> "file", data |-> <<>>, time |-> Now])
              \/ /\ Broken("sink", src) /\ snk' = [snk EXCEPT !.pc = "failed"]
                 /\ UNCHANGED <<down, disk>>
        \/ /\ Clean(Head(up).name)
           /\ ToSource(<<Zero>> \o ErrorText)
           /\ snk' = [snk EXCEPT !.pc = "failed"] /\ UNCHANGED disk
        \/ ~Clean(Head(up).name) /\ SinkReports /\ UNCHANGED disk
  /\ UNCHANGED <<envVars, file, changed, srcVars, cut, stopped>>

(* io.CopyN: whatever comes counts as data. *)
SinkData ==
  /\ snk.pc = "data" /\ snk.left > 0 /\ up # <<>>
  /\ up' = Tail(up)
  /\ \/ /\ disk' = [disk EXCEPT ![snk.dest].data = Append(@, Head(up))]
        /\ snk' = [snk EXCEPT !.left = @ - 1]
        /\ UNCHANGED down
     \/ SinkReports /\ UNCHANGED disk
  /\ UNCHANGED <<envVars, file, changed, srcVars, cut, stopped>>

SinkClose ==
  /\ snk.pc = "data" /\ snk.left = 0
  /\ \/ snk' = [snk EXCEPT !.pc = "terminator"] /\ UNCHANGED down
     \/ SinkReports
  /\ UNCHANGED <<envVars, file, changed, srcVars, up, disk, cut, stopped>>

(* Mutant: whatever byte follows the data ends the file. *)
AnyTerminator ==
  /\ snk.pc = "terminator" /\ up # <<>>
  /\ up' = Tail(up)
  /\ SinkAcks([snk EXCEPT !.pc = "command", !.times = NoTimes])
  /\ UNCHANGED <<envVars, file, changed, srcVars, disk, cut, stopped>>

(* The byte after the data. Any other than zero ends the sink without a word. *)
SinkTerminator ==
  /\ snk.pc = "terminator" /\ up # <<>>
  /\ up' = Tail(up)
  /\ \/ /\ Head(up) = Zero
        /\ disk' \in Chtimes(disk, snk.dest)
        /\ SinkAcks([snk EXCEPT !.pc = "command", !.times = NoTimes])
     \/ /\ Head(up) # Zero
        /\ snk' = [snk EXCEPT !.pc = "failed"] /\ UNCHANGED <<disk, down>>
  /\ UNCHANGED <<envVars, file, changed, srcVars, cut, stopped>>

SinkUnknown ==
  /\ snk.pc = "command" /\ HasLine /\ Head(up).t \in {"zero", "one", "text", "byte"}
  /\ TakesLine /\ SinkReports
  /\ UNCHANGED <<envVars, file, changed, srcVars, disk, cut, stopped>>

(* The end of the stream is the normal end between commands, even inside a     *)
(* directory or a line, and an error anywhere else.                            *)
SinkEnd ==
  /\ SinkEOF
  /\ \/ /\ snk.pc = "command" /\ ~HasLine
        /\ snk' = [snk EXCEPT !.pc = "ok"] /\ UNCHANGED down
     \/ snk.pc = "data" /\ snk.left > 0 /\ up = <<>> /\ SinkReports
     \/ /\ snk.pc = "terminator" /\ up = <<>>
        /\ snk' = [snk EXCEPT !.pc = "failed"] /\ UNCHANGED down
  /\ UNCHANGED <<envVars, file, changed, srcVars, up, disk, cut, stopped>>

SinkReadStopped ==
  /\ snk.pc \in {"command", "data", "terminator"} /\ "sink" \in stopped
  /\ snk' = [snk EXCEPT !.pc = "failed"]
  /\ UNCHANGED <<envVars, file, changed, srcVars, up, down, disk, cut, stopped>>

----------------------------------------------------------------------------
Below(p) == Len(p) >= Len(root) /\ SubSeq(p, 1, Len(root)) = root

(* The environment: another program changes a file of the source, once, by a  *)
(* byte or removes it, the session is cut and loses what was not delivered, a       *)
(* helper is told to stop.                                                     *)

FileChanges(p) ==
  /\ p \notin changed /\ read[p] = Unread /\ ~Ended(src.pc)
  /\ changed' = changed \cup {p}
  /\ \E new \in {Append(file[p], Zero), Append(file[p], Byte(p)), Gone}
                  \cup {Front(c) : c \in {file[p]} \ {<<>>}} :
       file' = [file EXCEPT ![p] = new]
  /\ UNCHANGED <<envVars, srcVars, up, down, snkVars, cut, stopped>>

Cut ==
  /\ ~cut /\ ~(Ended(src.pc) /\ Ended(snk.pc))
  /\ cut' = TRUE
  /\ \E i \in 0..Len(up), j \in 0..Len(down) :
       up' = SubSeq(up, 1, i) /\ down' = SubSeq(down, 1, j)
  /\ UNCHANGED <<envVars, file, changed, srcVars, snkVars, stopped>>

Stop(side) ==
  /\ stopped = {} /\ ~cut
  /\ ~Ended(IF side = "source" THEN src.pc ELSE snk.pc)
  /\ stopped' = stopped \cup {side}
  /\ UNCHANGED <<envVars, file, changed, srcVars, up, down, snkVars, cut>>

Source ==
  \/ SourceResponse \/ SourceStat \/ sendSCPTimes \/ SourceHeader
  \/ sendSCPFile \/ sendSCPDir \/ SourceNext

Sink ==
  \/ SinkHello \/ SinkTimes \/ SinkDir \/ SinkDirEnd \/ SinkFile \/ SinkData
  \/ SinkClose \/ SinkTerminator \/ SinkUnknown \/ SinkEnd

Next ==
  \/ Source \/ Sink
  \/ SourceReadStopped \/ SinkReadStopped
  \/ \E p \in {q \in Files : Below(q)} : FileChanges(p)
  \/ Cut
  \/ \E side \in {"source", "sink"} : Stop(side)

(* Either helper runs as long as it has something to do; what blocks in a read *)
(* when it is told to stop stays there.                                        *)
Spec == Init /\ [][Next]_vars /\ WF_vars(Source) /\ WF_vars(Sink)
----------------------------------------------------------------------------
(* Where the sink keeps an entry of the source. *)
Image(p) == Top \o SubSeq(p, IF target = "dir" THEN Len(root) ELSE Len(root) + 1, Len(p))

(* What the source read from a file, less a zero byte the file gained after     *)
(* its size was announced.                                                      *)
Stored(data, p) ==
  \/ data = read[p]
  \/ read[p] \notin {Unread, <<>>} /\ Last(read[p]) = Zero /\ data = Front(read[p])

(* What success means.  When the source reports it, every directory it entered  *)
(* and every regular file that stood still is at its place on the sink's side,  *)
(* with the bytes the source read (sendSCPFile 244, receiveSCPFile 212).  A     *)
(* file's time is the one sent for it, under -p, or the time it was written     *)
(* when Chtimes fails, and never one sent for another entry (pendingTimes       *)
(* 119-125, 149-152, 182).  When the sink reports success, each file            *)
(* it stored holds bytes of that file only: never an acknowledgement, an        *)
(* error's text or the next header, although the stream's end is success        *)
(* wherever a command may start (scp.go 107-111).                               *)
SuccessIsStored ==
  /\ src.pc = "ok" =>
       \A p \in {q \in Paths : Below(q)} :
         /\ Kind[p] = "dir" => Image(p) \in DOMAIN disk /\ disk[Image(p)].kind = "dir"
         /\ p \in Files \ changed => read[p] # Unread
         /\ p \in Files /\ read[p] # Unread =>
              /\ Image(p) \in DOMAIN disk
              /\ Stored(disk[Image(p)].data, p)
              /\ disk[Image(p)].time \in {Now} \cup {q \in {p} : preserve}
  /\ snk.pc = "ok" =>
       \A p \in Files :
         Below(p) /\ Image(p) \in DOMAIN disk /\ read[p] # Unread /\ disk[Image(p)].kind = "file"
           => Stored(disk[Image(p)].data, p)

(* Whatever either side has done so far, what the sink has created mirrors the  *)
(* source's tree: no entry lands beside its directory or above the target       *)
(* (scp.go, the dirs stack of runSCPSink 104-177).                              *)
PathsMirrored ==
  \A d \in DOMAIN disk :
    \/ d = Top /\ target # "absent"
    \/ \E p \in Paths : Below(p) /\ Image(p) = d /\ disk[d].kind = Kind[p]

BothEnded == Ended(src.pc) /\ Ended(snk.pc)

(* A file shorter than announced: its terminator counts as data and either side *)
(* waits for the other.                                                         *)
ShortCopy == src.pc = "awaitFile" /\ Len(read[src.path]) < src.size

(* Both halves end: they never wait for each other, unless a file shrank        *)
(* between Stat and the copy, and then the end of the session ends them         *)
(* (scp.go, readSCPResponse 337, io.CopyN 221).                                 *)
TransferEnds ==
  /\ <>(BothEnded \/ ShortCopy)
  /\ cut ~> BothEnded
=============================================================================
