----------------------------- MODULE SL032Reader -----------------------------
(***************************************************************************)
(* StronglinkSL032TokenProvider: a thread asks an RFID reader again and    *)
(* again for the tag in front of it; the gensio callback collects what the *)
(* reader answers and reports each tag once.                               *)
(*                                                                         *)
(* A message on the wire is a row of cells, a cell being some bytes of it: *)
(* what counts are the lengths relative to each other, the order of the    *)
(* cells and whether all cells of a message are there.                     *)
(***************************************************************************)
EXTENDS Integers, Sequences, FiniteSetsExt

CONSTANTS
    Tags,            \* what can be in front of the reader ...
    NoTag,           \* ... or nothing
    IgnoreEcho,      \* ignore_echo: the line echoes what is sent
    RequestLength,   \* frame.size() of the request
    MinFrameLength,  \* length of an answer without a tag
    TagLength,       \* length of an answer with a tag
    MaxFrameLength,
    Envs,            \* environments: sets of Mishaps, what may go wrong
    MaxPlacements,   \* bound on how often a tag is placed ...
    MaxFaults,       \* ... and on how often a thread, the line or an open fails
    MaxConnections,  \* ... and on how often a connection is made
    WakeBound        \* of the loop

(* drop: the connection breaks;  no_device: it cannot be opened;           *)
(* partial: a request is cut short;  collision: the reader reports neither *)
(* a tag nor its absence;  late: a thread is held up, so that a request is *)
(* sent before the last answer is read.                                    *)
Mishaps == {"drop", "no_device", "partial", "collision", "late"}

ASSUME ReaderAssumption ==
    /\ NoTag \notin Tags
    /\ IgnoreEcho \in BOOLEAN
    /\ {RequestLength, MinFrameLength, TagLength, MaxFrameLength} \subseteq Nat
    /\ 0 < RequestLength /\ RequestLength < MinFrameLength
    /\ MinFrameLength <= TagLength /\ TagLength <= MaxFrameLength
    /\ Envs \subseteq SUBSET Mishaps
    /\ {MaxPlacements, MaxFaults, MaxConnections} \subseteq Nat
    /\ WakeBound \in Nat \ {0}

VARIABLES
    io, main, wakes, tx_enabled,      \* as in ConnectionLoop
    connections,       \* how many have been made
    query,             \* the query thread: asleep or about to write
    still_to_discard,
    chunk, to_discard, \* the read in progress: its data, and its share
    rx_frame,          \* RxFrame::buffer
    reported_tag,      \* NoTag is the empty string
    line, asked,       \* cells on their way to the host, requests to the reader
    tag, placement,    \* what is in front of the reader, and its number
    answered,          \* history: what the last answer with a verdict said
    reports,           \* history: the placements whose tag was reported
    faults,            \* history: how often a thread, the line or an open failed
    crashed,           \* undefined behaviour has taken its course
    env                \* the environment of this behaviour, one of Envs

loop     == <<io, main, wakes, tx_enabled, connections>>
reader   == <<chunk, to_discard, rx_frame, reported_tag, reports>>
device   == <<line, asked, answered>>
scene    == <<tag, placement>>
vars == <<loop, query, still_to_discard, reader, device, scene, faults,
          crashed, env>>

(* This driver has nothing to initialise and no reinit: that a gensio was  *)
(* created once takes its place.                                           *)
Loop == INSTANCE ConnectionLoop WITH reinit <- (io # "null")

-----------------------------------------------------------------------------
(* Messages and cells.                                                     *)

Message(status, t, p) == [status |-> status, tag |-> t, placement |-> p]

Request == Message("Request", NoTag, 0)

Length(m) == CASE m.status = "Request" -> RequestLength
               [] m.status = "Success" -> TagLength
               [] OTHER                -> MinFrameLength

Cells(m) == [k \in 1 .. Length(m) |-> [of |-> m, k |-> k]]

Preamble(c) == c.k = 1 /\ c.of.status # "Request"

(* RxFrame::check_frame, with the limits of USSFrame's.                    *)
Limit(b) == IF Len(b) < MinFrameLength THEN 0
            ELSE Min({Len(b) - MinFrameLength + 1, MaxFrameLength + 1})

StartsAt(b) == {i \in 1 .. Limit(b) : Preamble(b[i])}

FrameAt(b, i) == LET end == i + Length(b[i].of) - 1
                 IN  end <= Len(b) /\ SubSeq(b, i, end) = Cells(b[i].of)

FramesIn(b) == {i \in StartsAt(b) : FrameAt(b, i)}

From(b, i) == SubSeq(b, i, Len(b))

(* Without a frame garbage is discarded, if there is that much of it: what *)
(* precedes the last preamble.                                             *)
discard_garbage(b) ==
    IF Limit(b) = MaxFrameLength + 1 /\ StartsAt(b) # {}
    THEN From(b, Max(StartsAt(b))) ELSE b

(* Mutated form of clear: the frame stays in the buffer.                   *)
clear_nothing(b, i) == b

(* RxFrame::clear keeps what follows the frame at i.                       *)
clear(b, i) == From(b, i + Length(b[i].of))

BufferLength == 2 * MaxFrameLength

TypeOK ==
    /\ Loop!LoopTypeOK
    /\ query \in {"sleep", "write"}
    /\ {connections, still_to_discard, to_discard, asked, placement, faults}
          \subseteq Nat
    /\ \A s \in {chunk, rx_frame, line} : \A i \in DOMAIN s :
          s[i].k \in 1 .. Length(s[i].of) /\ s[i].of.placement \in 0 .. placement
    /\ Len(rx_frame) <= BufferLength
    /\ {reported_tag, tag, answered} \subseteq Tags \cup {NoTag}
    /\ reports \in Seq(1 .. MaxPlacements)
    /\ crashed \in BOOLEAN

Init ==
    /\ io = "null" /\ main = "create" /\ wakes = 0 /\ tx_enabled = FALSE
    /\ connections = 0
    /\ query = "sleep" /\ still_to_discard = 0
    /\ chunk = <<>> /\ to_discard = 0 /\ rx_frame = <<>>
    /\ reported_tag = NoTag
    /\ line = <<>> /\ asked = 0
    /\ tag = NoTag /\ placement = 0
    /\ answered = NoTag /\ reports = <<>> /\ faults = 0
    /\ crashed = FALSE
    /\ env \in Envs

-----------------------------------------------------------------------------
(* The query thread.                                                       *)

(* The last exchange is over.  A poll takes a few milliseconds, the next   *)
(* one comes after interval_ms.                                            *)
Settled == line = <<>> /\ asked = 0 /\ chunk = <<>>

Fails(mishap) == mishap \in env /\ faults < MaxFaults /\ faults' = faults + 1

Polls ==
    /\ query = "sleep" /\ tx_enabled
    /\ \/ Settled /\ io = "open" /\ UNCHANGED faults
       \/ ~(Settled /\ io = "open") /\ Fails("late")

(* The echo of a request is counted before the request is written.         *)
QueryCount ==
    /\ Polls
    /\ still_to_discard' =
          IF IgnoreEcho THEN still_to_discard + RequestLength ELSE still_to_discard
    /\ query' = "write"
    /\ UNCHANGED <<loop, reader, device, scene, crashed>>

Echo(n) == line' = IF IgnoreEcho THEN line \o SubSeq(Cells(Request), 1, n) ELSE line

QueryWrite ==
    /\ query = "write" /\ io = "open"
    /\ query' = "sleep"
    /\ asked' = asked + 1 /\ Echo(RequestLength)
    /\ UNCHANGED <<still_to_discard, loop, reader, answered, scene, faults, crashed>>

(* The write is cut short or fails, which is logged, or goes to a gensio   *)
(* that has been destroyed.                                                *)
QueryWriteFails ==
    /\ query = "write"
    /\ query' = "sleep"
    /\ IF io = "open"
       THEN /\ Fails("partial") /\ UNCHANGED crashed
            /\ \E n \in 0 .. RequestLength - 1 : Echo(n)
       ELSE UNCHANGED <<line, faults>> /\ crashed' \in {FALSE, io = "gone"}
    /\ UNCHANGED <<still_to_discard, loop, reader, asked, answered, scene>>

-----------------------------------------------------------------------------
(* The main thread inside waiter->wait: StronglinkSL032Event::read.        *)

(* The count is taken with its exchange, and the query thread may add to   *)
(* it before the rest is put back.                                         *)
ReadBegins ==
    /\ main = "wait" /\ io = "open" /\ chunk = <<>>
    /\ \E n \in 1 .. Len(line) :
          chunk' = SubSeq(line, 1, n) /\ line' = From(line, n + 1)
    /\ to_discard' = still_to_discard /\ still_to_discard' = 0
    /\ UNCHANGED <<rx_frame, reported_tag, reports, loop, query, asked,
                   answered, scene, faults, crashed>>

(* Mutated form of ReadDiscards: more is discarded than there is to.       *)
ReadDiscardsUnguarded ==
    /\ chunk # <<>> /\ to_discard > 0
    /\ still_to_discard' = still_to_discard + (to_discard - Len(chunk))
    /\ chunk' = <<>> /\ to_discard' = 0
    /\ UNCHANGED <<rx_frame, reported_tag, reports, loop, query, device, scene,
                   faults, crashed>>

ReadDiscards ==
    /\ chunk # <<>> /\ to_discard >= Len(chunk)
    /\ still_to_discard' = still_to_discard + (to_discard - Len(chunk))
    /\ chunk' = <<>> /\ to_discard' = 0
    /\ UNCHANGED <<rx_frame, reported_tag, reports, loop, query, device, scene,
                   faults, crashed>>

(* Mutated form of Handle: a collision counts as the absence of a tag.     *)
HandleAnyStatus(m) ==
    /\ reported_tag' = IF m.status = "Success" THEN m.tag ELSE NoTag
    /\ reports' = IF m.status = "Success" /\ m.tag # reported_tag
                  THEN Append(reports, m.placement) ELSE reports

(* Mutated form of Handle: the absence of a tag is not noted.              *)
HandleNoAbsence(m) ==
    IF m.status = "Success"
    THEN /\ reported_tag' = m.tag
         /\ reports' = IF m.tag # reported_tag
                       THEN Append(reports, m.placement) ELSE reports
    ELSE UNCHANGED <<reported_tag, reports>>

(* A tag is reported, through on_token, unless it was the last time.       *)
Handle(m) ==
    /\ reported_tag' = CASE m.status = "Success" -> m.tag
                         [] m.status = "NoTag"   -> NoTag
                         [] OTHER                -> reported_tag
    /\ reports' = IF m.status = "Success" /\ m.tag # reported_tag
                  THEN Append(reports, m.placement) ELSE reports

(* The whole chunk goes into the buffer, an echo in front of an answer     *)
(* included.  The buffer has a fixed size that nobody looks at.            *)
ReadCollects ==
    /\ chunk # <<>> /\ to_discard < Len(chunk)
    /\ chunk' = <<>> /\ to_discard' = 0
    /\ LET b == rx_frame \o chunk
       IN  IF Len(b) > BufferLength
           THEN crashed' = TRUE /\ UNCHANGED <<rx_frame, reported_tag, reports>>
           ELSE /\ UNCHANGED crashed
                /\ IF FramesIn(b) # {}
                   THEN LET i == Min(FramesIn(b))
                        IN  Handle(b[i].of) /\ rx_frame' = clear(b, i)
                   ELSE /\ rx_frame' = discard_garbage(b)
                        /\ UNCHANGED <<reported_tag, reports>>
    /\ UNCHANGED <<still_to_discard, loop, query, device, scene, faults>>

ReadError ==
    /\ Fails("drop")
    /\ chunk = <<>> /\ Loop!Break
    /\ line' = <<>> /\ asked' \in {asked, 0}
    /\ UNCHANGED <<query, still_to_discard, reader, answered, scene, crashed,
                   connections>>

-----------------------------------------------------------------------------
(* The main thread: ready().                                               *)

OthersUnchanged == UNCHANGED <<query, still_to_discard, reader, scene, crashed>>
Unfailing       == OthersUnchanged /\ UNCHANGED <<faults, connections>>

Create    == /\ connections < MaxConnections /\ connections' = connections + 1
             /\ Loop!NewGensio /\ UNCHANGED <<device, faults>> /\ OthersUnchanged
Open      == Loop!OpenGensio /\ UNCHANGED device /\ Unfailing
OpenFails == /\ Fails("no_device")
             /\ Loop!OpenThrows /\ UNCHANGED <<device, connections>> /\ OthersUnchanged
Woken     == chunk = <<>> /\ Loop!WaitReturns /\ UNCHANGED device /\ Unfailing
Close     == Loop!CloseGensio /\ line' = <<>> /\ UNCHANGED <<asked, answered>> /\ Unfailing
Sleep     == Loop!Retry /\ UNCHANGED device /\ Unfailing

(* A write that is due is over before the gensio has been closed.          *)
Destroy == /\ query = "sleep" \/ "late" \in env
           /\ Loop!FreeGensio /\ UNCHANGED device /\ Unfailing

MainStep == Create \/ Open \/ Woken \/ Close \/ Destroy \/ Sleep

-----------------------------------------------------------------------------
(* The reader and who uses it.                                             *)

Sends(m) ==
    /\ asked > 0 /\ asked' = asked - 1
    /\ line' = IF io = "open" THEN line \o Cells(m) ELSE line
    /\ UNCHANGED <<loop, query, still_to_discard, reader, scene, faults, crashed>>

Answer == /\ Sends(Message(IF tag = NoTag THEN "NoTag" ELSE "Success", tag, placement))
          /\ answered' = tag

AnswerCollision == /\ "collision" \in env
                   /\ Sends(Message("Collision", NoTag, placement))
                   /\ UNCHANGED answered

Place == /\ placement < MaxPlacements
         /\ placement' = placement + 1
         /\ tag' \in Tags \ {tag}
         /\ UNCHANGED <<loop, query, still_to_discard, reader, device, faults, crashed>>

Remove == /\ tag # NoTag /\ tag' = NoTag
          /\ UNCHANGED <<placement, loop, query, still_to_discard, reader, device,
                         faults, crashed>>

-----------------------------------------------------------------------------
Running ==
    \/ QueryCount \/ QueryWrite \/ QueryWriteFails
    \/ ReadBegins \/ ReadDiscards \/ ReadCollects \/ ReadError
    \/ MainStep \/ OpenFails
    \/ Answer \/ AnswerCollision \/ Place \/ Remove

(* The process has crashed, or the bound on connections is reached.        *)
Ended == crashed \/ (main = "create" /\ connections = MaxConnections)

Next == \/ ~crashed /\ Running /\ UNCHANGED env
        \/ Ended /\ UNCHANGED vars

Spec == Init /\ [][Next]_vars

(* Threads go on; the reader gives a verdict again and again, and an open  *)
(* that keeps being retried succeeds in the end.                           *)
While(A) == ~crashed /\ A /\ UNCHANGED env

Fairness ==
    /\ WF_vars(While(QueryCount)) /\ WF_vars(While(QueryWrite \/ QueryWriteFails))
    /\ WF_vars(While(ReadBegins)) /\ WF_vars(While(ReadDiscards \/ ReadCollects))
    /\ WF_vars(While(MainStep)) /\ SF_vars(While(Open)) /\ SF_vars(While(Answer))

FairSpec == Spec /\ Fairness

-----------------------------------------------------------------------------
(* Properties.                                                             *)

(* A tag is reported at most once each time it is put in front of the      *)
(* reader, and in that order, whatever is lost, late, repeated or cut.     *)
ReportsInOrder ==
    \A i, j \in DOMAIN reports : i < j => reports[i] < reports[j]

(* As long as nothing fails nothing is lost between reader and driver: what *)
(* is reported when an exchange is over is what its answer said.  The      *)
(* echoes that are discarded are all of the echoes and none of the         *)
(* answers, in whatever chunks they come, and the fixed buffer suffices.   *)
UpToDate ==
    faults = 0 => ~crashed /\ (Settled => reported_tag = answered)

(* As long as the connection is never given up, a tag that stays is        *)
(* reported in the end, and the absence of one noted: neither echoes       *)
(* counted that never came nor an answer that was read too late puts the   *)
(* driver out of step for good.  (Once it was given up, or could not be    *)
(* opened, the later ones are closed at once: see ClosedInErrorOnly.)      *)
TagIsReported ==
    [](~crashed /\ main # "sleep") =>
        \A t \in Tags \cup {NoTag} : <>[](tag = t) => <>[](reported_tag = t)

=============================================================================
