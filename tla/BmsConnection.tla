--------------------------- MODULE BmsConnection ---------------------------
(***************************************************************************)
(* The sidecar's console link (class BmsConnection of src/src/main.py):    *)
(* open and prime, flush, write, read until a terminator or a deadline,    *)
(* retry after a timeout, close; and the two terminators, the "pylon>"     *)
(* prompt and the "Command completed" line, with the flag that lets a read *)
(* drop the prompt a previous read did not wait for.                       *)
(*                                                                         *)
(* The console (external) answers each request with a sequence of pieces   *)
(* that arrive one by one, in order, whenever they do.  A piece is either  *)
(* an answer to the request written last ("own") or something else, mostly *)
(* what an earlier request left on the way ("late").                       *)
(***************************************************************************)
EXTENDS Integers, Sequences

CONSTANTS
  Settings,    \* the combinations of link and environment, see below
  Responses,   \* the answers to a command, as sequences of kinds
  Retries,     \* _COMMAND_RETRIES
  ReadTimeout, \* _READ_TIMEOUT, in ticks of one empty read
  Grace,       \* _ALT_TERMINATOR_GRACE, in the same ticks
  Backlog      \* bound on the pieces a console has yet to send

Kinds == {"body",    \* the text the caller is after
          "done",    \* "Command completed"
          "trail",   \* what firmware prints between that line and the prompt
          "prompt"}  \* "pylon>"

\* link is CONNECTION_TYPE, "tcp" being a console of its own or a transparent
\* bridge to a serial one.  With a punctual console answers come before the
\* deadline or never.  A response opens with text, never with the prompt, and
\* ends with a terminator: the prompt is its last piece, and between the line
\* and the prompt there is at most the trailer.
ASSUME ConfigAssumption ==
  /\ Settings \subseteq [link : {"console", "bridge", "serial"}, punctual : BOOLEAN]
  /\ Responses \subseteq Seq(Kinds)
  /\ \A kinds \in Responses :
       /\ kinds # <<>> /\ kinds[1] = "body"
       /\ \E i \in DOMAIN kinds : kinds[i] \in {"done", "prompt"}
       /\ \A i, j \in DOMAIN kinds : i < j =>
            /\ kinds[i] # "prompt"
            /\ kinds[i] = "done" => kinds[j] \in {"trail", "prompt"}
  /\ Retries \in Nat
  /\ Grace \in Nat \ {0}
  /\ ReadTimeout \in Nat \ {0}
  /\ Backlog \in Nat

VARIABLES
  setting,   \* the link and the environment, chosen once
  pc,        \* where the caller of send_command is
  opened,    \* _tcp or _serial is set
  stray,     \* _stray_prompt_pending
  attempt,   \* attempt
  data,      \* data, of the read in progress or just returned
  deadline,  \* ticks left before the deadline
  grace,     \* ticks left of the grace period, -1 before it starts
  pending,   \* what the console has yet to send
  rx,        \* what has arrived and is not read
  eof,       \* the peer closed the TCP connection
  answered,  \* history: the console answers the request written last
  clean,     \* history: since the last flush nothing is to come but what is the
             \*   request's own, behind a prompt that is expected at most
  loose      \* history: something was left on the way that no flag tells of

reader  == <<data, deadline, grace>>
wire    == <<pending, rx, eof, answered>>
history == <<clean, loose>>
vars    == <<setting, pc, opened, stray, attempt, reader, wire, history>>

Pieces == [kind : Kinds, tag : {"own", "late"}]

TypeOK ==
  /\ setting \in Settings
  /\ pc \in {"idle", "priming", "flushing", "writing", "reading", "returned",
             "failed"}
  /\ {opened, stray, eof, answered, clean, loose} \subseteq BOOLEAN
  /\ attempt \in 0 .. Retries
  /\ data \in Seq(Pieces) /\ pending \in Seq(Pieces) /\ rx \in Seq(Pieces)
  /\ deadline \in 0 .. ReadTimeout
  /\ grace \in -1 .. Grace

KindsIn(s) == {s[i].kind : i \in DOMAIN s}

Late(s) == [i \in DOMAIN s |-> [s[i] EXCEPT !.tag = "late"]]

Answer(kinds) == [i \in DOMAIN kinds |-> [kind |-> kinds[i], tag |-> "own"]]

-----------------------------------------------------------------------------

Init ==
  /\ setting \in Settings
  /\ pc = "idle" /\ opened = FALSE /\ stray = FALSE /\ attempt = 0
  /\ data = <<>> /\ deadline = 0 /\ grace = -1
  /\ pending = <<>> /\ rx = <<>> /\ eof = FALSE /\ answered = FALSE
  /\ clean = TRUE /\ loose = FALSE

\* Fault variant: the grace period is added to the deadline.
StartReadWithGrace ==
  /\ data' = <<>>
  /\ deadline' = ReadTimeout + Grace
  /\ grace' = -1

\* The head of _read_until_prompt.
StartRead ==
  /\ data' = <<>>
  /\ deadline' = ReadTimeout
  /\ grace' = -1

\* A write: the console answers in one of the given ways, or the request is lost.
Write(backlog, answers) ==
  \/ /\ pending' = backlog
     /\ answered' = FALSE
  \/ \E kinds \in answers :
       /\ Len(backlog) + Len(kinds) <= Backlog
       /\ pending' = backlog \o Answer(kinds)
       /\ answered' = TRUE

\* What is on the way when a connection is opened, besides the answer to the
\* blank line: a console prompts whoever connects; behind a bridge or a serial
\* line it goes on with what it was sending.
Inherited ==
  IF setting.link = "console" THEN <<[kind |-> "prompt", tag |-> "late"]>>
  ELSE Late(pending)

\* _open: connect, or open and reset_input_buffer, then prime with a blank line.
Open ==
  /\ pc = "idle" /\ ~opened
  /\ opened' = TRUE
  /\ eof' = FALSE
  /\ rx' = <<>>
  /\ Write(Inherited, {<<"prompt">>})
  /\ StartRead
  /\ pc' = "priming"
  /\ clean' = (Inherited = <<>>) /\ loose' = ~clean'
  /\ UNCHANGED <<setting, stray, attempt>>

OpenFails ==
  /\ pc = "idle" /\ ~opened
  /\ pc' = "failed"
  /\ UNCHANGED <<setting, opened, stray, attempt, reader, wire, history>>

\* send_command on an open connection.
Call ==
  /\ pc = "idle" /\ opened
  /\ pc' = "flushing"
  /\ UNCHANGED <<setting, opened, stray, attempt, reader, wire, history>>

\* Fault variant: nothing is discarded before a command is written.
KeepInput(s) == s

\* _flush_stale_input: whatever has arrived is discarded.
_flush_stale_input(s) == <<>>

\* Nothing is to come but a prompt that is expected.
OnlyStraggler ==
  \/ pending = <<>>
  \/ stray /\ Len(pending) = 1 /\ pending[1].kind = "prompt"

\* One turn of send_command's loop: flush, then write, while bytes arrive.
Flush ==
  /\ pc = "flushing"
  /\ rx' = _flush_stale_input(rx)
  /\ pc' = "writing"
  /\ clean' = OnlyStraggler
  /\ loose' = (loose /\ ~OnlyStraggler)
  /\ UNCHANGED <<setting, opened, stray, attempt, reader, pending, eof, answered>>

\* What a peer that is gone is sent it does not answer.
WriteCommand ==
  /\ pc = "writing"
  /\ rx' = Late(rx)
  /\ Write(Late(pending), IF eof THEN {} ELSE Responses)
  /\ StartRead
  /\ pc' = "reading"
  /\ UNCHANGED <<setting, opened, stray, attempt, eof, history>>

\* sendall to a connection the peer has closed.
WriteFails ==
  /\ pc = "writing" /\ eof
  /\ pc' = "failed"
  /\ UNCHANGED <<setting, opened, stray, attempt, reader, wire, history>>

-----------------------------------------------------------------------------
(* _read_until_prompt.                                                     *)

InRead == pc \in {"priming", "reading"}

\* Fault variant: a leading prompt is always taken for an answer.
NeverAStraggler(s) == FALSE

\* A leading prompt is a straggler when one is expected.
IsStraggler(s) == stray /\ s # <<>> /\ Head(s).kind = "prompt"

\* What the read has once a chunk is appended and a straggler dropped.
Received == IF IsStraggler(data \o rx) THEN Tail(data \o rx) ELSE data \o rx

\* The read returns: to the caller, or to send_command after the priming.
ReturnFromRead == pc' = IF pc = "priming" THEN "flushing" ELSE "returned"

\* Fault variant: the prompt that was not waited for is forgotten.
ExpectNothing == UNCHANGED stray

\* The prompt has not come within the grace period: it is a straggler.  With the
\* trailer still to come it will not lead what comes next.
ExpectStraggler == stray' = TRUE

\* What a punctual console has still to deliver before the deadline: the text and
\* one of the terminators.
Due ==
  \E i \in DOMAIN pending :
    /\ pending[i].tag = "own"
    /\ \/ pending[i].kind \in {"body", "done"}
       \/ pending[i].kind = "prompt" /\ "done" \notin KindsIn(data \o rx)

\* The time one turn of the loop takes: a tick when nothing has arrived.
Elapsed ==
  {t \in {0, 1} : /\ rx = <<>> => t = 1
                  /\ setting.punctual /\ Due => deadline - t > 0}

\* One turn of the loop.
Poll ==
  /\ InRead
  /\ deadline > 0
  /\ ~(eof /\ rx = <<>>)
  /\ \E t \in Elapsed :
       /\ deadline' = deadline - t
       /\ rx' = <<>>
       /\ data' = Received
       /\ LET expired == grace >= 0 /\ grace - t <= 0
              straggler == IsStraggler(data \o rx)
          IN  CASE "prompt" \in KindsIn(Received) ->
                     /\ stray' = (stray /\ ~straggler)
                     /\ ReturnFromRead
                     /\ UNCHANGED <<grace, loose>>
                [] "prompt" \notin KindsIn(Received)
                     /\ "done" \in KindsIn(Received) /\ expired ->
                     /\ ExpectStraggler
                     /\ loose' = (loose \/ "trail" \in KindsIn(pending))
                     /\ ReturnFromRead
                     /\ UNCHANGED grace
                [] OTHER ->
                     /\ stray' = (stray /\ ~straggler)
                     /\ grace' = IF "done" \notin KindsIn(Received) THEN grace
                                 ELSE IF grace = -1 THEN Grace ELSE grace - t
                     /\ UNCHANGED <<pc, loose>>
  /\ UNCHANGED <<setting, opened, attempt, pending, eof, answered, clean>>

\* recv() returns b"": ConnectionError.
ReadEof ==
  /\ InRead /\ deadline > 0
  /\ eof /\ rx = <<>>
  /\ pc' = "failed"
  /\ UNCHANGED <<setting, opened, stray, attempt, reader, wire, history>>

\* Fault variant: the attempts are not counted.
TimeoutForEver ==
  /\ InRead /\ deadline = 0
  /\ pc' = IF pc = "reading" THEN "flushing" ELSE "failed"
  /\ UNCHANGED <<setting, opened, stray, attempt, reader, wire, history>>

\* TimeoutError: retried by send_command, but not while priming.  A line that
\* came with less than the grace period left is dropped with the rest, and no
\* flag tells of the prompt behind it.
Timeout ==
  /\ InRead /\ deadline = 0
  /\ IF pc = "reading" /\ attempt < Retries
       THEN pc' = "flushing" /\ attempt' = attempt + 1
       ELSE pc' = "failed" /\ UNCHANGED attempt
  /\ loose' = (loose \/ "done" \in KindsIn(data))
  /\ UNCHANGED <<setting, opened, stray, reader, wire, clean>>

-----------------------------------------------------------------------------
(* The caller.                                                             *)

\* The response is handed over; the next call starts with a fresh count.
Take ==
  /\ pc = "returned"
  /\ pc' = "idle" /\ attempt' = 0
  /\ data' = <<>>
  /\ UNCHANGED <<setting, opened, stray, deadline, grace, wire, history>>

\* The loops that swallow errors go on with the connection as it is.
Swallow ==
  /\ pc = "failed"
  /\ pc' = "idle" /\ attempt' = 0
  /\ data' = <<>>
  /\ UNCHANGED <<setting, opened, stray, deadline, grace, wire, history>>

\* Fault variant: close() keeps the flag of the connection it closes.
CloseKeepingFlag ==
  /\ pc \in {"idle", "failed"}
  /\ opened' = FALSE
  /\ pc' = "idle" /\ attempt' = 0
  /\ data' = <<>> /\ deadline' = 0 /\ grace' = -1
  /\ rx' = <<>> /\ eof' = FALSE
  /\ UNCHANGED <<setting, stray, pending, answered, history>>

\* close(), from the poll loop's handlers.
close ==
  /\ pc \in {"idle", "failed"}
  /\ opened' = FALSE
  /\ stray' = FALSE
  /\ pc' = "idle" /\ attempt' = 0
  /\ data' = <<>> /\ deadline' = 0 /\ grace' = -1
  /\ rx' = <<>> /\ eof' = FALSE
  /\ UNCHANGED <<setting, pending, answered, history>>

-----------------------------------------------------------------------------
(* The console and the peer.                                               *)

Arrive ==
  /\ opened /\ pending # <<>> /\ ~eof
  /\ rx' = Append(rx, Head(pending))
  /\ pending' = Tail(pending)
  /\ UNCHANGED <<setting, pc, opened, stray, attempt, reader, eof, answered, history>>

\* Nobody listens to what comes between two connections.
Unheard ==
  /\ ~opened /\ pending # <<>>
  /\ pending' = Tail(pending)
  /\ UNCHANGED <<setting, pc, opened, stray, attempt, reader, rx, eof, answered, history>>

\* A serial line has no end of file.
PeerCloses ==
  /\ setting.link # "serial"
  /\ opened /\ ~eof
  /\ eof' = TRUE
  /\ UNCHANGED <<setting, pc, opened, stray, attempt, reader, pending, rx,
                 answered, history>>

send_command ==
  Call \/ Flush \/ WriteCommand \/ WriteFails \/ Poll \/ ReadEof \/ Timeout

Next ==
  \/ Open \/ OpenFails \/ send_command \/ Take \/ Swallow \/ close
  \/ Arrive \/ Unheard \/ PeerCloses

Spec == Init /\ [][Next]_vars

\* The calling thread runs; a console that owes an answer sends it.
FairSpec == Spec /\ WF_vars(send_command) /\ WF_vars(Arrive)

-----------------------------------------------------------------------------
(* Properties.                                                             *)

IsOwn(s) == "body" \in KindsIn(s) /\ \A i \in DOMAIN s : s[i].tag = "own"

\* Over any link, with any console: if at the flush nothing was still to come but
\* a prompt the flag tells of, the response returned is the console's answer to
\* that very request, on the first attempt or on a retry.  None of it is older,
\* whatever had arrived before and whenever that prompt comes, and the text is
\* there.  Where something else was to come the code cannot tell the two apart:
\* bytes that arrive between the flush and the write, or later, are read as an
\* answer.  OnlyFlaggedLeft says when that can be.
ResponseIsOwn == pc = "returned" /\ clean => IsOwn(data)

\* With a console that answers before the deadline or never, on a connection that
\* is not broken, a flush leaves nothing to come but a prompt the flag tells of,
\* save for three leftovers the code has no flag for, until a flush comes after
\* the last of them: what _open finds on the way, the prompt of a console that
\* greets or the rest of an answer behind a bridge or a serial line; the trailer
\* and the prompt, when the read returned before either; and what follows a line
\* that came with less than the grace period left.
OnlyFlaggedLeft ==
  /\ setting.punctual /\ ~eof /\ ~loose
  /\ pc \in {"writing", "reading", "returned"}
  => clean

\* With such a console a read times out only when its request was lost, or when
\* the line did come, but with less than the grace period left: the read then
\* waits for the prompt until the deadline and drops the response, although its
\* docstring says it times out if no terminator was seen.  A terminator is never
\* stripped with the straggler and then waited for in vain.
TimeoutMeansSilence ==
  [][setting.punctual /\ Timeout => ~answered \/ "done" \in KindsIn(data)]_vars

\* The comment on _stray_prompt_pending: the next read strips the trailing
\* prompt wherever it actually shows up, so it never ends a response.
StragglerIsStripped ==
  pc = "returned" => \A i \in DOMAIN data :
    data[i].kind = "prompt" => data[i].tag = "own"

\* Every call ends, however the console behaves.
CallEnds == InRead ~> (pc \in {"returned", "failed", "idle"})
-----------------------------------------------------------------------------
(* What makes the properties inductive.                                    *)

\* The answers the request written last may have.
Expected ==
  IF ~answered THEN {<<>>}
  ELSE IF pc = "priming" THEN {<<"prompt">>} ELSE Responses

\* In a read: what is read, has arrived and is to come, in this order.
Line == (data \o rx) \o pending

\* A line is n older pieces, then an answer of the given kinds.
Holds(line, n, kinds) ==
  /\ Len(line) = n + Len(kinds)
  /\ \A i \in 1 .. n : line[i].tag = "late"
  /\ \A i \in DOMAIN kinds : line[n + i].kind = kinds[i] /\ line[n + i].tag = "own"

\* After a clean flush what is older than the answer is a straggler at most,
\* expected and not yet read.
Stream ==
  \E kinds \in Expected, n \in 0 .. Len(Line) :
    /\ Holds(Line, n, kinds)
    /\ clean /\ n > 0 => n = 1 /\ Line[1].kind = "prompt" /\ stray /\ data = <<>>

\* A punctual console has delivered what it had to.
Delivered ==
  \A i \in DOMAIN (rx \o pending) :
    (rx \o pending)[i].tag = "own" =>
      /\ (rx \o pending)[i].kind \in {"trail", "prompt"}
      /\ (rx \o pending)[i].kind = "prompt" => "done" \in KindsIn(data)

\* Between the flush and the write, bytes may have arrived.
CleanLine ==
  \/ rx \o pending = <<>>
  \/ stray /\ Len(rx \o pending) = 1 /\ (rx \o pending)[1].kind = "prompt"

IInv ==
  /\ TypeOK
  /\ ~opened => ~stray /\ pc \in {"idle", "failed"}
  /\ pc = "priming" => ~stray
  /\ InRead => Stream /\ "prompt" \notin KindsIn(data)
  /\ InRead /\ setting.punctual /\ deadline = 0 => Delivered
  /\ pc = "writing" /\ clean => CleanLine
  /\ pc = "returned" /\ clean => IsOwn(data)
  /\ opened /\ ~eof /\ setting.punctual /\ ~loose =>
       IF pc \in {"priming", "writing", "reading"} THEN clean
       ELSE OnlyStraggler /\ (pc = "returned" => clean)
=============================================================================
