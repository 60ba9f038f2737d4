------------------------------ MODULE LspClient ------------------------------
(***************************************************************************)
(* The LSP adapter (internal/parser/adapter/lsp/adapter.go) after Init:    *)
(* workers parse files, each by didOpen, a documentSymbol request that is  *)
(* tried retryAttempts times, and didClose; one goroutine reads answers.   *)
(* Callers and the reader share a.mu, and a caller keeps it while it       *)
(* writes to the server's standard input.  The language server is outside  *)
(* the program: it answers what it has read in any order, late or never,   *)
(* sends frames of its own, and may die.  Init has offered it no           *)
(* capabilities, so it sends no requests.                                  *)
(***************************************************************************)
EXTENDS Integers, Sequences, FiniteSets

CONSTANTS
    Callers,       \* workers that call Parse
    Files,         \* files; no two callers parse the same one at a time
    retryAttempts, \* how often a request is tried
    Room,          \* messages that fit in a pipe
    Sequential,    \* the server reads on only after its answers are written
    MaxMsgID,         \* bound: no Parse starts that could need a higher msgID
    NoPath, Nobody, NoFrame

ASSUME LspClientAssumption ==
    /\ retryAttempts \in Nat \ {0}
    /\ Room \in Nat \ {0}
    /\ Sequential \in BOOLEAN
    /\ MaxMsgID \in Nat
    /\ NoPath \notin Files
    /\ Nobody \notin Callers
    /\ IsFiniteSet(Callers)

VARIABLES
    caller,  \* what each worker does
    mu,      \* the worker that keeps a.mu while its write is blocked
    msgID,   \* the last identifier given to a request
    pending, \* identifiers in the map of pending requests
    chan,    \* answers in the channels made for requests
    reader,  \* the frame readResponses has read and not dispatched
    alive,   \* what IsAlive returns, and whether readResponses still runs
    server,  \* whether the process runs
    stdin, stdout, \* the pipes
    docs,    \* documents open in the server
    asked    \* requests the server has read and not answered

client == <<caller, mu, msgID, pending, chan>>
process == <<server, stdin, docs, asked>>
clientVars == <<client, reader, alive, process, stdout>>

Frame == [id : Nat, path : Files \cup {NoPath}]
Request == [kind : {"documentSymbol"}, id : Nat \ {0}, path : Files]
Message == Request \cup [kind : {"didOpen", "didClose"}, id : {0}, path : Files]
Writes == {"didOpen", "documentSymbol", "didClose"}
Call ==
    [at : Writes \cup {"idle", "request", "wait", "expired"}, path : Files \cup {NoPath},
     id : Nat, tries : 0 .. retryAttempts, got : Files \cup {NoPath}]
NotParsing == [at |-> "idle", path |-> NoPath, id |-> 0, tries |-> 0, got |-> NoPath]

ClientTypeOK ==
    /\ caller \in [Callers -> Call]
    /\ mu \in Callers \cup {Nobody}
    /\ msgID \in Nat
    /\ pending \subseteq Nat
    /\ chan \subseteq Frame
    /\ reader \in Frame \cup {NoFrame}
    /\ alive \in BOOLEAN /\ server \in {"up", "dead"}
    /\ stdin \in Seq(Message) /\ stdout \in Seq(Frame)
    /\ docs \subseteq Files
    /\ asked \subseteq Request

ClientInit ==
    /\ caller = [w \in Callers |-> NotParsing]
    /\ mu = Nobody
    /\ msgID = 0 /\ pending = {} /\ chan = {}
    /\ reader = NoFrame
    /\ alive = TRUE /\ server = "up"
    /\ stdin = <<>> /\ stdout = <<>>
    /\ docs = {} /\ asked = {}

-----------------------------------------------------------------------------
(* A worker in Parse *)

Busy == {w \in Callers : caller[w].at # "idle"}

\* Mutant: the server is expected to read the file itself.
ParseUnopened(w, p) ==
    /\ caller[w].at = "idle" /\ mu = Nobody
    /\ \A v \in Callers : caller[v].path # p
    /\ msgID + retryAttempts * (Cardinality(Busy) + 1) <= MaxMsgID
    /\ caller' = [caller EXCEPT ![w] = [NotParsing EXCEPT !.at = "request", !.path = p]]
    /\ UNCHANGED <<mu, msgID, pending, chan, reader, alive, process, stdout>>

\* Parse finds the process of Init and starts, whether it is alive or not.
Parse(w, p) ==
    /\ caller[w].at = "idle" /\ mu = Nobody
    /\ \A v \in Callers : caller[v].path # p
    /\ msgID + retryAttempts * (Cardinality(Busy) + 1) <= MaxMsgID
    /\ caller' = [caller EXCEPT ![w] = [NotParsing EXCEPT !.at = "didOpen", !.path = p]]
    /\ UNCHANGED <<mu, msgID, pending, chan, reader, alive, process, stdout>>

\* What retry.Do makes of a failed try; the library decides which errors are
\* tried again, and a cancelled context is not.
GivenUp(c) == [NotParsing EXCEPT !.at = "didClose", !.path = c.path]
Retried(c) ==
    IF c.tries < retryAttempts THEN [c EXCEPT !.at = "request", !.id = 0] ELSE GivenUp(c)

Tries(w) == {Retried(caller[w]), GivenUp(caller[w])}

\* Mutant: msgID is raised outside the mutex, and an update may be lost.
sendRequestRacing(w) ==
    /\ caller[w].at = "request" /\ mu = Nobody
    /\ msgID' \in {msgID, msgID + 1}
    /\ pending' = pending \cup {msgID + 1}
    /\ caller' = [caller EXCEPT ![w].at = "documentSymbol", ![w].id = msgID + 1, ![w].tries = @ + 1]
    /\ UNCHANGED <<mu, chan, reader, alive, process, stdout>>

\* The first half of sendRequest: an identifier and a channel.
sendRequest(w) ==
    /\ caller[w].at = "request" /\ mu = Nobody
    /\ msgID' = msgID + 1
    /\ pending' = pending \cup {msgID + 1}
    /\ caller' = [caller EXCEPT ![w].at = "documentSymbol", ![w].id = msgID + 1, ![w].tries = @ + 1]
    /\ UNCHANGED <<mu, chan, reader, alive, process, stdout>>

-----------------------------------------------------------------------------
(* stdin.Write, in sendRequest and sendNotification, under a.mu *)

Writing(w) == caller[w].at \in Writes
MessageOf(c) == [kind |-> c.at, id |-> IF c.at = "documentSymbol" THEN c.id ELSE 0, path |-> c.path]

Written(c) ==
    IF c.at = "didOpen" THEN [c EXCEPT !.at = "request"]
    ELSE IF c.at = "documentSymbol" THEN [c EXCEPT !.at = "wait"]
    ELSE NotParsing

\* Errors of notifications are dropped, the one of a request is retried.
Unwritten(c) == IF c.at = "documentSymbol" THEN Retried(c) ELSE Written(c)

Write(w) ==
    /\ Writing(w) /\ mu \in {Nobody, w}
    /\ server = "up" /\ Len(stdin) < Room
    /\ stdin' = Append(stdin, MessageOf(caller[w]))
    /\ caller' = [caller EXCEPT ![w] = Written(@)]
    /\ mu' = Nobody
    /\ UNCHANGED <<msgID, pending, chan, reader, alive, server, docs, asked, stdout>>

WriteBlocks(w) ==
    /\ Writing(w) /\ mu = Nobody
    /\ server = "up" /\ Len(stdin) >= Room
    /\ mu' = w
    /\ UNCHANGED <<caller, msgID, pending, chan, reader, alive, process, stdout>>

\* The entry of a request that could not be written stays in the map.
WriteFails(w) ==
    /\ Writing(w) /\ mu \in {Nobody, w}
    /\ server = "dead"
    /\ caller' = [caller EXCEPT ![w] = Unwritten(@)]
    /\ mu' = Nobody
    /\ UNCHANGED <<msgID, pending, chan, reader, alive, process, stdout>>

-----------------------------------------------------------------------------
(* The second half of sendRequest: an answer, the timer or the context *)

\* An answer is a list of symbols or an error.
Receive(w) ==
    /\ caller[w].at = "wait"
    /\ \E a \in chan :
          /\ a.id = caller[w].id
          /\ chan' = chan \ {a}
          /\ \/ caller' = [caller EXCEPT ![w] = [GivenUp(@) EXCEPT !.got = a.path]]
             \/ \E try \in Tries(w) : caller' = [caller EXCEPT ![w] = try]
    /\ UNCHANGED <<mu, msgID, pending, reader, alive, process, stdout>>

\* Mutant: a caller waits until the server is known to be dead.
ExpireWithServer(w) ==
    /\ caller[w].at = "wait" /\ ~alive
    /\ caller' = [caller EXCEPT ![w].at = "expired"]
    /\ UNCHANGED <<mu, msgID, pending, chan, reader, alive, process, stdout>>

\* The timer fires or the context is cancelled, at any time after the write.
Expire(w) ==
    /\ caller[w].at = "wait"
    /\ caller' = [caller EXCEPT ![w].at = "expired"]
    /\ UNCHANGED <<mu, msgID, pending, chan, reader, alive, process, stdout>>

\* Mutant: the entry stays in the map.
ForgetNothing(w) ==
    /\ caller[w].at = "expired" /\ mu = Nobody
    /\ \E try \in Tries(w) : caller' = [caller EXCEPT ![w] = try]
    /\ UNCHANGED <<mu, msgID, pending, chan, reader, alive, process, stdout>>

\* The entry is removed; an answer that came meanwhile is lost with its channel.
Forget(w) ==
    /\ caller[w].at = "expired" /\ mu = Nobody
    /\ pending' = pending \ {caller[w].id}
    /\ chan' = {a \in chan : a.id # caller[w].id}
    /\ \E try \in Tries(w) : caller' = [caller EXCEPT ![w] = try]
    /\ UNCHANGED <<mu, msgID, reader, alive, process, stdout>>

Caller(w) ==
    sendRequest(w) \/ Write(w) \/ WriteBlocks(w) \/ WriteFails(w)
      \/ Receive(w) \/ Expire(w) \/ Forget(w)

-----------------------------------------------------------------------------
(* readResponses *)

\* Frames without an identifier, and frames that do not parse, are skipped.
ReadFrame ==
    /\ reader = NoFrame /\ stdout # <<>>
    /\ stdout' = Tail(stdout)
    /\ reader' = IF Head(stdout).id > 0 THEN Head(stdout) ELSE NoFrame
    /\ UNCHANGED <<client, alive, process>>

Dispatch ==
    /\ reader # NoFrame /\ mu = Nobody
    /\ pending' = pending \ {reader.id}
    /\ chan' = IF reader.id \in pending THEN chan \cup {reader} ELSE chan
    /\ reader' = NoFrame
    /\ UNCHANGED <<caller, mu, msgID, alive, process, stdout>>

EndOfFile ==
    /\ reader = NoFrame /\ stdout = <<>> /\ server = "dead"
    /\ alive /\ mu = Nobody
    /\ alive' = FALSE
    /\ UNCHANGED <<client, reader, process, stdout>>

Reader == ReadFrame \/ Dispatch \/ EndOfFile

-----------------------------------------------------------------------------
(* The server, and what ends it *)

ServerReads ==
    /\ server = "up" /\ stdin # <<>>
    /\ Sequential => Len(stdout) < Room
    /\ LET m == Head(stdin) IN
          /\ docs' = CASE m.kind = "didOpen" -> docs \cup {m.path}
                       [] m.kind = "didClose" -> docs \ {m.path}
                       [] OTHER -> docs
          /\ asked' = IF m.kind = "documentSymbol" THEN asked \cup {m} ELSE asked
    /\ stdin' = Tail(stdin)
    /\ UNCHANGED <<client, reader, alive, server, stdout>>

ServerWrites(f) ==
    /\ server = "up" /\ Len(stdout) < Room
    /\ stdout' = Append(stdout, f)
    /\ UNCHANGED <<client, reader, alive, server, stdin, docs>>

ServerAnswers(r) ==
    /\ ServerWrites([id |-> r.id, path |-> r.path])
    /\ asked' = asked \ {r}

\* Diagnostics, logs, progress.
ServerNotifies ==
    /\ ServerWrites([id |-> 0, path |-> NoPath])
    /\ UNCHANGED asked

\* What it has written can still be read, what it has not read is lost.
Dies == server' = "dead" /\ stdin' = <<>> /\ docs' = {} /\ asked' = {}

\* A crash, or the kill that follows the end of the context.
ServerDies ==
    /\ server = "up" /\ Dies
    /\ UNCHANGED <<client, reader, alive, stdout>>

\* Only tests call Close; it needs the mutex before it can kill the process.
Close ==
    /\ mu = Nobody /\ alive
    /\ alive' = FALSE /\ Dies
    /\ UNCHANGED <<client, reader, stdout>>

ClientNext ==
    \/ \E w \in Callers : Caller(w) \/ \E p \in Files : Parse(w, p)
    \/ Reader
    \/ ServerReads \/ (\E r \in asked : ServerAnswers(r)) \/ ServerNotifies \/ ServerDies
    \/ Close

\* Goroutines run, timers fire and a.mu is handed on in the end; a server that
\* can read does.  Nothing makes a server answer.
Fairness ==
    /\ \A w \in Callers : WF_clientVars(Caller(w))
    /\ WF_clientVars(Reader)
    /\ SF_clientVars(ServerReads)

ClientSpec == ClientInit /\ [][ClientNext]_clientVars /\ Fairness

-----------------------------------------------------------------------------
(* Properties *)

OwnAnswer == \A w \in Callers : caller[w].got \in {NoPath, caller[w].path}

\* Types, and a Parse never returns the symbols of another file, however late the
\* answers come: timed-out requests of this and of earlier calls are still answered.
ClientSound == ClientTypeOK /\ OwnAnswer

Awaited(i) == \E w \in Callers : caller[w].id = i /\ caller[w].at \in {"documentSymbol", "wait", "expired"}
Travels(i) ==
    \/ \E k \in DOMAIN stdin : stdin[k].id = i
    \/ \E r \in asked : r.id = i
    \/ \E k \in DOMAIN stdout : stdout[k].id = i
PendingAwaited == \A i \in pending : Awaited(i) \/ ~Travels(i)

\* A server is asked for symbols only while the document is open in it, also
\* on a retry (clangd answers "non-added document" otherwise).
AskedWhenOpen == [][\A r \in asked' \ asked : r.path \in docs]_clientVars

NothingLeftOpen ==
    \A p \in docs :
        \/ \E w \in Callers : caller[w].path = p
        \/ \E k \in DOMAIN stdin : stdin[k].kind = "didClose" /\ stdin[k].path = p

\* Nothing piles up over a long scan: an entry of the map of pending requests
\* belongs to a caller that will take it out, or its request never reached the
\* pipe; and every way out of Parse closes its document.
NothingPiledUp == PendingAwaited /\ NothingLeftOpen

\* Every Parse returns, with symbols or so that the fallback parser takes over
\* (FallbackParser in internal/parser/fallback.go), whether the server answers late,
\* wrongly, never, or dies: as long as, alive, it reads what is in its pipe
\* (ServerReads is strongly fair).
ParseReturns == \A w \in Callers : caller[w].at # "idle" ~> caller[w].at = "idle"
=============================================================================
