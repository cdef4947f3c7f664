-------------------------------- MODULE WebApi --------------------------------
(***************************************************************************)
(* Two stateful parts of the web application: the guard every API request  *)
(* passes (key, loopback, rate limit per caller), and the stream that      *)
(* tails the structured log while the logging handler writes and rotates.  *)
(***************************************************************************)
EXTENDS Integers, Sequences, SequencesExt, FiniteSetsExt

CONSTANTS Caller,               \* supplied keys or client addresses
          KeySet, Loopback,     \* callers with the valid key, callers on this host
          RatePerWindow, WindowLength, MaxTime,
          MaxRequests, MaxLogLines, MaxRotations

ASSUME WebConstants == RatePerWindow \in Nat /\ WindowLength \in Nat /\ MaxTime \in Nat /\ MaxLogLines \in Nat

VARIABLES keyRequired,   \* is ZETTELFORGE_WEB_API_KEY set?
          now, windows,  \* the clock and _rate_windows
          admitted,      \* per caller, the times of the requests let in (history)
          logFile,       \* the file under the log's name: [inode, lines], inode 0 while there is none
          written,       \* lines logged so far, numbered in order
          opened,        \* the first line of every file opened after a rotation
          tail,          \* event_generator
          sent,          \* the lines it has yielded
          rotatedUnder   \* did a rotation fall between a stat and its open? (history)
webVars == <<keyRequired, now, windows, admitted, logFile, written, opened, tail, sent, rotatedUnder>>
guardVars == <<keyRequired, now, windows, admitted>>
logVars == <<logFile, written, opened, tail, sent, rotatedUnder>>

WebTypeOK ==
  /\ now \in 0..MaxTime /\ \A c \in Caller : Len(windows[c]) <= RatePerWindow
  /\ logFile.inode \in 0..Len(opened) + 1 /\ written \in 0..MaxLogLines
  /\ tail.at \in {"closed", "poll", "read"} /\ tail.seen \in 0..Len(opened) + 1 /\ tail.last \in Nat
  /\ \A i \in DOMAIN sent : sent[i] \in 1..written

WebInit ==
  /\ keyRequired \in BOOLEAN /\ now = 0 /\ windows = [c \in Caller |-> <<>>]
  /\ admitted = [c \in Caller |-> <<>>]
  /\ logFile = [inode |-> 1, lines |-> <<>>] /\ written = 0 /\ opened = <<>>
  /\ tail = [at |-> "closed", seen |-> 0, last |-> 0] /\ sent = <<>> /\ rotatedUnder = FALSE

-----------------------------------------------------------------------------
Clock == now < MaxTime /\ now' = now + 1 /\ UNCHANGED <<keyRequired, windows, admitted, logVars>>

\* require_api_guard, then _check_rate_limit: hits older than the window are dropped from the
\* left, and only a request that is let in is recorded.
Allowed(c) == IF keyRequired THEN c \in KeySet ELSE c \in Loopback

\* Mutation of Stale: a hit as old as the window is dropped.
StaleAtEdge(hit) == hit <= now - WindowLength

Stale(hit) == hit < now - WindowLength
Dropped(hits) ==
  {k \in 0..Len(hits) : (\A i \in 1..k : Stale(hits[i])) /\ (k < Len(hits) => ~Stale(hits[k + 1]))}
Request(c) ==
  \E k \in Dropped(windows[c]) :
    LET hits == SubSeq(windows[c], k + 1, Len(windows[c]))
        room == Len(hits) < RatePerWindow IN
    /\ Allowed(c) /\ Len(admitted[c]) < MaxRequests
    /\ windows' = [windows EXCEPT ![c] = IF room THEN Append(hits, now) ELSE hits]
    /\ admitted' = IF room THEN [admitted EXCEPT ![c] = Append(@, now)] ELSE admitted
    /\ UNCHANGED <<keyRequired, now, logVars>>

-----------------------------------------------------------------------------
\* The handler: a line is appended whole; a rotation renames the file, and the next line opens
\* a new one under the name.
WriteLog ==
  /\ written < MaxLogLines /\ written' = written + 1
  /\ logFile' = IF logFile.inode = 0 THEN [inode |-> Len(opened) + 2, lines |-> <<written + 1>>]
                ELSE [logFile EXCEPT !.lines = Append(@, written + 1)]
  /\ opened' = IF logFile.inode = 0 THEN Append(opened, written + 1) ELSE opened
  /\ UNCHANGED <<guardVars, tail, sent, rotatedUnder>>

Rotate ==
  /\ logFile.inode # 0 /\ logFile.lines # <<>> /\ Len(opened) < MaxRotations
  /\ logFile' = [inode |-> 0, lines |-> <<>>]
  /\ rotatedUnder' = (rotatedUnder \/ tail.at = "read")
  /\ UNCHANGED <<guardVars, written, opened, tail, sent>>

\* event_generator starts at the end of the file there is.
OpenStream ==
  /\ tail.at = "closed"
  /\ tail' = [at |-> "poll", seen |-> logFile.inode, last |-> Len(logFile.lines)]
  /\ UNCHANGED <<guardVars, logFile, written, opened, sent, rotatedUnder>>

\* Mutation of Stat: the position is kept when the file is another one.
StatKeeping ==
  /\ tail.at = "poll" /\ logFile.inode # 0
  /\ tail' = [tail EXCEPT !.at = IF Len(logFile.lines) > tail.last THEN "read" ELSE "poll",
                          !.seen = logFile.inode]
  /\ UNCHANGED <<guardVars, logFile, written, opened, sent, rotatedUnder>>

Stat ==
  LET from == IF logFile.inode # tail.seen THEN 0 ELSE tail.last IN
  /\ tail.at = "poll" /\ logFile.inode # 0
  /\ tail' = [at |-> IF Len(logFile.lines) > from THEN "read" ELSE "poll", seen |-> logFile.inode, last |-> from]
  /\ UNCHANGED <<guardVars, logFile, written, opened, sent, rotatedUnder>>

\* open by name, seek to last_size, read to the end, tell(); past the end there is nothing to
\* read and tell() stays; without a file the open raises and the loop goes on.
ReadOn ==
  LET size == Len(logFile.lines) IN
  /\ tail.at = "read"
  /\ sent' = sent \o SubSeq(logFile.lines, tail.last + 1, size)
  /\ tail' = [tail EXCEPT !.at = "poll", !.last = Max({@, size})]
  /\ UNCHANGED <<guardVars, logFile, written, opened, rotatedUnder>>

WebNext == Clock \/ (\E c \in Caller : Request(c)) \/ WriteLog \/ Rotate \/ OpenStream \/ Stat \/ ReadOn
WebSpec == WebInit /\ [][WebNext]_webVars

-----------------------------------------------------------------------------
\* Within any window of time no caller gets more than its share in, wherever the window starts:
\* a request that is let in comes more than a window after the one its share before it, although
\* what is kept of the past is dropped as it ages, by refused requests too (app.py:141).  A caller is
\* the key of a window: the API key that was sent, else the client's address (app.py:180).
RateBounded ==
  \A c \in Caller : \A i \in 1..Len(admitted[c]) - RatePerWindow :
    admitted[c][i + RatePerWindow] > admitted[c][i] + WindowLength

\* The stream yields the lines of the log in order and none twice, and those it never yields
\* are the end of a file that was rotated before the next poll: unless a rotation falls between
\* its stat and its open (app.py:878).
StreamFollowsLog ==
  ~rotatedUnder =>
    \A i \in 1..Len(sent) - 1 :
      /\ sent[i] < sent[i + 1]
      /\ sent[i + 1] = sent[i] + 1 \/ sent[i + 1] \in Range(opened)
=============================================================================
