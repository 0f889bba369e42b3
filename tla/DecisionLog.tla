---------------------------- MODULE DecisionLog ----------------------------
(***************************************************************************)
(* internal/logging/decision.go, internal/report/report.go and klyr        *)
(* report: the handlers of a gateway append their decisions to one file,   *)
(* through failing writes, crashes and restarts, while another process     *)
(* reads the file and sums it up.                                          *)
(*                                                                         *)
(* Write hands a line to os.File.Write in one piece, and the file's lock   *)
(* lets one handler at a time do so.  The line may still get into the file *)
(* in two steps, or not to its end: then the next one is joined to it.     *)
(* The file is the sequence of its lines, the last of which has no newline *)
(* yet; a line is the sequence of what is left in it of each decision.     *)
(***************************************************************************)
EXTENDS Integers, SequencesExt, FiniteSetsExt, Functions

CONSTANTS
    Handlers,     \* handler goroutines
    Rules, IPs,
    Entries,      \* the decisions handlers come to
    LongEntries,  \* those whose line is longer than a Scanner takes
    Spans,        \* the values of --since; 0 stands for none
    None,
    TopSize,      \* bound of the code: items in a top list
    MaxClock,     \* bound: the clock
    MaxDecisions  \* bound: decisions

Actions == {"allow", "block", "shadow"}

\* What the report reads of a Decision, apart from its time.
Entry == [action : Actions, limited : BOOLEAN, ip : IPs, rules : SUBSET Rules, ms : Nat]

ASSUME LogAssumption ==
    /\ Entries \subseteq Entry /\ LongEntries \subseteq Entries
    /\ Spans \subseteq Nat /\ MaxClock \in Nat
    /\ None \notin Nat \cup Handlers

VARIABLES
    clock,
    decisions, \* all decisions, in the order of their times
    pending,   \* the decision each handler has to write, by its number
    writing,   \* whose line is on its way into the file
    lines,     \* the file
    failed,    \* the decisions whose Write returned an error, or never did
    reader,    \* klyr report: its place in the file, and what it has read
    summary    \* what it came to

vars == <<clock, decisions, pending, writing, lines, failed, reader, summary>>

\* What is left of a decision: all of its JSON, or not.
Piece == [of : DOMAIN decisions, whole : BOOLEAN]

Reading == [since : 0..clock, at : Nat, read : Seq(DOMAIN decisions), opened : Nat]

TypeOK ==
    /\ clock \in 0..MaxClock
    /\ decisions \in Seq([entry : Entries, ts : 0..clock])
    /\ pending \in [Handlers -> DOMAIN decisions \cup {None}]
    /\ writing \in {None} \cup {h \in Handlers : pending[h] # None}
    /\ lines \in Seq(Seq(Piece)) /\ lines # <<>>
    /\ failed \subseteq DOMAIN decisions
    /\ reader \in Reading \cup {None}
    /\ reader # None => reader.at < Len(lines) /\ reader.opened < Len(lines)

Init ==
    /\ clock = 0 /\ decisions = <<>> /\ lines = << <<>> >>
    /\ pending = [h \in Handlers |-> None] /\ writing = None
    /\ failed = {} /\ reader = None /\ summary = None
-----------------------------------------------------------------------------
Tick ==
    /\ clock < MaxClock /\ clock' = clock + 1
    /\ UNCHANGED <<decisions, pending, writing, lines, failed, reader, summary>>

\* A request comes in, which gives the decision its time ...
Decide(h, e) ==
    /\ pending[h] = None /\ Len(decisions) < MaxDecisions
    /\ decisions' = Append(decisions, [entry |-> e, ts |-> clock])
    /\ pending' = [pending EXCEPT ![h] = Len(decisions) + 1]
    /\ UNCHANGED <<clock, writing, lines, failed, reader, summary>>

\* Bytes go to the end of the file, whatever is there (O_APPEND).
Put(piece) == [lines EXCEPT ![Len(lines)] = Append(@, piece)]

\* ... and writes it when it is done: a part of the line, or all but its end, ...
BeginWrite(h) ==
    /\ pending[h] # None /\ writing = None /\ writing' = h
    /\ \E whole \in BOOLEAN : lines' = Put([of |-> pending[h], whole |-> whole])
    /\ UNCHANGED <<clock, decisions, pending, failed, reader, summary>>

\* Variant: the newline is forgotten.
Unended(piece) == [lines EXCEPT ![Len(lines)] = Append(Front(@), piece)]

\* ... then the rest of it, and the newline.
Ended(piece) ==
    Append([lines EXCEPT ![Len(lines)] = Append(Front(@), piece)], <<>>)

EndWrite(h) ==
    /\ writing = h /\ writing' = None
    /\ lines' = Ended([of |-> pending[h], whole |-> TRUE])
    /\ pending' = [pending EXCEPT ![h] = None]
    /\ UNCHANGED <<clock, decisions, failed, reader, summary>>

\* The write stops there, or never began, and writeDecision drops the error.
WriteFails(h) ==
    /\ pending[h] # None /\ writing \in {None, h} /\ writing' = None
    /\ failed' = failed \cup {pending[h]}
    /\ pending' = [pending EXCEPT ![h] = None]
    /\ UNCHANGED <<clock, decisions, lines, reader, summary>>

\* Variant: the log is opened to be written anew.
OpenAnew == << <<>> >>

\* OpenDecisionLog: to append, with what is in the file.
OpenDecisionLog == lines

\* The process ends, and the next one opens the log.
Restart ==
    /\ failed' = failed \cup (Range(pending) \ {None})
    /\ pending' = [h \in Handlers |-> None] /\ writing' = None
    /\ lines' = OpenDecisionLog
    /\ UNCHANGED <<clock, decisions, reader, summary>>
-----------------------------------------------------------------------------
\* Variant: the sign is forgotten.
SinceAhead(span) == IF span = 0 THEN 0 ELSE clock + span

Since(span) == IF span = 0 THEN 0 ELSE clock - span

\* klyr report, --since so long ago.
Report(span) ==
    /\ reader = None /\ span <= clock
    /\ reader' = [since |-> Since(span), at |-> 0, read |-> <<>>,
                  opened |-> Len(lines) - 1]
    /\ summary' = None
    /\ UNCHANGED <<clock, decisions, pending, writing, lines, failed>>

\* json.Unmarshal takes one decision and nothing else; the Scanner a line that
\* is not too long.
Parses(line) ==
    /\ Len(line) = 1 /\ line[1].whole
    /\ decisions[line[1].of].entry \notin LongEntries

\* Variant: the log is in the order of time, and so nothing more is to be read.
RecentTail(read, n, since) == IF decisions[n].ts <= since THEN read ELSE Append(read, n)

\* A decision before since is passed over.
Recent(read, n, since) == IF decisions[n].ts < since THEN read ELSE Append(read, n)

\* How many of the decisions read are among these entries.
Count(read, entries) ==
    Cardinality({i \in DOMAIN read : decisions[read[i]].entry \in entries})

\* Variant: the first and the last line.
SpanOfLines(read) ==
    [start |-> decisions[Head(read)].ts, end |-> decisions[Last(read)].ts]

SpanOf(read) ==
    LET times == {decisions[n].ts : n \in ToSet(read)}
    IN  [start |-> Min(times), end |-> Max(times)]

\* topCounts: by count, and then by key; rules stand for their place in the order.
TopCounts(counts) ==
    LET found == {k \in DOMAIN counts : counts[k] > 0}
        order == SetToSortSeq(found, LAMBDA a, b :
                    counts[a] > counts[b] \/ (counts[a] = counts[b] /\ a < b))
        top == SubSeq(order, 1, Min({TopSize, Len(order)}))
    IN  [i \in DOMAIN top |-> <<top[i], counts[top[i]]>>]

\* sort.Slice: the values in order.
Ordered(values) ==
    LET place == CHOOSE p \in SetToSeqs(DOMAIN values) :
                    \A i, j \in DOMAIN values : i < j => values[p[i]] <= values[p[j]]
    IN  [i \in DOMAIN values |-> values[place[i]]]

Percentile(sorted, percent) == sorted[((Len(sorted) - 1) * percent) \div 100 + 1]

Summarize(read) ==
    IF read = <<>> THEN [total |-> 0]
    ELSE LET latencies == Ordered([i \in DOMAIN read |-> decisions[read[i]].entry.ms])
         IN  [total |-> Len(read),
              span |-> SpanOf(read),
              actions |-> [a \in Actions |-> Count(read, {e \in Entries : e.action = a})],
              limited |-> Count(read, {e \in Entries : e.limited}),
              topRules |-> TopCounts([r \in Rules |->
                              Count(read, {e \in Entries : r \in e.rules})]),
              topLimited |-> TopCounts([ip \in IPs |->
                              Count(read, {e \in Entries : e.limited /\ e.ip = ip})]),
              latency |-> [p \in {50, 95, 99} |-> Percentile(latencies, p)]]

\* The next line: one that ends.
ReadLine ==
    /\ reader # None /\ reader.at + 1 < Len(lines)
    /\ LET line == lines[reader.at + 1]
       IN  /\ line = <<>> \/ Parses(line)
           /\ reader' = [reader EXCEPT !.at = @ + 1,
                    !.read = IF line = <<>> THEN @ ELSE Recent(@, line[1].of, reader.since)]
    /\ UNCHANGED <<clock, decisions, pending, writing, lines, failed, summary>>

\* The end of the file: what is after the last newline is a line too.
Finish ==
    /\ reader # None /\ reader.at + 1 = Len(lines)
    /\ LET line == Last(lines)
           read == IF line = <<>> THEN reader.read
                                  ELSE Recent(reader.read, line[1].of, reader.since)
       IN  /\ line = <<>> \/ Parses(line)
           /\ summary' = [of |-> reader, read |-> read, result |-> Summarize(read)]
    /\ reader' = None
    /\ UNCHANGED <<clock, decisions, pending, writing, lines, failed>>

\* A line that does not parse fails the report as a whole.
ReportFails ==
    /\ reader # None
    /\ LET line == lines[reader.at + 1] IN line # <<>> /\ ~Parses(line)
    /\ reader' = None /\ summary' = [of |-> reader, writing |-> writing]
    /\ UNCHANGED <<clock, decisions, pending, writing, lines, failed>>

Next ==
    \/ Tick
    \/ \E h \in Handlers :
          \/ \E e \in Entries : Decide(h, e)
          \/ BeginWrite(h) \/ EndWrite(h) \/ WriteFails(h)
    \/ Restart
    \/ \E span \in Spans : Report(span)
    \/ ReadLine \/ Finish \/ ReportFails

Spec == Init /\ [][Next]_vars
-----------------------------------------------------------------------------
\* Decision n has a line, which has its newline and holds nothing else.
OwnLine(n) ==
    \E i \in 1..(Len(lines) - 1) : lines[i] = <<[of |-> n, whole |-> TRUE]>>

(***************************************************************************)
(* The log keeps what it has: nothing, not a failed write nor a restart,   *)
(* takes a line away or changes it once it is whole (decision.go:62).      *)
(***************************************************************************)
KeepsLines == [][\A n \in DOMAIN decisions : OwnLine(n) => OwnLine(n)']_vars

\* What decisions left in the file.
Pieces == UNION {ToSet(lines[i]) : i \in DOMAIN lines}

Done(n) == n \notin failed /\ \A h \in Handlers : pending[h] # n

(***************************************************************************)
(* A decision whose Write returned without an error has a line of its own, *)
(* unless it is joined to one that was left torn; and a torn line spoils   *)
(* no more than one decision after it, however many handlers write and     *)
(* however often the process restarts (decision.go:69-78).                 *)
(***************************************************************************)
SpoiledWithTorn ==
    LET torn == {n \in failed : \E p \in Pieces : p.of = n}
    IN  Cardinality({n \in DOMAIN decisions : Done(n) /\ ~OwnLine(n)}) <= Cardinality(torn)

Reported == summary # None /\ "result" \in DOMAIN summary

(***************************************************************************)
(* A report counts each decision once, even of a log that is being         *)
(* written: all those asked for whose lines were in the file when it was   *)
(* opened, and no other than were asked for and written out whole; and its *)
(* totals are those of the actions (report.go:46-125).                     *)
(***************************************************************************)
CountedOnce ==
    Reported =>
        LET read == summary.read
            asked == {n \in DOMAIN decisions : decisions[n].ts >= summary.of.since}
            actions == summary.result.actions
        IN  /\ Cardinality(ToSet(read)) = Len(read)
            /\ ToSet(read) \subseteq {n \in asked : [of |-> n, whole |-> TRUE] \in Pieces}
            /\ {lines[i][1].of : i \in 1..summary.of.opened} \cap asked \subseteq ToSet(read)
            /\ summary.result.total = Len(read)
            /\ read # <<>> =>
                  actions["allow"] + actions["block"] + actions["shadow"] = Len(read)

(***************************************************************************)
(* The time a report covers is that of all its decisions, though handlers  *)
(* end, and write, in another order than they began; and half of the       *)
(* decisions took no longer than its p50, which is no more than the other  *)
(* two (report.go:81-96, 154-181).                                         *)
(***************************************************************************)
SpansAll ==
    Reported /\ summary.read # <<>> =>
        LET d == [i \in DOMAIN summary.read |-> decisions[summary.read[i]]]
            span == summary.result.span
            latency == summary.result.latency
        IN  /\ \A i \in DOMAIN d : span.start <= d[i].ts /\ d[i].ts <= span.end
            /\ {span.start, span.end} \subseteq {d[i].ts : i \in DOMAIN d}
            /\ 2 * Cardinality({i \in DOMAIN d : d[i].entry.ms <= latency[50]}) >= Len(d)
            /\ latency[50] <= latency[95] /\ latency[95] <= latency[99]

(***************************************************************************)
(* A report fails only for a line that is being written, one that a failed *)
(* write or a crash has torn, or one that is too long for the Scanner      *)
(* (report.go:53-71).                                                      *)
(***************************************************************************)
FailsForCause ==
    summary # None /\ ~Reported =>
        \/ summary.writing # None
        \/ failed # {}
        \/ \E n \in DOMAIN decisions : decisions[n].entry \in LongEntries
=============================================================================
