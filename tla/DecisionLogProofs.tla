------------------------- MODULE DecisionLogProofs -------------------------
(***************************************************************************)
(* What DecisionLog keeps, for any number of handlers, decisions, failing  *)
(* writes, crashes, restarts and reports: its types; every line that the   *)
(* file has whole; all decisions but those that were torn, and one with    *)
(* each; until a write fails, a file that a report can read; and reports   *)
(* that count every decision once and cover all that they count.           *)
(***************************************************************************)
EXTENDS DecisionLog, SequenceTheorems, FiniteSetTheorems, TLAPS

\* A sequence over a set is one over a larger set.
LEMMA SeqGrows ==
    ASSUME NEW S, NEW T, S \subseteq T, NEW s \in Seq(S)
    PROVE  s \in Seq(T)
  OBVIOUS

\* Bytes at the end of the last line leave the lines before it alone.
LEMMA LinesPut ==
    ASSUME NEW P, NEW ls \in Seq(Seq(P)), ls # <<>>, NEW p \in P
    PROVE  LET new == [ls EXCEPT ![Len(ls)] = Append(@, p)]
           IN  /\ new \in Seq(Seq(P)) /\ Len(new) = Len(ls)
               /\ \A i \in 1..(Len(ls) - 1) : new[i] = ls[i]
               /\ new[Len(ls)] = Append(ls[Len(ls)], p)
<1> DEFINE new == [ls EXCEPT ![Len(ls)] = Append(@, p)]
<1>1. new \in Seq(Seq(P))
  OBVIOUS
<1>2. Len(new) = Len(ls)
  OBVIOUS
<1>3. ASSUME NEW i \in 1..(Len(ls) - 1) PROVE new[i] = ls[i]
  OBVIOUS
<1>4. new[Len(ls)] = Append(ls[Len(ls)], p)
  OBVIOUS
<1> HIDE DEF new
<1>5. QED
  BY <1>1, <1>2, <1>3, <1>4 DEF new

\* Its end and a newline leave them alone too, and there is one line more.
LEMMA LinesEnded ==
    ASSUME NEW P, NEW ls \in Seq(Seq(P)), ls # <<>>, NEW p \in P
    PROVE  LET new == Append([ls EXCEPT ![Len(ls)] = Append(Front(@), p)], <<>>)
           IN  /\ new \in Seq(Seq(P)) /\ Len(new) = Len(ls) + 1
               /\ \A i \in 1..(Len(ls) - 1) : new[i] = ls[i]
               /\ new[Len(ls)] = Append(Front(ls[Len(ls)]), p)
               /\ new[Len(new)] = <<>>
<1> DEFINE line == Append(Front(ls[Len(ls)]), p)
           mid == [ls EXCEPT ![Len(ls)] = line]
           new == Append(mid, <<>>)
<1>1. Front(ls[Len(ls)]) \in Seq(P)
  BY SubSeqProperties DEF Front
<1>2. line \in Seq(P)
  BY <1>1
<1> HIDE DEF line
<1>3. mid \in Seq(Seq(P))
  BY <1>2
<1>4. Len(mid) = Len(ls)
  OBVIOUS
<1>5. ASSUME NEW i \in 1..(Len(ls) - 1) PROVE mid[i] = ls[i]
  OBVIOUS
<1>6. mid[Len(ls)] = line
  OBVIOUS
<1> HIDE DEF mid
<1>7. /\ new \in Seq(Seq(P)) /\ Len(new) = Len(ls) + 1 /\ new[Len(new)] = <<>>
      /\ \A i \in 1..Len(ls) : new[i] = mid[i]
  BY <1>3, <1>4
<1>8. /\ \A i \in 1..(Len(ls) - 1) : new[i] = ls[i]
      /\ new[Len(ls)] = line
  BY <1>5, <1>6, <1>7
<1> HIDE DEF new
<1>9. QED
  BY <1>7, <1>8, Zenon DEF new, mid, line
-----------------------------------------------------------------------------
\* What a report has read stays a sequence of decisions when there are more of
\* them, and what is in the file a sequence of lines.
LEMMA MoreDecisions ==
    ASSUME TypeOK, Len(decisions') >= Len(decisions),
           DOMAIN decisions \subseteq DOMAIN decisions', clock' \in Nat, clock <= clock'
    PROVE  Piece \subseteq Piece' /\ Seq(Seq(Piece)) \subseteq Seq(Seq(Piece'))
           /\ Reading \subseteq Reading'
<1>1. Piece \subseteq Piece'
  BY DEF Piece
<1>2. Seq(Piece) \subseteq Seq(Piece')
  BY <1>1, SeqMonotonic
<1>3. Seq(Seq(Piece)) \subseteq Seq(Seq(Piece'))
  BY <1>2, SeqMonotonic
<1>4. Seq(DOMAIN decisions) \subseteq Seq(DOMAIN decisions')
  BY SeqMonotonic
<1>5. 0..clock \subseteq 0..clock'
  BY DEF TypeOK
<1>6. Reading \subseteq Reading'
  BY <1>4, <1>5 DEF Reading
<1> QED
  BY <1>1, <1>3, <1>6

(***************************************************************************)
(* Every part of the state keeps its type: no report is ever past the end  *)
(* of the file, and a line on its way belongs to a handler with a decision *)
(* to write (decision.go:57-78, report.go:46-73).                          *)
(***************************************************************************)
THEOREM TypeCorrect == Spec => []TypeOK
<1> USE LogAssumption
<1>1. Init => TypeOK
  <2> SUFFICES ASSUME Init PROVE TypeOK
    OBVIOUS
  <2>1. << >> \in Seq(Piece) /\ << <<>> >> \in Seq(Seq(Piece))
    OBVIOUS
  <2>2. decisions \in Seq([entry : Entries, ts : 0..clock])
    BY DEF Init
  <2> QED
    BY <2>1, <2>2 DEF Init, TypeOK
<1>2. TypeOK /\ [Next]_vars => TypeOK'
  <2> SUFFICES ASSUME TypeOK, [Next]_vars PROVE TypeOK'
    OBVIOUS
  <2>0. /\ clock \in Nat /\ decisions \in Seq([entry : Entries, ts : 0..clock])
        /\ DOMAIN decisions = 1..Len(decisions) /\ Len(decisions) \in Nat
        /\ lines \in Seq(Seq(Piece)) /\ Len(lines) \in Nat \ {0}
    BY DEF TypeOK
  <2>1. CASE Tick
    <3>1. /\ clock' \in 0..MaxClock /\ clock' = clock + 1
          /\ UNCHANGED <<decisions, pending, writing, lines, failed, reader>>
      BY <2>1 DEF Tick, TypeOK
    <3>2. Piece' = Piece /\ Reading \subseteq Reading'
      <4>1. Piece' = Piece
        BY <3>1 DEF Piece
      <4>2. Len(decisions') >= Len(decisions) /\ DOMAIN decisions \subseteq DOMAIN decisions'
        BY <2>0, <3>1
      <4> QED
        BY <2>0, <3>1, <4>1, <4>2, MoreDecisions
    <3>3. decisions' \in Seq([entry : Entries, ts : 0..clock'])
      <4>1. [entry : Entries, ts : 0..clock] \subseteq [entry : Entries, ts : 0..clock']
        BY <2>0, <3>1
      <4>2. Seq([entry : Entries, ts : 0..clock]) \subseteq Seq([entry : Entries, ts : 0..clock'])
        BY <4>1, SeqMonotonic
      <4> QED
        BY <2>0, <3>1, <4>2
    <3> QED
      BY <3>1, <3>2, <3>3 DEF TypeOK
  <2>2. ASSUME NEW h \in Handlers, NEW e \in Entries, Decide(h, e) PROVE TypeOK'
    <3>1. decisions' \in Seq([entry : Entries, ts : 0..clock']) /\ Len(decisions') = Len(decisions) + 1
      BY <2>0, <2>2 DEF Decide
    <3>2. DOMAIN decisions' = 1..(Len(decisions) + 1) /\ UNCHANGED <<clock, writing, lines, failed, reader>>
      BY <2>0, <2>2, <3>1 DEF Decide
    <3>3. Seq(Seq(Piece)) \subseteq Seq(Seq(Piece')) /\ Reading \subseteq Reading'
      BY <2>0, <3>1, <3>2, MoreDecisions
    <3>4. pending' \in [Handlers -> DOMAIN decisions' \cup {None}]
      BY <2>0, <2>2, <3>2 DEF Decide, TypeOK
    <3>5. writing' \in {None} \cup {g \in Handlers : pending'[g] # None}
      BY <2>0, <2>2, <3>2 DEF Decide, TypeOK
    <3> QED
      BY <2>0, <3>1, <3>2, <3>3, <3>4, <3>5 DEF TypeOK
  <2>3. ASSUME NEW h \in Handlers, BeginWrite(h) PROVE TypeOK'
    <3>1. PICK whole \in BOOLEAN : lines' = Put([of |-> pending[h], whole |-> whole])
      BY <2>3 DEF BeginWrite
    <3>2. [of |-> pending[h], whole |-> whole] \in Piece
      BY <2>3 DEF BeginWrite, TypeOK, Piece
    <3>3. lines' \in Seq(Seq(Piece)) /\ Len(lines') = Len(lines)
      BY <2>0, <3>1, <3>2, LinesPut DEF Put
    <3>4. Piece' = Piece /\ Reading' = Reading
      BY <2>3 DEF BeginWrite, Piece, Reading
    <3> QED
      BY <2>0, <2>3, <3>3, <3>4 DEF BeginWrite, TypeOK
  <2>4. ASSUME NEW h \in Handlers, EndWrite(h) PROVE TypeOK'
    <3>1. [of |-> pending[h], whole |-> TRUE] \in Piece
      BY <2>4 DEF EndWrite, TypeOK, Piece
    <3>2. lines' \in Seq(Seq(Piece)) /\ Len(lines') = Len(lines) + 1
      BY <2>0, <2>4, <3>1, LinesEnded DEF EndWrite, Ended
    <3>3. Piece' = Piece /\ Reading' = Reading
      BY <2>4 DEF EndWrite, Piece, Reading
    <3>4. reader' # None => reader'.at \in Nat /\ reader'.opened \in Nat
      BY <2>4 DEF EndWrite, TypeOK, Reading
    <3> QED
      BY <2>0, <2>4, <3>2, <3>3, <3>4, SMTT(40) DEF EndWrite, TypeOK
  <2>5. ASSUME NEW h \in Handlers, WriteFails(h) PROVE TypeOK'
    <3>1. Piece' = Piece /\ Reading' = Reading
      BY <2>5 DEF WriteFails, Piece, Reading
    <3> QED
      BY <2>5, <3>1 DEF WriteFails, TypeOK
  <2>6. CASE Restart
    <3>1. Piece' = Piece /\ Reading' = Reading
      BY <2>6 DEF Restart, Piece, Reading
    <3>2. Range(pending) \ {None} \subseteq DOMAIN decisions
      BY DEF TypeOK, Range
    <3> QED
      BY <2>6, <3>1, <3>2 DEF Restart, OpenDecisionLog, TypeOK
  <2>7. ASSUME NEW span \in Spans, Report(span) PROVE TypeOK'
    <3>1. Piece' = Piece /\ Reading' = Reading
      BY <2>7 DEF Report, Piece, Reading
    <3>2. Since(span) \in 0..clock
      BY <2>0, <2>7 DEF Report, Since
    <3>3. << >> \in Seq(DOMAIN decisions)
      OBVIOUS
    <3>4. reader' \in Reading /\ reader'.at < Len(lines) /\ reader'.opened < Len(lines)
      BY <2>0, <2>7, <3>2, <3>3 DEF Report, Reading
    <3> QED
      BY <2>7, <3>1, <3>4 DEF Report, TypeOK
  <2>8. CASE ReadLine
    <3> DEFINE line == lines[reader.at + 1]
    <3>1. Piece' = Piece /\ Reading' = Reading
      BY <2>8 DEF ReadLine, Piece, Reading
    <3>2. /\ reader \in Reading /\ reader.at + 1 < Len(lines)
          /\ reader' = [reader EXCEPT !.at = @ + 1,
                 !.read = IF line = <<>> THEN @ ELSE Recent(@, line[1].of, reader.since)]
          /\ line = <<>> \/ Parses(line)
      BY <2>8 DEF ReadLine, TypeOK
    <3>3. line \in Seq(Piece)
      BY <2>0, <3>2 DEF Reading
    <3> HIDE DEF line
    <3>4. line # <<>> => line[1].of \in DOMAIN decisions
      <4>1. line # <<>> => 1 \in DOMAIN line
        BY <3>3
      <4>2. line # <<>> => line[1] \in Piece
        BY <3>3, <4>1
      <4> QED
        BY <4>2 DEF Piece
    <3>5. line # <<>> => Recent(reader.read, line[1].of, reader.since) \in Seq(DOMAIN decisions)
      <4>1. reader.read \in Seq(DOMAIN decisions)
        BY <3>2 DEF Reading
      <4>2. ASSUME NEW n \in DOMAIN decisions
            PROVE  Append(reader.read, n) \in Seq(DOMAIN decisions)
        BY <4>1
      <4>3. ASSUME NEW n \in DOMAIN decisions
            PROVE  Recent(reader.read, n, reader.since) \in Seq(DOMAIN decisions)
        BY <4>1, <4>2, Zenon DEF Recent
      <4> QED
        BY <3>4, <4>3
    <3> DEFINE next == IF line = <<>> THEN reader.read
                                      ELSE Recent(reader.read, line[1].of, reader.since)
    <3>6. next \in Seq(DOMAIN decisions)
      BY <3>2, <3>5 DEF Reading
    <3>7. reader' = [reader EXCEPT !.at = @ + 1, !.read = next]
      BY <3>2
    <3> HIDE DEF next
    <3>8. reader' \in Reading /\ reader'.at = reader.at + 1 /\ reader'.opened = reader.opened
      <4>1. reader' = [since |-> reader.since, at |-> reader.at + 1, read |-> next,
                       opened |-> reader.opened]
        BY <3>2, <3>7 DEF Reading
      <4>2. /\ reader.since \in 0..clock /\ reader.at + 1 \in Nat /\ reader.opened \in Nat
        BY <3>2 DEF Reading
      <4> QED
        BY <3>6, <4>1, <4>2 DEF Reading
    <3> QED
      BY <2>8, <3>1, <3>2, <3>8 DEF ReadLine, TypeOK
  <2>9. CASE Finish
    <3>1. Piece' = Piece /\ Reading' = Reading
      BY <2>9 DEF Finish, Piece, Reading
    <3> QED
      BY <2>9, <3>1 DEF Finish, TypeOK
  <2>10. CASE ReportFails
    <3>1. Piece' = Piece /\ Reading' = Reading
      BY <2>10 DEF ReportFails, Piece, Reading
    <3> QED
      BY <2>10, <3>1 DEF ReportFails, TypeOK
  <2>11. CASE UNCHANGED vars
    BY <2>11 DEF vars, TypeOK, Piece, Reading
  <2> QED
    BY <2>1, <2>2, <2>3, <2>4, <2>5, <2>6, <2>7, <2>8, <2>9, <2>10, <2>11 DEF Next
<1> QED
  BY <1>1, <1>2, PTL DEF Spec
-----------------------------------------------------------------------------
\* No step takes a line away, nor changes one that has its newline.
LEMMA LinesKept ==
    ASSUME TypeOK, [Next]_vars
    PROVE  /\ Len(lines') \in Nat /\ Len(lines') >= Len(lines)
           /\ \A i \in 1..(Len(lines) - 1) : lines'[i] = lines[i]
<1>0. lines \in Seq(Seq(Piece)) /\ lines # <<>> /\ Len(lines) \in Nat \ {0}
  BY DEF TypeOK
<1>1. ASSUME NEW h \in Handlers, BeginWrite(h)
      PROVE  Len(lines') = Len(lines) /\ \A i \in 1..(Len(lines) - 1) : lines'[i] = lines[i]
  <2>1. PICK whole \in BOOLEAN : lines' = Put([of |-> pending[h], whole |-> whole])
    BY <1>1 DEF BeginWrite
  <2>2. [of |-> pending[h], whole |-> whole] \in Piece
    BY <1>1 DEF BeginWrite, TypeOK, Piece
  <2> QED
    BY <1>0, <2>1, <2>2, LinesPut DEF Put
<1>2. ASSUME NEW h \in Handlers, EndWrite(h)
      PROVE  Len(lines') = Len(lines) + 1 /\ \A i \in 1..(Len(lines) - 1) : lines'[i] = lines[i]
  <2>1. [of |-> pending[h], whole |-> TRUE] \in Piece
    BY <1>2, LogAssumption DEF EndWrite, TypeOK, Piece
  <2> QED
    BY <1>0, <1>2, <2>1, LinesEnded DEF EndWrite, Ended
<1>3. \/ \E h \in Handlers : BeginWrite(h) \/ EndWrite(h)
      \/ lines' = lines
  BY DEF Next, vars, Tick, Decide, WriteFails, Restart, OpenDecisionLog, Report,
         ReadLine, Finish, ReportFails
<1>4. CASE lines' = lines
  BY <1>0, <1>4
<1> QED
  BY <1>0, <1>1, <1>2, <1>3, <1>4

(***************************************************************************)
(* The log keeps every whole line it has, through failed writes, crashes   *)
(* and restarts (decision.go:62).                                          *)
(***************************************************************************)
THEOREM LogKept == Spec => KeepsLines
<1> DEFINE Kept == \A n \in DOMAIN decisions : OwnLine(n) => OwnLine(n)'
<1>1. TypeOK /\ [Next]_vars => Kept
  <2> SUFFICES ASSUME TypeOK, [Next]_vars, NEW n \in DOMAIN decisions, OwnLine(n)
               PROVE  OwnLine(n)'
    OBVIOUS
  <2>1. PICK i \in 1..(Len(lines) - 1) : lines[i] = <<[of |-> n, whole |-> TRUE]>>
    BY DEF OwnLine
  <2>2. /\ Len(lines') \in Nat /\ Len(lines') >= Len(lines)
        /\ \A j \in 1..(Len(lines) - 1) : lines'[j] = lines[j]
    BY LinesKept
  <2>3. i \in 1..(Len(lines') - 1)
    <3>1. Len(lines) \in Nat
      BY DEF TypeOK
    <3> QED
      BY ONLY <2>2, <3>1, i \in 1..(Len(lines) - 1)
  <2>4. lines'[i] = <<[of |-> n, whole |-> TRUE]>>
    BY <2>1, <2>2
  <2> QED
    BY <2>3, <2>4 DEF OwnLine
<1>2. TypeOK /\ [Next]_vars => [Kept]_vars
  BY <1>1
<1> HIDE DEF Kept
<1>3. Spec => [][Kept]_vars
  BY <1>2, TypeCorrect, PTL DEF Spec
<1> QED
  BY <1>3 DEF KeepsLines, Kept
-----------------------------------------------------------------------------
\* Until a write fails, every line that ends is one decision, and what comes
\* after them is of the handler that is writing.
Sound ==
    failed = {} =>
        /\ \A i \in 1..(Len(lines) - 1) : Len(lines[i]) = 1 /\ lines[i][1].whole
        /\ writing = None => lines[Len(lines)] = <<>>
        /\ writing # None => Len(lines[Len(lines)]) = 1

LEMMA SoundAlways == Spec => []Sound
<1> USE LogAssumption
<1>1. Init => Sound
  BY DEF Init, Sound
<1>2. TypeOK /\ Sound /\ [Next]_vars => Sound'
  <2> SUFFICES ASSUME TypeOK, Sound, [Next]_vars, failed' = {} PROVE Sound'
    BY DEF Sound
  <2>0. lines \in Seq(Seq(Piece)) /\ lines # <<>> /\ Len(lines) \in Nat \ {0}
    BY DEF TypeOK
  <2>1. ASSUME NEW h \in Handlers, BeginWrite(h) PROVE Sound'
    <3>1. PICK whole \in BOOLEAN : lines' = Put([of |-> pending[h], whole |-> whole])
      BY <2>1 DEF BeginWrite
    <3> DEFINE piece == [of |-> pending[h], whole |-> whole]
    <3>2. piece \in Piece
      BY <2>1 DEF BeginWrite, TypeOK, Piece
    <3>3. /\ Len(lines') = Len(lines)
          /\ \A i \in 1..(Len(lines) - 1) : lines'[i] = lines[i]
          /\ lines'[Len(lines)] = Append(lines[Len(lines)], piece)
      BY <2>0, <3>1, <3>2, LinesPut DEF Put
    <3> HIDE DEF piece
    <3>4. failed = {} /\ lines[Len(lines)] = <<>> /\ writing' # None
      BY <2>1 DEF BeginWrite, Sound
    <3>5. Len(Append(<<>>, piece)) = 1
      OBVIOUS
    <3> QED
      BY <2>0, <3>3, <3>4, <3>5 DEF Sound
  <2>2. ASSUME NEW h \in Handlers, EndWrite(h) PROVE Sound'
    <3> DEFINE piece == [of |-> pending[h], whole |-> TRUE]
    <3>1. piece \in Piece
      BY <2>2 DEF EndWrite, TypeOK, Piece
    <3>2. /\ lines' \in Seq(Seq(Piece)) /\ Len(lines') = Len(lines) + 1
          /\ \A i \in 1..(Len(lines) - 1) : lines'[i] = lines[i]
          /\ lines'[Len(lines)] = Append(Front(lines[Len(lines)]), piece)
          /\ lines'[Len(lines')] = <<>>
      BY <2>0, <2>2, <3>1, LinesEnded DEF EndWrite, Ended
    <3>3. piece.whole
      OBVIOUS
    <3> HIDE DEF piece
    <3>4. failed = {} /\ writing' = None /\ Len(lines[Len(lines)]) = 1
      BY <2>2 DEF EndWrite, Sound
    <3>5. Front(lines[Len(lines)]) = <<>>
      BY <2>0, <3>4, SubSeqEmpty DEF Front
    <3>6. Append(<<>>, piece) = <<piece>> /\ Len(<<piece>>) = 1 /\ <<piece>>[1] = piece
      OBVIOUS
    <3>7. \A i \in 1..Len(lines) : i = Len(lines) \/ i \in 1..(Len(lines) - 1)
      BY <2>0
    <3>8. \A i \in 1..Len(lines) : Len(lines'[i]) = 1 /\ lines'[i][1].whole
      <4>1. Len(lines'[Len(lines)]) = 1 /\ lines'[Len(lines)][1].whole
        BY <3>2, <3>3, <3>5, <3>6
      <4>2. \A i \in 1..(Len(lines) - 1) : Len(lines'[i]) = 1 /\ lines'[i][1].whole
        BY <3>2, <3>4 DEF Sound
      <4> QED
        BY <3>7, <4>1, <4>2
    <3> QED
      BY <2>0, <3>2, <3>4, <3>8 DEF Sound
  <2>3. ASSUME NEW h \in Handlers, WriteFails(h) PROVE Sound'
    BY <2>3 DEF WriteFails
  <2>4. CASE Restart
    <3>1. failed = {} /\ Range(pending) \ {None} = {}
      BY <2>4 DEF Restart
    <3>2. writing = None
      BY <3>1 DEF TypeOK, Range
    <3> QED
      BY <2>4, <3>1, <3>2 DEF Restart, OpenDecisionLog, Sound
  <2>5. CASE UNCHANGED <<writing, lines, failed>>
    BY <2>5 DEF Sound
  <2> QED
    BY <2>1, <2>2, <2>3, <2>4, <2>5
       DEF Next, vars, Tick, Decide, Report, ReadLine, Finish, ReportFails
<1> QED
  BY <1>1, <1>2, TypeCorrect, PTL DEF Spec

(***************************************************************************)
(* A report fails only for a line that is being written, one that a failed *)
(* write or a crash has torn, or one that is too long for the Scanner      *)
(* (report.go:53-71).                                                      *)
(***************************************************************************)
THEOREM FailuresHaveCause == Spec => []FailsForCause
<1> USE LogAssumption
<1>1. Init => FailsForCause
  BY DEF Init, FailsForCause
<1>2. TypeOK /\ Sound /\ FailsForCause /\ [Next]_vars => FailsForCause'
  <2> SUFFICES ASSUME TypeOK, Sound, FailsForCause, [Next]_vars PROVE FailsForCause'
    OBVIOUS
  <2>0. /\ decisions \in Seq([entry : Entries, ts : 0..clock])
        /\ lines \in Seq(Seq(Piece)) /\ Len(lines) \in Nat \ {0}
    BY DEF TypeOK
  <2> DEFINE Cause == \/ failed # {}
                      \/ \E n \in DOMAIN decisions : decisions[n].entry \in LongEntries
  <2>1. CASE ReportFails
    <3> DEFINE line == lines[reader.at + 1]
    <3>1. /\ line # <<>> /\ ~Parses(line) /\ summary'.writing = writing
          /\ reader.at + 1 \in 1..Len(lines)
      BY <2>0, <2>1 DEF ReportFails, TypeOK, Reading
    <3>2. SUFFICES ASSUME writing = None, failed = {}
                   PROVE  \E n \in DOMAIN decisions : decisions[n].entry \in LongEntries
      BY <2>1, <3>1 DEF ReportFails, FailsForCause
    <3>3. reader.at + 1 \in 1..(Len(lines) - 1)
      <4>1. lines[Len(lines)] = <<>>
        BY <3>2 DEF Sound
      <4>2. reader.at + 1 # Len(lines)
        BY <3>1, <4>1
      <4> QED
        BY <2>0, <3>1, <4>2
    <3>4. Len(line) = 1 /\ line[1].whole
      BY <3>2, <3>3 DEF Sound
    <3>5. line \in Seq(Piece)
      BY <2>0, <3>1
    <3> HIDE DEF line
    <3>6. line[1].of \in DOMAIN decisions
      <4>1. line[1] \in Piece
        BY <3>4, <3>5
      <4> QED
        BY <4>1 DEF Piece
    <3> QED
      BY <3>1, <3>4, <3>6 DEF Parses
  <2>2. CASE Finish \/ \E span \in Spans : Report(span)
    BY <2>2 DEF Finish, Report, FailsForCause, Reported
  <2>3. CASE UNCHANGED summary
    <3>1. Cause => Cause'
      <4>1. failed # {} => failed' # {}
        BY DEF Next, vars, Tick, Decide, BeginWrite, EndWrite, WriteFails, Restart, Report,
               ReadLine, Finish, ReportFails
      <4>2. \A n \in DOMAIN decisions : n \in DOMAIN decisions' /\ decisions'[n] = decisions[n]
        <5>1. CASE decisions' = decisions
          BY <5>1
        <5>2. ASSUME NEW h \in Handlers, NEW e \in Entries, Decide(h, e)
              PROVE  \A n \in DOMAIN decisions :
                        n \in DOMAIN decisions' /\ decisions'[n] = decisions[n]
          BY <2>0, <5>2 DEF Decide
        <5> QED
          BY <5>1, <5>2 DEF Next, vars, Tick, BeginWrite, EndWrite, WriteFails, Restart,
                            Report, ReadLine, Finish, ReportFails
      <4> QED
        BY <4>1, <4>2
    <3> QED
      BY <2>3, <3>1 DEF FailsForCause, Reported
  <2> QED
    BY <2>1, <2>2, <2>3
       DEF Next, vars, Tick, Decide, BeginWrite, EndWrite, WriteFails, Restart, ReadLine
<1> QED
  BY <1>1, <1>2, TypeCorrect, SoundAlways, PTL DEF Spec
-----------------------------------------------------------------------------
\* A decision lies in one place of the file at most; it is there only when its
\* handler has begun to write it.
OnePlace ==
    \A i, k \in 1..Len(lines) : \A j \in 1..Len(lines[i]), l \in 1..Len(lines[k]) :
        lines[i][j].of = lines[k][l].of => i = k /\ j = l

Unwritten ==
    \A h \in Handlers : pending[h] # None /\ writing # h =>
        \A i \in 1..Len(lines) : \A j \in 1..Len(lines[i]) : lines[i][j].of # pending[h]

\* Handlers have decisions of their own, none of which has failed yet.
OwnDecisions ==
    \A h \in Handlers : pending[h] # None =>
        /\ pending[h] \notin failed
        /\ \A g \in Handlers : pending[g] = pending[h] => g = h

\* What is before the last of a line that ends was torn, as is all of the line
\* that does not, apart from what is being written.
TornBefore ==
    \A i \in 1..Len(lines) : \A j \in 1..Len(lines[i]) :
        j < Len(lines[i]) \/ (i = Len(lines) /\ writing = None)
            => lines[i][j].of \in failed

InWriting ==
    writing # None =>
        /\ lines[Len(lines)] # <<>>
        /\ lines[Len(lines)][Len(lines[Len(lines)])].of = pending[writing]

\* A decision that has left its handler failed, or ends a line.
Ends(n) ==
    \E i \in 1..(Len(lines) - 1) :
        /\ lines[i] # <<>>
        /\ lines[i][Len(lines[i])] = [of |-> n, whole |-> TRUE]

Accounted ==
    \A n \in DOMAIN decisions :
        n \in failed \/ (\E h \in Handlers : pending[h] = n) \/ Ends(n)

Laid ==
    OnePlace /\ Unwritten /\ OwnDecisions /\ TornBefore /\ InWriting /\ Accounted

LEMMA LaidBegun ==
    ASSUME TypeOK, Laid, NEW h \in Handlers, BeginWrite(h)
    PROVE  Laid'
<1> DEFINE L == Len(lines)
           N == Len(lines[L])
<1>1. PICK whole \in BOOLEAN : lines' = Put([of |-> pending[h], whole |-> whole])
  BY DEF BeginWrite
<1> DEFINE piece == [of |-> pending[h], whole |-> whole]
<1>2. piece \in Piece /\ piece.of = pending[h]
  BY DEF BeginWrite, TypeOK, Piece
<1>3. lines \in Seq(Seq(Piece)) /\ lines # <<>> /\ L \in Nat \ {0} /\ N \in Nat
  BY DEF TypeOK
<1>4. /\ lines' \in Seq(Seq(Piece)) /\ Len(lines') = L
      /\ \A i \in 1..(L - 1) : lines'[i] = lines[i]
      /\ lines'[L] = Append(lines[L], piece)
  BY <1>1, <1>2, <1>3, LinesPut DEF Put
<1> HIDE DEF piece
<1>5. /\ Len(lines'[L]) = N + 1 /\ lines'[L][N + 1] = piece
      /\ \A j \in 1..N : lines'[L][j] = lines[L][j]
  <2>1. lines[L] \in Seq(Piece)
    BY <1>3
  <2> QED
    BY <1>2, <1>4, <2>1
<1>6. /\ pending[h] # None /\ writing = None /\ writing' = h
      /\ UNCHANGED <<decisions, pending, failed>>
  BY DEF BeginWrite
<1>7. \A i \in 1..L : Len(lines[i]) \in Nat
  BY <1>3
<1> DEFINE New(i, j) == i = L /\ j = N + 1
<1>8. ASSUME NEW i \in 1..L, NEW j \in 1..Len(lines'[i])
      PROVE  \/ New(i, j) /\ lines'[i][j] = piece
             \/ ~New(i, j) /\ j \in 1..Len(lines[i]) /\ lines'[i][j] = lines[i][j]
  <2>1. CASE i = L
    BY <1>3, <1>5, <2>1
  <2>2. CASE i # L
    <3>1. i \in 1..(L - 1)
      BY <1>3, <2>2
    <3> QED
      BY <1>4, <2>2, <3>1
  <2> QED
    BY <2>1, <2>2
<1>9. \A i \in 1..L : \A j \in 1..Len(lines[i]) : lines[i][j].of # pending[h]
  BY <1>6, LogAssumption DEF Laid, Unwritten
<1> HIDE DEF New
<1>10. OnePlace'
  <2> SUFFICES ASSUME NEW i \in 1..L, NEW k \in 1..L,
                      NEW j \in 1..Len(lines'[i]), NEW l \in 1..Len(lines'[k]),
                      lines'[i][j].of = lines'[k][l].of
               PROVE  i = k /\ j = l
    BY <1>4 DEF OnePlace
  <2>1. CASE New(i, j) /\ New(k, l)
    BY <2>1 DEF New
  <2>2. CASE New(i, j) /\ ~New(k, l)
    BY <1>2, <1>8, <1>9, <2>2
  <2>3. CASE ~New(i, j) /\ New(k, l)
    BY <1>2, <1>8, <1>9, <2>3
  <2>4. CASE ~New(i, j) /\ ~New(k, l)
    <3>1. lines[i][j].of = lines[k][l].of /\ j \in 1..Len(lines[i]) /\ l \in 1..Len(lines[k])
      BY <1>8, <2>4
    <3> QED
      BY <1>7, <3>1 DEF Laid, OnePlace
  <2> QED
    BY <2>1, <2>2, <2>3, <2>4
<1>11. Unwritten'
  <2> SUFFICES ASSUME NEW g \in Handlers, pending[g] # None, g # h,
                      NEW i \in 1..L, NEW j \in 1..Len(lines'[i])
               PROVE  lines'[i][j].of # pending[g]
    BY <1>4, <1>6 DEF Unwritten
  <2>1. pending[g] # pending[h]
    BY DEF Laid, OwnDecisions
  <2>2. None \notin Handlers
    BY LogAssumption
  <2>3. \A k \in 1..L : \A l \in 1..Len(lines[k]) : lines[k][l].of # pending[g]
    BY <1>6, <2>2 DEF Laid, Unwritten
  <2> QED
    BY <1>2, <1>8, <2>1, <2>3
<1>12. OwnDecisions'
  BY <1>6 DEF Laid, OwnDecisions
<1>13. TornBefore'
  <2>1. writing' # None
    BY <1>6, LogAssumption
  <2> SUFFICES ASSUME NEW i \in 1..L, NEW j \in 1..Len(lines'[i]), j < Len(lines'[i])
               PROVE  lines'[i][j].of \in failed
    BY <1>4, <1>6, <1>7, <2>1 DEF TornBefore
  <2>2. ~New(i, j)
    BY <1>3, <1>5 DEF New
  <2>3. j \in 1..Len(lines[i]) /\ lines'[i][j] = lines[i][j]
    BY <1>8, <2>2
  <2>4. CASE i = L
    BY <1>6, <1>7, <2>3, <2>4 DEF Laid, TornBefore
  <2>5. CASE i # L
    <3>1. lines'[i] = lines[i]
      BY <1>3, <1>4, <2>5
    <3> QED
      BY <1>7, <2>3, <3>1 DEF Laid, TornBefore
  <2> QED
    BY <2>4, <2>5
<1>14. InWriting'
  <2>1. lines'[L] # <<>>
    BY <1>3, <1>5
  <2> QED
    BY <1>2, <1>4, <1>5, <1>6, <2>1 DEF InWriting
<1>15. Accounted'
  <2>1. ASSUME NEW n, Ends(n) PROVE Ends(n)'
    BY <1>4, <2>1 DEF Ends
  <2> QED
    BY <1>6, <2>1 DEF Laid, Accounted
<1> QED
  BY <1>10, <1>11, <1>12, <1>13, <1>14, <1>15 DEF Laid

\* A line that ends gets its last piece whole, and keeps the others.
LEMMA EndedLine ==
    ASSUME TypeOK, Laid, NEW h \in Handlers, EndWrite(h)
    PROVE  LET L == Len(lines)
               N == Len(lines[L])
               piece == [of |-> pending[h], whole |-> TRUE]
           IN  /\ lines \in Seq(Seq(Piece)) /\ L \in Nat \ {0} /\ N \in Nat \ {0}
               /\ lines' \in Seq(Seq(Piece)) /\ Len(lines') = L + 1
               /\ \A i \in 1..(L - 1) : lines'[i] = lines[i]
               /\ lines'[L + 1] = <<>>
               /\ Len(lines'[L]) = N /\ lines'[L][N] = piece
               /\ \A j \in 1..(N - 1) : lines'[L][j] = lines[L][j]
               /\ lines[L][N].of = pending[h]
<1> DEFINE L == Len(lines)
           N == Len(lines[L])
           piece == [of |-> pending[h], whole |-> TRUE]
<1>1. writing = h /\ lines' = Ended(piece)
  BY DEF EndWrite
<1>2. piece \in Piece
  BY <1>1, LogAssumption DEF TypeOK, Piece
<1>3. lines \in Seq(Seq(Piece)) /\ lines # <<>> /\ L \in Nat \ {0} /\ N \in Nat
  BY DEF TypeOK
<1>4. /\ lines' \in Seq(Seq(Piece)) /\ Len(lines') = L + 1
      /\ \A i \in 1..(L - 1) : lines'[i] = lines[i]
      /\ lines'[L] = Append(Front(lines[L]), piece) /\ lines'[L + 1] = <<>>
  BY <1>1, <1>2, <1>3, LinesEnded DEF Ended
<1>5. N # 0 /\ lines[L][N].of = pending[h]
  BY <1>1, <1>3, LogAssumption DEF Laid, InWriting
<1>6. /\ Len(lines'[L]) = N /\ lines'[L][N] = piece
      /\ \A j \in 1..(N - 1) : lines'[L][j] = lines[L][j]
  <2>1. lines[L] \in Seq(Piece)
    BY <1>3
  <2> DEFINE front == Front(lines[L])
  <2>2. /\ front \in Seq(Piece) /\ Len(front) = N - 1
        /\ \A j \in 1..(N - 1) : front[j] = lines[L][j]
    BY <1>3, <1>5, <2>1, SubSeqProperties DEF Front
  <2>3. lines'[L] = Append(front, piece)
    BY <1>4
  <2> HIDE DEF front
  <2> QED
    BY <1>2, <1>3, <1>5, <2>2, <2>3
<1> QED BY <1>3, <1>4, <1>5, <1>6

LEMMA LaidEnded ==
    ASSUME TypeOK, Laid, NEW h \in Handlers, EndWrite(h)
    PROVE  Laid'
<1> DEFINE L == Len(lines)
           N == Len(lines[L])
           piece == [of |-> pending[h], whole |-> TRUE]
<1>1. /\ writing = h /\ writing' = None
      /\ pending' = [pending EXCEPT ![h] = None] /\ UNCHANGED <<decisions, failed>>
  BY DEF EndWrite
<1>2. pending[h] # None /\ piece.of = pending[h]
  BY <1>1, LogAssumption DEF TypeOK
<1>0. /\ lines \in Seq(Seq(Piece)) /\ L \in Nat \ {0} /\ N \in Nat \ {0}
      /\ lines' \in Seq(Seq(Piece)) /\ Len(lines') = L + 1
      /\ \A i \in 1..(L - 1) : lines'[i] = lines[i]
      /\ lines'[L + 1] = <<>>
      /\ Len(lines'[L]) = N /\ lines'[L][N] = piece
      /\ \A j \in 1..(N - 1) : lines'[L][j] = lines[L][j]
      /\ lines[L][N].of = pending[h]
  BY EndedLine, Zenon
<1> HIDE DEF piece
<1>3. lines \in Seq(Seq(Piece)) /\ lines # <<>> /\ L \in Nat \ {0} /\ N \in Nat
  BY <1>0
<1>4. /\ Len(lines') = L + 1 /\ lines'[L + 1] = <<>>
      /\ \A i \in 1..(L - 1) : lines'[i] = lines[i]
  BY <1>0
<1>5. N # 0 /\ lines[L][N].of = pending[h]
  BY <1>0
<1>6. /\ Len(lines'[L]) = N /\ lines'[L][N] = piece
      /\ \A j \in 1..(N - 1) : lines'[L][j] = lines[L][j]
  BY <1>0
<1>7. \A i \in 1..L : Len(lines[i]) \in Nat
  BY <1>3
<1>8. ASSUME NEW i \in 1..(L + 1), NEW j \in 1..Len(lines'[i])
      PROVE  /\ i \in 1..L /\ Len(lines'[i]) = Len(lines[i]) /\ j \in 1..Len(lines[i])
             /\ lines'[i][j].of = lines[i][j].of
  <2>1. i # L + 1
    BY <1>4
  <2>2. CASE i = L
    <3>1. Len(lines'[i]) = N /\ j \in 1..N
      BY <1>6, <2>2
    <3>2. CASE j = N
      <4>1. lines'[i][j].of = lines[i][j].of
        BY <1>2, <1>5, <1>6, <2>2, <3>2
      <4> QED
        BY <1>3, <2>2, <3>1, <4>1
    <3>3. CASE j # N
      <4>1. j \in 1..(N - 1)
        BY <1>3, <3>1, <3>3
      <4>2. lines'[i][j] = lines[i][j]
        BY <1>6, <2>2, <4>1
      <4> QED
        BY <1>3, <2>2, <3>1, <4>2
    <3> QED
      BY <3>2, <3>3
  <2>3. CASE i # L
    <3>1. i \in 1..(L - 1) /\ i \in 1..L
      BY <1>3, <2>1, <2>3
    <3>2. lines'[i] = lines[i]
      BY <1>4, <3>1
    <3> QED
      BY <3>1, <3>2
  <2> QED
    BY <2>2, <2>3
<1>9. \A g \in Handlers : g # h => pending'[g] = pending[g]
  BY <1>1 DEF TypeOK
<1>10. pending'[h] = None
  BY <1>1 DEF TypeOK
<1>11. OnePlace'
  <2> SUFFICES ASSUME NEW i \in 1..(L + 1), NEW k \in 1..(L + 1),
                      NEW j \in 1..Len(lines'[i]), NEW l \in 1..Len(lines'[k]),
                      lines'[i][j].of = lines'[k][l].of
               PROVE  i = k /\ j = l
    BY <1>4 DEF OnePlace
  <2> QED
    BY <1>7, <1>8 DEF Laid, OnePlace
<1>12. Unwritten'
  <2> SUFFICES ASSUME NEW g \in Handlers, pending'[g] # None,
                      NEW i \in 1..(L + 1), NEW j \in 1..Len(lines'[i])
               PROVE  lines'[i][j].of # pending'[g]
    BY <1>4 DEF Unwritten
  <2>1. g # h /\ pending'[g] = pending[g]
    BY <1>9, <1>10
  <2> QED
    BY <1>1, <1>7, <1>8, <2>1 DEF Laid, Unwritten
<1>13. OwnDecisions'
  BY <1>1, <1>9, <1>10 DEF Laid, OwnDecisions
<1>14. TornBefore'
  <2> SUFFICES ASSUME NEW i \in 1..(L + 1), NEW j \in 1..Len(lines'[i]),
                      j < Len(lines'[i]) \/ i = L + 1
               PROVE  lines'[i][j].of \in failed
    BY <1>1, <1>4, <1>7 DEF TornBefore
  <2>1. /\ i \in 1..L /\ j \in 1..Len(lines[i]) /\ j < Len(lines[i])
        /\ lines'[i][j].of = lines[i][j].of
    BY <1>3, <1>8
  <2> QED
    BY <2>1 DEF Laid, TornBefore
<1>15. InWriting'
  BY <1>1 DEF InWriting
<1>16. Accounted'
  <2>1. ASSUME NEW n, Ends(n) PROVE Ends(n)'
    <3>1. PICK i \in 1..(L - 1) : lines[i] # <<>> /\ lines[i][Len(lines[i])] = [of |-> n, whole |-> TRUE]
      BY <2>1 DEF Ends
    <3>2. i \in 1..(Len(lines') - 1) /\ lines'[i] = lines[i]
      BY <1>3, <1>4, <3>1
    <3> QED
      BY <3>1, <3>2 DEF Ends
  <2>2. ASSUME NEW n, n = pending[h] PROVE Ends(n)'
    <3>1. L \in 1..(Len(lines') - 1)
      BY <1>3, <1>4
    <3>2. lines'[L] # <<>>
      BY <1>3, <1>5, <1>6
    <3>3. lines'[L][Len(lines'[L])] = [of |-> n, whole |-> TRUE]
      BY <1>6, <2>2 DEF piece
    <3> QED
      BY <3>1, <3>2, <3>3 DEF Ends
  <2> SUFFICES ASSUME NEW n \in DOMAIN decisions
               PROVE  n \in failed \/ (\E g \in Handlers : pending'[g] = n) \/ Ends(n)'
    BY <1>1 DEF Accounted
  <2>3. n \in failed \/ (\E g \in Handlers : pending[g] = n) \/ Ends(n)
    BY DEF Laid, Accounted
  <2> QED
    BY <1>9, <2>1, <2>2, <2>3
<1> QED
  BY <1>11, <1>12, <1>13, <1>14, <1>15, <1>16 DEF Laid

LEMMA LaidAlways == Spec => []Laid
<1> USE LogAssumption
<1>1. Init => Laid
  <2> SUFFICES ASSUME Init PROVE Laid
    OBVIOUS
  <2>1. Len(lines) = 1 /\ Len(lines[1]) = 0
    BY DEF Init
  <2>2. writing = None /\ DOMAIN decisions = {} /\ \A h \in Handlers : pending[h] = None
    BY DEF Init
  <2> QED
    BY <2>1, <2>2
       DEF Laid, OnePlace, Unwritten, OwnDecisions, TornBefore, InWriting, Accounted
<1>2. TypeOK /\ Laid /\ [Next]_vars => Laid'
  <2> SUFFICES ASSUME TypeOK, Laid, [Next]_vars PROVE Laid'
    OBVIOUS
  <2>0. /\ lines \in Seq(Seq(Piece)) /\ Len(lines) \in Nat \ {0}
        /\ \A i \in 1..Len(lines) : Len(lines[i]) \in Nat
        /\ decisions \in Seq([entry : Entries, ts : 0..clock])
    BY DEF TypeOK
  <2>1. ASSUME NEW h \in Handlers, NEW e \in Entries, Decide(h, e) PROVE Laid'
    <3> DEFINE new == Len(decisions) + 1
    <3>1. /\ pending[h] = None /\ pending'[h] = new
          /\ \A g \in Handlers : g # h => pending'[g] = pending[g]
          /\ UNCHANGED <<writing, lines, failed>>
      BY <2>1 DEF Decide, TypeOK
    <3>2. DOMAIN decisions' = DOMAIN decisions \cup {new} /\ new \notin DOMAIN decisions
      BY <2>0, <2>1 DEF Decide
    <3> HIDE DEF new
    <3>3. \A i \in 1..Len(lines) : \A j \in 1..Len(lines[i]) : lines[i][j].of \in DOMAIN decisions
      <4> SUFFICES ASSUME NEW i \in 1..Len(lines), NEW j \in 1..Len(lines[i])
                   PROVE  lines[i][j].of \in DOMAIN decisions
        OBVIOUS
      <4>1. lines[i][j] \in Piece
        BY <2>0
      <4> QED
        BY <4>1 DEF Piece
    <3>4. failed \subseteq DOMAIN decisions
          /\ \A g \in Handlers : pending[g] # None => pending[g] \in DOMAIN decisions
      BY DEF TypeOK
    <3>5. OnePlace' /\ TornBefore'
      BY <3>1 DEF Laid, OnePlace, TornBefore
    <3>6. Unwritten'
      BY <3>1, <3>2, <3>3 DEF Laid, Unwritten
    <3>7. OwnDecisions'
      BY <3>1, <3>2, <3>4 DEF Laid, OwnDecisions
    <3>8. InWriting'
      <4>1. writing # None => writing \in Handlers /\ writing # h
        BY <3>1 DEF TypeOK
      <4> QED
        BY <3>1, <4>1 DEF Laid, InWriting
    <3>9. Accounted'
      <4>1. \A n : Ends(n) => Ends(n)'
        BY <3>1 DEF Ends
      <4>2. \A n \in DOMAIN decisions, g \in Handlers : pending[g] = n => pending'[g] = n
        <5>1. None \notin DOMAIN decisions
          BY <2>0
        <5> QED
          BY <3>1, <5>1
      <4> SUFFICES ASSUME NEW n \in DOMAIN decisions'
                   PROVE  n \in failed' \/ (\E g \in Handlers : pending'[g] = n) \/ Ends(n)'
        BY DEF Accounted
      <4>3. CASE n = new
        BY <3>1, <4>3
      <4>4. CASE n \in DOMAIN decisions
        BY <3>1, <4>1, <4>2, <4>4 DEF Laid, Accounted
      <4> QED
        BY <3>2, <4>3, <4>4
    <3> QED
      BY <3>5, <3>6, <3>7, <3>8, <3>9 DEF Laid
  <2>2. ASSUME NEW h \in Handlers, BeginWrite(h) PROVE Laid'
    BY <2>2, LaidBegun
  <2>3. ASSUME NEW h \in Handlers, EndWrite(h) PROVE Laid'
    BY <2>3, LaidEnded
  <2>4. ASSUME NEW h \in Handlers, WriteFails(h) PROVE Laid'
    <3>1. /\ pending[h] # None /\ writing \in {None, h} /\ writing' = None
          /\ failed' = failed \cup {pending[h]} /\ pending'[h] = None
          /\ \A g \in Handlers : g # h => pending'[g] = pending[g]
          /\ UNCHANGED <<lines, decisions>>
      BY <2>4 DEF WriteFails, TypeOK
    <3>2. OnePlace'
      BY <3>1 DEF Laid, OnePlace
    <3>3. Unwritten'
      BY <3>1 DEF Laid, Unwritten
    <3>4. OwnDecisions'
      BY <3>1 DEF Laid, OwnDecisions
    <3>5. TornBefore'
      <4> SUFFICES ASSUME NEW i \in 1..Len(lines), NEW j \in 1..Len(lines[i]),
                          j < Len(lines[i]) \/ i = Len(lines)
                   PROVE  lines[i][j].of \in failed \cup {pending[h]}
        BY <3>1 DEF TornBefore
      <4>1. CASE j < Len(lines[i]) \/ writing = None
        BY <4>1 DEF Laid, TornBefore
      <4>2. CASE j = Len(lines[i]) /\ i = Len(lines) /\ writing = h
        BY <4>2 DEF Laid, InWriting
      <4> QED
        BY <2>0, <3>1, <4>1, <4>2
    <3>6. InWriting'
      BY <3>1 DEF InWriting
    <3>7. Accounted'
      <4>1. \A n : Ends(n) => Ends(n)'
        BY <3>1 DEF Ends
      <4> QED
        BY <3>1, <4>1 DEF Laid, Accounted
    <3> QED
      BY <3>2, <3>3, <3>4, <3>5, <3>6, <3>7 DEF Laid
  <2>5. CASE Restart
    <3>1. /\ \A g \in Handlers : pending'[g] = None
          /\ \A g \in Handlers : pending[g] # None => pending[g] \in failed'
          /\ failed \subseteq failed' /\ writing' = None /\ UNCHANGED <<lines, decisions>>
      BY <2>5 DEF Restart, OpenDecisionLog, TypeOK, Range
    <3>2. OnePlace' /\ Unwritten' /\ OwnDecisions' /\ InWriting'
      BY <3>1 DEF Laid, OnePlace, Unwritten, OwnDecisions, InWriting
    <3>3. TornBefore'
      <4> SUFFICES ASSUME NEW i \in 1..Len(lines), NEW j \in 1..Len(lines[i]),
                          j < Len(lines[i]) \/ i = Len(lines)
                   PROVE  lines[i][j].of \in failed'
        BY <3>1 DEF TornBefore
      <4>1. CASE j < Len(lines[i]) \/ writing = None
        BY <3>1, <4>1 DEF Laid, TornBefore
      <4>2. CASE j = Len(lines[i]) /\ i = Len(lines) /\ writing # None
        <5>1. writing \in Handlers /\ pending[writing] # None
          BY <4>2 DEF TypeOK
        <5> QED
          BY <3>1, <4>2, <5>1 DEF Laid, InWriting
      <4> QED
        BY <2>0, <4>1, <4>2
    <3>4. Accounted'
      <4>1. \A n : Ends(n) => Ends(n)'
        BY <3>1 DEF Ends
      <4>2. \A n \in DOMAIN decisions, g \in Handlers : pending[g] = n => n \in failed'
        BY <2>0, <3>1
      <4> QED
        BY <3>1, <4>1, <4>2 DEF Laid, Accounted
    <3> QED
      BY <3>2, <3>3, <3>4 DEF Laid
  <2>6. CASE UNCHANGED <<decisions, pending, writing, lines, failed>>
    BY <2>6 DEF Laid, OnePlace, Unwritten, OwnDecisions, TornBefore, InWriting, Accounted, Ends
  <2> QED
    BY <2>1, <2>2, <2>3, <2>4, <2>5, <2>6
       DEF Next, vars, Tick, Report, ReadLine, Finish, ReportFails
<1> QED
  BY <1>1, <1>2, TypeCorrect, PTL DEF Spec

(***************************************************************************)
(* A decision whose Write returned without an error has a line of its own, *)
(* unless it is joined to one that was left torn; and a torn line spoils   *)
(* no more than one decision after it (decision.go:69-78).                 *)
(***************************************************************************)
THEOREM TornSpoilsOne == Spec => []SpoiledWithTorn
<1>1. TypeOK /\ Laid => SpoiledWithTorn
  <2> SUFFICES ASSUME TypeOK, Laid PROVE SpoiledWithTorn
    OBVIOUS
  <2> DEFINE Spoiled == {n \in DOMAIN decisions : Done(n) /\ ~OwnLine(n)}
             Torn == {n \in failed : \E p \in Pieces : p.of = n}
             home == [n \in Spoiled |-> CHOOSE i \in 1..(Len(lines) - 1) :
                                           /\ lines[i] # <<>>
                                           /\ lines[i][Len(lines[i])] = [of |-> n, whole |-> TRUE]]
             spoiler == [n \in Spoiled |-> lines[home[n]][1].of]
  <2>1. lines \in Seq(Seq(Piece)) /\ Len(lines) \in Nat \ {0}
        /\ \A i \in 1..Len(lines) : lines[i] \in Seq(Piece)
    BY DEF TypeOK
  <2>2. ASSUME NEW n \in Spoiled
        PROVE  /\ ~OwnLine(n) /\ home[n] \in 1..(Len(lines) - 1)
               /\ lines[home[n]] # <<>>
               /\ lines[home[n]][Len(lines[home[n]])] = [of |-> n, whole |-> TRUE]
    <3>1. Ends(n)
      BY DEF Laid, Accounted, Done
    <3> QED
      BY <3>1 DEF Ends
  <2> HIDE DEF home, Spoiled
  <2>3. ASSUME NEW n \in Spoiled PROVE home[n] \in 1..Len(lines)
    <3>1. \A i \in 1..(Len(lines) - 1) : i \in 1..Len(lines)
      BY <2>1
    <3> QED
      BY <2>2, <3>1, Zenon
  <2>4. ASSUME NEW n \in Spoiled
        PROVE  Len(lines[home[n]]) > 1 /\ 1 \in 1..Len(lines[home[n]])
    <3> DEFINE line == lines[home[n]]
    <3>1. line \in Seq(Piece) /\ Len(line) \in Nat \ {0}
      <4>1. home[n] \in 1..Len(lines) /\ line # <<>>
        BY <2>2, <2>3, Zenon
      <4>2. line \in Seq(Piece)
        BY <2>1, <4>1
      <4> HIDE DEF line
      <4> QED
        BY <4>1, <4>2
    <3>2. ASSUME Len(line) = 1 PROVE FALSE
      <4>1. line = <<line[1]>>
        BY <3>1, <3>2
      <4>2. line = <<[of |-> n, whole |-> TRUE]>>
        BY <2>2, <3>2, <4>1
      <4> QED
        BY <2>2, <4>2 DEF OwnLine
    <3> HIDE DEF line
    <3>3. Len(line) > 1 /\ 1 \in 1..Len(line)
      <4>1. \A k \in Nat \ {0} : k # 1 => k > 1 /\ 1 \in 1..k
        OBVIOUS
      <4> QED
        BY <3>1, <3>2, <4>1, Zenon
    <3> QED
      BY <3>3 DEF line
  <2>5. ASSUME NEW n \in Spoiled PROVE spoiler[n] \in Torn
    <3>1. home[n] \in 1..Len(lines)
      BY <2>3
    <3>2. lines[home[n]][1].of \in failed
      BY <2>4, <3>1 DEF Laid, TornBefore
    <3>3. lines[home[n]][1] \in Pieces
      <4>1. 1 \in DOMAIN lines[home[n]] /\ home[n] \in DOMAIN lines
        BY <2>1, <2>4, <3>1
      <4> QED
        BY <4>1 DEF Pieces, ToSet
    <3> QED
      BY <3>2, <3>3
  <2>6. ASSUME NEW n \in Spoiled, NEW m \in Spoiled, spoiler[n] = spoiler[m] PROVE n = m
    <3>1. home[n] \in 1..Len(lines) /\ home[m] \in 1..Len(lines)
      BY <2>3
    <3>2. home[n] = home[m]
      BY <2>4, <2>6, <3>1 DEF Laid, OnePlace
    <3>3. [of |-> n, whole |-> TRUE].of = [of |-> m, whole |-> TRUE].of
      BY <2>2, <3>2
    <3> QED
      BY <3>3
  <2>7. IsFiniteSet(Torn)
    <3>1. IsFiniteSet(1..Len(decisions)) /\ DOMAIN decisions = 1..Len(decisions)
      BY FS_Interval DEF TypeOK
    <3>2. Torn \in SUBSET (1..Len(decisions))
      BY <3>1 DEF TypeOK
    <3> HIDE DEF Torn
    <3> QED
      BY <3>1, <3>2, FS_Subset
  <2> HIDE DEF Torn
  <2>8. spoiler \in Injection(Spoiled, Torn)
    BY <2>5, <2>6 DEF Injection, IsInjective
  <2>9. Cardinality(Spoiled) <= Cardinality(Torn)
    <3> HIDE DEF spoiler
    <3> QED
      BY <2>7, <2>8, FS_Injection
  <2> QED
    BY <2>9 DEF SpoiledWithTorn, Spoiled, Torn
<1> QED
  BY <1>1, TypeCorrect, LaidAlways, PTL
-----------------------------------------------------------------------------
(***************************************************************************)
(* Reports.  What is read up to a line, of the decisions since a time:     *)
(* each of them once, as it is on a line of its own, and all of them.      *)
(***************************************************************************)
ReadUpTo(read, since, n) ==
    /\ read \in Seq(DOMAIN decisions)
    /\ \A i, j \in 1..Len(read) : read[i] = read[j] => i = j
    /\ \A i \in 1..Len(read) :
          /\ decisions[read[i]].ts >= since
          /\ \E k \in 1..n : lines[k] = <<[of |-> read[i], whole |-> TRUE]>>
    /\ \A k \in 1..n :
          lines[k] # <<>> /\ decisions[lines[k][1].of].ts >= since
              => \E i \in 1..Len(read) : read[i] = lines[k][1].of

Reads == reader # None => ReadUpTo(reader.read, reader.since, reader.at)

\* A line that ends is not empty.
NoEmpty == \A i \in 1..(Len(lines) - 1) : lines[i] # <<>>

\* A report holds of what it was about, and of all that has come since.
Summed ==
    Reported =>
        LET read == summary.read
            since == summary.of.since
            actions == summary.result.actions
        IN  /\ summary.of.opened \in Nat /\ summary.of.opened < Len(lines)
            /\ since \in Nat
            /\ read \in Seq(DOMAIN decisions)
            /\ Cardinality(ToSet(read)) = Len(read)
            /\ \A i \in 1..Len(read) :
                  /\ decisions[read[i]].ts >= since
                  /\ [of |-> read[i], whole |-> TRUE] \in Pieces
            /\ \A k \in 1..summary.of.opened :
                  decisions[lines[k][1].of].ts >= since
                      => \E i \in 1..Len(read) : read[i] = lines[k][1].of
            /\ summary.result.total = Len(read)
            /\ read # <<>> =>
                  actions["allow"] + actions["block"] + actions["shadow"] = Len(read)

CountInv == NoEmpty /\ Reads /\ Summed

LEMMA DecisionType ==
    ASSUME TypeOK, NEW n \in DOMAIN decisions
    PROVE  decisions[n].entry \in Entries /\ decisions[n].ts \in Nat
<1>1. decisions \in Seq([entry : Entries, ts : 0..clock]) /\ clock \in Nat
  BY LogAssumption DEF TypeOK
<1>2. PICK S : S = [entry : Entries, ts : 0..clock]
  OBVIOUS
<1>3. decisions \in Seq(S)
  BY <1>1, <1>2
<1>4. decisions[n] \in S
  BY <1>3
<1> QED BY <1>1, <1>2, <1>4

\* Every decision has one action.
LEMMA ActionsAddUp ==
    ASSUME TypeOK, NEW read \in Seq(DOMAIN decisions)
    PROVE  Count(read, {e \in Entries : e.action = "allow"})
           + Count(read, {e \in Entries : e.action = "block"})
           + Count(read, {e \in Entries : e.action = "shadow"}) = Len(read)
<1> DEFINE With(a) == {i \in DOMAIN read :
                          decisions[read[i]].entry \in {e \in Entries : e.action = a}}
<1>1. PICK A, B, C : A = With("allow") /\ B = With("block") /\ C = With("shadow")
  OBVIOUS
<1>2. A \cup B \cup C = 1..Len(read) /\ A \cap B = {} /\ (A \cup B) \cap C = {}
  <2>1. ASSUME NEW i \in 1..Len(read)
        PROVE  /\ decisions[read[i]].entry \in Entries
               /\ decisions[read[i]].entry.action \in {"allow", "block", "shadow"}
    <3>1. decisions[read[i]].entry \in Entries
      BY DecisionType
    <3> QED BY <3>1, LogAssumption DEF Entry, Actions
  <2> QED BY <1>1, <2>1
<1>3. IsFiniteSet(1..Len(read)) /\ Cardinality(1..Len(read)) = Len(read)
  <2>1. PICK n \in Nat : n = Len(read)
    OBVIOUS
  <2>2. IsFiniteSet(1..n) /\ Cardinality(1..n) = n
    BY FS_Interval
  <2> QED BY <2>1, <2>2
<1>4. IsFiniteSet(A) /\ IsFiniteSet(B) /\ IsFiniteSet(C)
  BY <1>2, <1>3, FS_Subset
<1>5. Cardinality({}) = 0
  BY FS_EmptySet
<1>6. ASSUME NEW S, NEW T, IsFiniteSet(S), IsFiniteSet(T), S \cap T = {}
      PROVE  /\ IsFiniteSet(S \cup T)
             /\ Cardinality(S \cup T) = Cardinality(S) + Cardinality(T)
  <2>1. /\ IsFiniteSet(S \cup T)
        /\ Cardinality(S \cup T) = Cardinality(S) + Cardinality(T) - Cardinality({})
    BY <1>6, FS_Union
  <2>2. Cardinality(S) \in Nat /\ Cardinality(T) \in Nat
    BY <1>6, FS_CardinalityType
  <2> QED BY <1>5, <2>1, <2>2
<1>7. Len(read) = Cardinality(A) + Cardinality(B) + Cardinality(C)
  <2>1. /\ IsFiniteSet(A \cup B)
        /\ Cardinality(A \cup B) = Cardinality(A) + Cardinality(B)
    BY <1>2, <1>4, <1>6
  <2>2. Cardinality((A \cup B) \cup C) = Cardinality(A \cup B) + Cardinality(C)
    BY <1>2, <1>4, <1>6, <2>1
  <2> QED BY <1>2, <1>3, <2>1, <2>2
<1> QED BY <1>1, <1>7 DEF Count

LEMMA TotalsOf ==
    ASSUME NEW read, read # <<>>
    PROVE  /\ Summarize(read).total = Len(read)
           /\ \A a \in Actions : Summarize(read).actions[a]
                 = Count(read, {e \in Entries : e.action = a})
  BY DEF Summarize

\* One line more.
LEMMA ReadMore ==
    ASSUME TypeOK, OnePlace, NEW read, NEW since \in Nat, NEW n \in Nat,
           n + 1 <= Len(lines), ReadUpTo(read, since, n),
           lines[n + 1] = <<>> \/ Parses(lines[n + 1])
    PROVE  ReadUpTo(IF lines[n + 1] = <<>> THEN read
                    ELSE Recent(read, lines[n + 1][1].of, since), since, n + 1)
<1>1. /\ lines \in Seq(Seq(Piece)) /\ Len(lines) \in Nat /\ n + 1 \in 1..Len(lines)
      /\ lines[n + 1] \in Seq(Piece)
      /\ \A k \in 1..(n + 1) : k = n + 1 \/ k \in 1..n
      /\ \A k \in 1..n : k \in 1..(n + 1) /\ k \in 1..Len(lines) /\ k # n + 1
  BY DEF TypeOK
<1>2. CASE lines[n + 1] = <<>>
  BY <1>1, <1>2 DEF ReadUpTo
<1>3. CASE lines[n + 1] # <<>>
  <2>1. PICK m \in DOMAIN decisions : lines[n + 1] = <<[of |-> m, whole |-> TRUE]>>
    <3>1. Len(lines[n + 1]) = 1 /\ lines[n + 1][1].whole
      BY <1>3 DEF Parses
    <3>2. lines[n + 1][1] \in Piece
      BY <1>1, <3>1
    <3>3. PICK m \in DOMAIN decisions, w \in BOOLEAN : lines[n + 1][1] = [of |-> m, whole |-> w]
      BY <3>2 DEF Piece
    <3>4. w = TRUE
      BY <3>1, <3>3
    <3>5. lines[n + 1] = <<lines[n + 1][1]>>
      BY <1>1, <3>1
    <3> QED BY <3>3, <3>4, <3>5
  <2>2. lines[n + 1][1].of = m
    BY <2>1
  <2>3. decisions[m].ts \in Nat
    BY DecisionType
  <2>4. CASE decisions[m].ts < since
    <3>1. Recent(read, m, since) = read
      BY <2>4 DEF Recent
    <3>2. ~(decisions[lines[n + 1][1].of].ts >= since)
      BY <2>2, <2>3, <2>4
    <3>3. /\ read \in Seq(DOMAIN decisions)
          /\ \A i, j \in 1..Len(read) : read[i] = read[j] => i = j
      BY DEF ReadUpTo
    <3>4. ASSUME NEW i \in 1..Len(read)
          PROVE  /\ decisions[read[i]].ts >= since
                 /\ \E k \in 1..(n + 1) : lines[k] = <<[of |-> read[i], whole |-> TRUE]>>
      BY <1>1 DEF ReadUpTo
    <3>5. ASSUME NEW k \in 1..(n + 1), lines[k] # <<>>, decisions[lines[k][1].of].ts >= since
          PROVE  \E i \in 1..Len(read) : read[i] = lines[k][1].of
      <4>1. k \in 1..n
        BY <1>1, <3>2, <3>5
      <4> QED BY <3>5, <4>1 DEF ReadUpTo
    <3>6. ReadUpTo(read, since, n + 1)
      BY <3>3, <3>4, <3>5 DEF ReadUpTo
    <3> QED BY <1>3, <2>2, <3>1, <3>6
  <2>5. CASE ~(decisions[m].ts < since)
    <3>1. PICK next : next = Append(read, m)
      OBVIOUS
    <3>2. Recent(read, m, since) = next
      BY <2>5, <3>1 DEF Recent
    <3>3. /\ read \in Seq(DOMAIN decisions) /\ next \in Seq(DOMAIN decisions)
          /\ Len(read) \in Nat /\ Len(next) = Len(read) + 1 /\ next[Len(read) + 1] = m
          /\ \A i \in 1..Len(read) : i \in 1..Len(next) /\ next[i] = read[i]
          /\ \A i \in 1..Len(next) : i = Len(read) + 1 \/ i \in 1..Len(read)
      BY <3>1 DEF ReadUpTo
    <3>4. ASSUME NEW i \in 1..Len(read) PROVE read[i] # m
      <4>1. PICK k \in 1..n : lines[k] = <<[of |-> read[i], whole |-> TRUE]>>
        BY DEF ReadUpTo
      <4>2. lines[k][1].of = read[i] /\ 1 \in 1..Len(lines[k]) /\ 1 \in 1..Len(lines[n + 1])
        BY <2>1, <4>1
      <4> QED BY <1>1, <2>2, <4>2 DEF OnePlace
    <3>5. \A i, j \in 1..Len(next) : next[i] = next[j] => i = j
      BY <3>3, <3>4 DEF ReadUpTo
    <3>6. ASSUME NEW i \in 1..Len(next)
          PROVE  /\ decisions[next[i]].ts >= since
                 /\ \E k \in 1..(n + 1) : lines[k] = <<[of |-> next[i], whole |-> TRUE]>>
      <4>1. CASE i = Len(read) + 1
        <5>1. next[i] = m /\ decisions[m].ts >= since
          BY <2>3, <2>5, <3>3, <4>1
        <5>2. n + 1 \in 1..(n + 1)
          OBVIOUS
        <5> QED BY <2>1, <5>1, <5>2
      <4>2. CASE i \in 1..Len(read)
        BY <1>1, <3>3, <4>2 DEF ReadUpTo
      <4> QED BY <3>3, <4>1, <4>2
    <3>7. ASSUME NEW k \in 1..(n + 1), lines[k] # <<>>, decisions[lines[k][1].of].ts >= since
          PROVE  \E i \in 1..Len(next) : next[i] = lines[k][1].of
      <4>1. CASE k = n + 1
        BY <2>2, <3>3, <4>1
      <4>2. CASE k \in 1..n
        BY <3>3, <3>7, <4>2 DEF ReadUpTo
      <4> QED BY <1>1, <4>1, <4>2
    <3>8. ReadUpTo(next, since, n + 1)
      BY <3>3, <3>5, <3>6, <3>7 DEF ReadUpTo
    <3> QED BY <1>3, <2>2, <3>2, <3>8
  <2> QED BY <2>4, <2>5
<1> QED BY <1>2, <1>3

\* What is in the file whole stays there.
LEMMA PiecesKept ==
    ASSUME TypeOK, Laid, [Next]_vars, NEW n, [of |-> n, whole |-> TRUE] \in Pieces
    PROVE  [of |-> n, whole |-> TRUE] \in Pieces'
<1> DEFINE L == Len(lines)
           N == Len(lines[L])
<1>1. PICK p : p = [of |-> n, whole |-> TRUE]
  OBVIOUS
<1>2. /\ lines \in Seq(Seq(Piece)) /\ lines # <<>> /\ L \in Nat \ {0} /\ N \in Nat
      /\ \A i \in 1..L : lines[i] \in Seq(Piece)
  BY DEF TypeOK
<1>3. PICK i \in 1..L : \E j \in 1..Len(lines[i]) : lines[i][j] = p
  <2>1. p \in UNION {ToSet(lines[i]) : i \in DOMAIN lines}
    BY <1>1 DEF Pieces
  <2>2. PICK i \in DOMAIN lines : p \in ToSet(lines[i])
    BY <2>1
  <2>3. i \in 1..L /\ lines[i] \in Seq(Piece)
    BY <1>2
  <2>4. PICK j \in DOMAIN lines[i] : lines[i][j] = p
    BY <2>2 DEF ToSet
  <2> QED BY <2>3, <2>4
<1>4. PICK j \in 1..Len(lines[i]) : lines[i][j] = p
  BY <1>3
<1>5. SUFFICES ASSUME NEW ls, ls = lines'
               PROVE  i \in DOMAIN ls /\ \E k \in DOMAIN ls[i] : ls[i][k] = p
  BY <1>1 DEF Pieces, ToSet
<1>6. ASSUME NEW h \in Handlers, BeginWrite(h)
      PROVE  i \in DOMAIN ls /\ \E k \in DOMAIN ls[i] : ls[i][k] = p
  <2>1. PICK whole \in BOOLEAN : lines' = Put([of |-> pending[h], whole |-> whole])
    BY <1>6 DEF BeginWrite
  <2>2. PICK new \in Piece : new = [of |-> pending[h], whole |-> whole]
    BY <1>6 DEF BeginWrite, TypeOK, Piece
  <2>3. /\ ls \in Seq(Seq(Piece)) /\ Len(ls) = L
        /\ \A k \in 1..(L - 1) : ls[k] = lines[k]
        /\ ls[L] = Append(lines[L], new)
    BY <1>2, <1>5, <2>1, <2>2, LinesPut DEF Put
  <2>4. CASE i = L
    <3>1. PICK line \in Seq(Piece) : line = lines[L]
      BY <1>2
    <3>2. PICK longer : longer = Append(line, new)
      OBVIOUS
    <3>3. j \in 1..Len(line) /\ line[j] = p
      BY <1>4, <2>4, <3>1
    <3>4. j \in DOMAIN longer /\ longer[j] = p
      BY <2>2, <3>2, <3>3
    <3>5. ls[i] = longer /\ i \in DOMAIN ls
      BY <2>3, <2>4, <3>1, <3>2
    <3> QED BY <3>4, <3>5
  <2>5. CASE i # L
    <3>1. i \in 1..(L - 1)
      BY <1>2, <2>5
    <3> QED BY <1>2, <1>4, <2>3, <3>1, SMTT(40)
  <2> QED BY <2>4, <2>5
<1>7. ASSUME NEW h \in Handlers, EndWrite(h)
      PROVE  i \in DOMAIN ls /\ \E k \in DOMAIN ls[i] : ls[i][k] = p
  <2>1. PICK end : end = [of |-> pending[h], whole |-> TRUE]
    OBVIOUS
  <2>2. /\ ls \in Seq(Seq(Piece)) /\ Len(ls) = L + 1 /\ N # 0
        /\ \A k \in 1..(L - 1) : ls[k] = lines[k]
        /\ Len(ls[L]) = N /\ ls[L][N] = end
        /\ \A k \in 1..(N - 1) : ls[L][k] = lines[L][k]
        /\ lines[L][N].of = pending[h]
    BY <1>5, <1>7, <2>1, EndedLine
  <2>3. i \in DOMAIN ls /\ ls[i] \in Seq(Piece)
    BY <1>2, <2>2
  <2>4. CASE i # L
    <3>1. i \in 1..(L - 1)
      BY <1>2, <2>4
    <3>2. ls[i] = lines[i]
      BY <2>2, <3>1
    <3> QED BY <1>2, <1>4, <2>3, <3>2
  <2>5. CASE i = L /\ j # N
    <3>1. j \in 1..(N - 1) /\ j \in 1..Len(ls[i])
      BY <1>2, <1>4, <2>2, <2>5
    <3> QED BY <1>4, <2>2, <2>3, <2>5, <3>1
  <2>6. CASE i = L /\ j = N
    <3>1. lines[L][N].of = n
      BY <1>1, <1>4, <2>6
    <3>2. ls[i][N] = p /\ N \in 1..Len(ls[i])
      BY <1>1, <1>2, <2>1, <2>2, <2>6, <3>1
    <3> QED BY <2>3, <3>2
  <2> QED BY <2>4, <2>5, <2>6
<1>8. CASE lines' = lines
  BY <1>2, <1>4, <1>5, <1>8
<1> QED BY <1>6, <1>7, <1>8
        DEF Next, vars, Tick, Decide, WriteFails, Restart, OpenDecisionLog, Report,
            ReadLine, Finish, ReportFails

LEMMA DecisionsKept ==
    ASSUME TypeOK, [Next]_vars
    PROVE  \A n \in DOMAIN decisions : n \in DOMAIN decisions' /\ decisions'[n] = decisions[n]
<1>1. ASSUME NEW h \in Handlers, NEW e \in Entries, Decide(h, e)
      PROVE  \A n \in DOMAIN decisions : n \in DOMAIN decisions' /\ decisions'[n] = decisions[n]
  <2>1. decisions \in Seq([entry : Entries, ts : 0..clock])
    BY DEF TypeOK
  <2> QED BY <1>1, <2>1 DEF Decide
<1>2. CASE decisions' = decisions
  BY <1>2
<1> QED BY <1>1, <1>2
        DEF Next, vars, Tick, BeginWrite, EndWrite, WriteFails, Restart, Report,
            ReadLine, Finish, ReportFails

LEMMA DistinctCount ==
    ASSUME NEW S, NEW s \in Seq(S), \A i, j \in 1..Len(s) : s[i] = s[j] => i = j
    PROVE  Cardinality(ToSet(s)) = Len(s)
<1>1. PICK n \in Nat : n = Len(s) /\ DOMAIN s = 1..n
  OBVIOUS
<1>2. IsFiniteSet(1..n) /\ Cardinality(1..n) = n
  BY FS_Interval
<1>3. PICK T : T = ToSet(s)
  OBVIOUS
<1>4. s \in Bijection(1..n, T)
  <2>1. \A i \in 1..n : s[i] \in T
    BY <1>1, <1>3 DEF ToSet
  <2>2. \A t \in T : \E i \in 1..n : s[i] = t
    BY <1>1, <1>3 DEF ToSet
  <2>3. s \in [1..n -> T]
    BY <1>1, <2>1
  <2> QED BY <1>1, <2>2, <2>3 DEF Bijection, Injection, Surjection, IsInjective
<1>5. ExistsBijection(1..n, T)
  BY <1>4 DEF ExistsBijection
<1> QED BY <1>1, <1>2, <1>3, <1>5, FS_Bijection

\* The decision that a line of the file begins with.
LEMMA FirstOf ==
    ASSUME TypeOK, NEW k \in 1..Len(lines), lines[k] # <<>>
    PROVE  lines[k][1].of \in DOMAIN decisions
<1>1. PICK line \in Seq(Piece) : line = lines[k]
  BY DEF TypeOK
<1>2. line[1] \in Piece
  BY <1>1
<1> QED BY <1>1, <1>2 DEF Piece

\* No step changes what was read.
LEMMA ReadKept ==
    ASSUME TypeOK, [Next]_vars, NEW read, NEW since, NEW n \in Nat, n < Len(lines),
           ReadUpTo(read, since, n)
    PROVE  ReadUpTo(read, since, n)'
<1>1. /\ Len(lines) \in Nat
      /\ \A k \in 1..n : k \in 1..(Len(lines) - 1) /\ k \in 1..Len(lines)
  BY DEF TypeOK
<1>2. \A k \in 1..n : lines'[k] = lines[k]
  BY <1>1, LinesKept
<1>3. \A m \in DOMAIN decisions : m \in DOMAIN decisions' /\ decisions'[m] = decisions[m]
  BY DecisionsKept
<1>4. /\ read \in Seq(DOMAIN decisions')
      /\ \A i \in 1..Len(read) : read[i] \in DOMAIN decisions
  BY <1>3 DEF ReadUpTo
<1>5. \A k \in 1..n : lines[k] # <<>> => lines[k][1].of \in DOMAIN decisions
  BY <1>1, FirstOf
<1>6. ASSUME NEW i \in 1..Len(read)
      PROVE  /\ decisions'[read[i]].ts >= since
             /\ \E k \in 1..n : lines'[k] = <<[of |-> read[i], whole |-> TRUE]>>
  <2>1. decisions'[read[i]] = decisions[read[i]]
    BY <1>3, <1>4
  <2>2. PICK k \in 1..n : lines[k] = <<[of |-> read[i], whole |-> TRUE]>>
    BY DEF ReadUpTo
  <2>3. lines'[k] = <<[of |-> read[i], whole |-> TRUE]>>
    BY <1>2, <2>2
  <2> QED BY <2>1, <2>3 DEF ReadUpTo
<1>7. ASSUME NEW k \in 1..n, lines'[k] # <<>>, decisions'[lines'[k][1].of].ts >= since
      PROVE  \E i \in 1..Len(read) : read[i] = lines'[k][1].of
  <2>1. lines'[k] = lines[k] /\ decisions'[lines[k][1].of] = decisions[lines[k][1].of]
    BY <1>2, <1>3, <1>5, <1>7
  <2> QED BY <1>7, <2>1 DEF ReadUpTo
<1>8. \A i, j \in 1..Len(read) : read[i] = read[j] => i = j
  BY DEF ReadUpTo
<1> QED BY <1>4, <1>6, <1>7, <1>8 DEF ReadUpTo

LEMMA NoEmptyNext ==
    ASSUME TypeOK, Laid, NoEmpty, [Next]_vars
    PROVE  NoEmpty'
<1>1. lines \in Seq(Seq(Piece)) /\ lines # <<>> /\ Len(lines) \in Nat \ {0}
  BY DEF TypeOK
<1>2. \A i \in 1..(Len(lines) - 1) : lines'[i] # <<>>
  BY LinesKept DEF NoEmpty
<1>3. ASSUME NEW h \in Handlers, BeginWrite(h) PROVE NoEmpty'
  <2>1. PICK whole \in BOOLEAN : lines' = Put([of |-> pending[h], whole |-> whole])
    BY <1>3 DEF BeginWrite
  <2>2. PICK new \in Piece : new = [of |-> pending[h], whole |-> whole]
    BY <1>3 DEF BeginWrite, TypeOK, Piece
  <2>3. Len(lines') = Len(lines)
    BY <1>1, <2>1, <2>2, LinesPut DEF Put
  <2> QED BY <1>2, <2>3 DEF NoEmpty
<1>4. ASSUME NEW h \in Handlers, EndWrite(h) PROVE NoEmpty'
  <2>1. /\ Len(lines') = Len(lines) + 1
        /\ Len(lines'[Len(lines)]) = Len(lines[Len(lines)])
        /\ Len(lines[Len(lines)]) \in Nat \ {0}
    BY <1>4, EndedLine
  <2>2. lines'[Len(lines)] # <<>>
    BY <2>1
  <2>3. \A i \in 1..Len(lines) : i = Len(lines) \/ i \in 1..(Len(lines) - 1)
    BY <1>1
  <2> QED BY <1>1, <1>2, <2>1, <2>2, <2>3 DEF NoEmpty
<1>5. CASE lines' = lines
  BY <1>2, <1>5 DEF NoEmpty
<1> QED BY <1>3, <1>4, <1>5
        DEF Next, vars, Tick, Decide, WriteFails, Restart, OpenDecisionLog, Report,
            ReadLine, Finish, ReportFails

LEMMA ReadsNext ==
    ASSUME TypeOK, Laid, Reads, [Next]_vars
    PROVE  Reads'
<1>1. CASE UNCHANGED reader
  <2> SUFFICES ASSUME reader # None
               PROVE  ReadUpTo(reader.read, reader.since, reader.at)'
    BY <1>1 DEF Reads
  <2>1. PICK read, since, n : read = reader.read /\ since = reader.since /\ n = reader.at
    OBVIOUS
  <2>2. n \in Nat /\ n < Len(lines) /\ ReadUpTo(read, since, n)
    BY <2>1 DEF TypeOK, Reading, Reads
  <2>3. ReadUpTo(read, since, n)'
    BY <2>2, ReadKept
  <2> QED BY <1>1, <2>1, <2>3 DEF ReadUpTo
<1>2. ASSUME NEW span \in Spans, Report(span) PROVE Reads'
  BY <1>2 DEF Report, Reads, ReadUpTo
<1>3. CASE ReadLine
  <2>1. /\ reader # None /\ reader \in Reading /\ reader.at + 1 < Len(lines)
        /\ lines[reader.at + 1] = <<>> \/ Parses(lines[reader.at + 1])
        /\ reader' = [reader EXCEPT !.at = @ + 1,
              !.read = IF lines[reader.at + 1] = <<>> THEN @
                       ELSE Recent(@, lines[reader.at + 1][1].of, reader.since)]
        /\ UNCHANGED <<decisions, lines>>
    BY <1>3 DEF ReadLine, TypeOK
  <2>2. PICK read, since, n : read = reader.read /\ since = reader.since /\ n = reader.at
    OBVIOUS
  <2>3. PICK next : next = IF lines[n + 1] = <<>> THEN read
                           ELSE Recent(read, lines[n + 1][1].of, since)
    OBVIOUS
  <2>4. since \in Nat /\ n \in Nat /\ Len(lines) \in Nat /\ n + 1 <= Len(lines)
    BY <2>1, <2>2, LogAssumption DEF TypeOK, Reading
  <2>5. ReadUpTo(read, since, n)
    BY <2>1, <2>2 DEF Reads
  <2>6. ReadUpTo(next, since, n + 1)
    BY <2>1, <2>2, <2>3, <2>4, <2>5, ReadMore DEF Laid
  <2>7. reader'.read = next /\ reader'.since = since /\ reader'.at = n + 1
    BY <2>1, <2>2, <2>3 DEF Reading
  <2>8. ReadUpTo(next, since, n + 1)'
    BY <2>1, <2>6 DEF ReadUpTo
  <2>9. ReadUpTo(reader.read, reader.since, reader.at)'
    BY <2>7, <2>8 DEF ReadUpTo
  <2> QED BY <2>9 DEF Reads
<1>4. CASE Finish \/ ReportFails
  BY <1>4 DEF Finish, ReportFails, Reads
<1> QED BY <1>1, <1>2, <1>3, <1>4
        DEF Next, vars, Tick, Decide, BeginWrite, EndWrite, WriteFails, Restart

\* A report sums up what it has read, all of it and nothing twice.
LEMMA SummedFinish ==
    ASSUME TypeOK, Laid, NoEmpty, Reads, Finish
    PROVE  Summed'
<1>1. /\ reader # None /\ reader \in Reading /\ reader.at + 1 = Len(lines)
      /\ Last(lines) = lines[Len(lines)]
      /\ Last(lines) = <<>> \/ Parses(Last(lines))
      /\ UNCHANGED <<decisions, lines>>
  BY DEF Finish, TypeOK, Last
<1>2. PICK read, since, n : read = reader.read /\ since = reader.since /\ n = reader.at
  OBVIOUS
<1>3. PICK next : next = IF lines[n + 1] = <<>> THEN read
                         ELSE Recent(read, lines[n + 1][1].of, since)
  OBVIOUS
<1>4. /\ since \in Nat /\ n \in Nat /\ Len(lines) \in Nat /\ n + 1 = Len(lines)
      /\ reader.opened \in Nat /\ reader.opened < Len(lines)
  BY <1>1, <1>2, LogAssumption DEF TypeOK, Reading
<1>5. ReadUpTo(next, since, n + 1)
  <2>1. ReadUpTo(read, since, n)
    BY <1>1, <1>2 DEF Reads
  <2> QED BY <1>1, <1>2, <1>3, <1>4, <2>1, ReadMore DEF Laid
<1>6. summary' = [of |-> reader, read |-> next, result |-> Summarize(next)]
  BY <1>1, <1>2, <1>3, <1>4 DEF Finish
<1>7. /\ next \in Seq(DOMAIN decisions) /\ Len(next) \in Nat
      /\ Cardinality(ToSet(next)) = Len(next)
  BY <1>5, DistinctCount DEF ReadUpTo
<1>8. ASSUME NEW i \in 1..Len(next)
      PROVE  decisions[next[i]].ts >= since /\ [of |-> next[i], whole |-> TRUE] \in Pieces
  <2>1. PICK k \in 1..(n + 1) : lines[k] = <<[of |-> next[i], whole |-> TRUE]>>
    BY <1>5 DEF ReadUpTo
  <2>2. k \in DOMAIN lines
    BY <1>4 DEF TypeOK
  <2>3. [of |-> next[i], whole |-> TRUE] \in ToSet(lines[k])
    <3>1. PICK piece : piece = [of |-> next[i], whole |-> TRUE]
      OBVIOUS
    <3>2. lines[k] = <<piece>> /\ 1 \in DOMAIN <<piece>> /\ <<piece>>[1] = piece
      BY <2>1, <3>1
    <3> QED BY <3>1, <3>2 DEF ToSet
  <2>4. [of |-> next[i], whole |-> TRUE] \in Pieces
    BY <2>2, <2>3 DEF Pieces
  <2> QED BY <1>5, <2>4 DEF ReadUpTo
<1>9. ASSUME NEW k \in 1..reader.opened, decisions[lines[k][1].of].ts >= since
      PROVE  \E i \in 1..Len(next) : next[i] = lines[k][1].of
  <2>1. k \in 1..(Len(lines) - 1) /\ k \in 1..(n + 1)
    BY <1>4
  <2>2. lines[k] # <<>>
    BY <2>1 DEF NoEmpty
  <2> QED BY <1>5, <1>9, <2>1, <2>2 DEF ReadUpTo
<1>10. /\ Summarize(next).total = Len(next)
       /\ next # <<>> => Summarize(next).actions["allow"] + Summarize(next).actions["block"]
                            + Summarize(next).actions["shadow"] = Len(next)
  <2>1. CASE next = <<>>
    BY <2>1 DEF Summarize
  <2>2. CASE next # <<>>
    <3>1. /\ Summarize(next).total = Len(next)
          /\ \A a \in Actions : Summarize(next).actions[a]
                = Count(next, {e \in Entries : e.action = a})
      BY <2>2, TotalsOf
    <3> QED BY <1>7, <3>1, ActionsAddUp DEF Actions
  <2> QED BY <2>1, <2>2
<1>11. PICK result : result = Summarize(next)
  OBVIOUS
<1>12. Pieces' = Pieces
  BY <1>1 DEF Pieces
<1>13. /\ summary'.of = reader /\ summary'.read = next /\ summary'.result = result
       /\ reader.since = since
  BY <1>2, <1>6, <1>11
<1> QED BY <1>1, <1>4, <1>7, <1>8, <1>9, <1>10, <1>11, <1>12, <1>13 DEF Summed

LEMMA SummedNext ==
    ASSUME TypeOK, Laid, CountInv, [Next]_vars
    PROVE  Summed'
<1>1. CASE Finish
  BY <1>1, SummedFinish DEF CountInv
<1>2. CASE ReportFails \/ \E span \in Spans : Report(span)
  BY <1>2 DEF ReportFails, Report, Summed, Reported
<1>3. CASE UNCHANGED summary
  <2> SUFFICES ASSUME Reported PROVE Summed'
    BY <1>3 DEF Summed, Reported
  <2>1. PICK read, since, opened :
          read = summary.read /\ since = summary.of.since /\ opened = summary.of.opened
    OBVIOUS
  <2>2. /\ opened \in Nat /\ opened < Len(lines) /\ since \in Nat
        /\ read \in Seq(DOMAIN decisions)
        /\ \A i \in 1..Len(read) :
              /\ decisions[read[i]].ts >= since
              /\ [of |-> read[i], whole |-> TRUE] \in Pieces
        /\ \A k \in 1..opened :
              decisions[lines[k][1].of].ts >= since
                  => \E i \in 1..Len(read) : read[i] = lines[k][1].of
    BY <2>1 DEF CountInv, Summed
  <2>3. \A m \in DOMAIN decisions : m \in DOMAIN decisions' /\ decisions'[m] = decisions[m]
    BY DecisionsKept
  <2>4. /\ Len(lines) \in Nat /\ opened < Len(lines')
        /\ \A k \in 1..opened : k \in 1..(Len(lines) - 1) /\ k \in 1..Len(lines)
    <3>1. Len(lines) \in Nat
      BY DEF TypeOK
    <3>2. Len(lines') \in Nat /\ Len(lines') >= Len(lines)
      BY LinesKept
    <3> QED BY <2>2, <3>1, <3>2
  <2>5. \A k \in 1..opened : lines'[k] = lines[k] /\ lines[k][1].of \in DOMAIN decisions
    BY <2>4, LinesKept, FirstOf DEF CountInv, NoEmpty
  <2>6. /\ read \in Seq(DOMAIN decisions')
        /\ \A i \in 1..Len(read) : read[i] \in DOMAIN decisions
    BY <2>2, <2>3
  <2>7. \A i \in 1..Len(read) : [of |-> read[i], whole |-> TRUE] \in Pieces'
    BY <2>2, PiecesKept
  <2>8. \A i \in 1..Len(read) : decisions'[read[i]].ts >= since
    BY <2>2, <2>3, <2>6
  <2>9. \A k \in 1..opened :
          decisions'[lines'[k][1].of].ts >= since
              => \E i \in 1..Len(read) : read[i] = lines'[k][1].of
    BY <2>2, <2>3, <2>5
  <2>10. /\ Cardinality(ToSet(read)) = Len(read)
         /\ summary.result.total = Len(read)
         /\ read # <<>> =>
               summary.result.actions["allow"] + summary.result.actions["block"]
                 + summary.result.actions["shadow"] = Len(read)
    BY <2>1 DEF CountInv, Summed
  <2> QED BY <1>3, <2>1, <2>2, <2>4, <2>6, <2>7, <2>8, <2>9, <2>10 DEF Summed
<1> QED BY <1>1, <1>2, <1>3
        DEF Next, vars, Tick, Decide, BeginWrite, EndWrite, WriteFails, Restart, ReadLine

LEMMA CountAlways == Spec => []CountInv
<1>1. Init => CountInv
  BY DEF Init, CountInv, NoEmpty, Reads, Summed, Reported
<1>2. TypeOK /\ Laid /\ CountInv /\ [Next]_vars => CountInv'
  BY NoEmptyNext, ReadsNext, SummedNext DEF CountInv
<1> QED
  BY <1>1, <1>2, TypeCorrect, LaidAlways, PTL DEF Spec

(***************************************************************************)
(* A report counts each decision once, even of a log that is being         *)
(* written: all those asked for whose lines were in the file when it was   *)
(* opened, none that was not asked for or not written out whole; and its   *)
(* totals are those of the actions (report.go:46-125).                     *)
(***************************************************************************)
THEOREM ReportsCountOnce == Spec => []CountedOnce
<1>1. TypeOK /\ CountInv => CountedOnce
  <2> SUFFICES ASSUME TypeOK, CountInv, Reported PROVE CountedOnce
    BY DEF CountedOnce
  <2>1. PICK read, since, opened :
          read = summary.read /\ since = summary.of.since /\ opened = summary.of.opened
    OBVIOUS
  <2>2. PICK asked : asked = {n \in DOMAIN decisions : decisions[n].ts >= since}
    OBVIOUS
  <2>3. /\ read \in Seq(DOMAIN decisions)
        /\ \A i \in 1..Len(read) : decisions[read[i]].ts >= since
                                   /\ [of |-> read[i], whole |-> TRUE] \in Pieces
        /\ \A k \in 1..opened :
              decisions[lines[k][1].of].ts >= since
                  => \E i \in 1..Len(read) : read[i] = lines[k][1].of
    BY <2>1 DEF CountInv, Summed
  <2>4. ToSet(read) \subseteq {n \in asked : [of |-> n, whole |-> TRUE] \in Pieces}
    BY <2>2, <2>3 DEF ToSet
  <2>5. {lines[k][1].of : k \in 1..opened} \cap asked \subseteq ToSet(read)
    BY <2>2, <2>3 DEF ToSet
  <2>6. /\ Cardinality(ToSet(read)) = Len(read)
        /\ summary.result.total = Len(read)
        /\ read # <<>> =>
              summary.result.actions["allow"] + summary.result.actions["block"]
                + summary.result.actions["shadow"] = Len(read)
    BY <2>1 DEF CountInv, Summed
  <2> QED BY <2>1, <2>2, <2>4, <2>5, <2>6 DEF CountedOnce
<1> QED
  BY <1>1, CountAlways, TypeCorrect, PTL
-----------------------------------------------------------------------------
\* Every set of naturals has a least member, unless it has none.
LEMMA Least ==
    ASSUME NEW S \in SUBSET Nat, S # {}
    PROVE  \E x \in S : \A y \in S : x <= y
<1>1. PICK R : R = {ss \in Nat \X Nat : ss[1] < ss[2]}
  OBVIOUS
<1>2. IsWellFoundedOn(R, Nat)
  BY <1>1, NatLessThanWellFounded DEF OpToRel
<1>3. PICK x \in S : \A y \in S : ~(<<y, x>> \in R)
  BY <1>2, WFMin
<1>4. \A y \in S : ~(y < x)
  BY <1>1, <1>3
<1> QED
  BY <1>4

\* The Min and the Max of times are those that are meant.
LEMMA Extremes ==
    ASSUME NEW bound \in Nat, NEW S \in SUBSET (0..bound), S # {}
    PROVE  /\ Min(S) \in S /\ \A x \in S : Min(S) <= x
           /\ Max(S) \in S /\ \A x \in S : x <= Max(S)
<1>1. \E x \in S : \A y \in S : x <= y
  BY Least
<1>2. \E x \in S : \A y \in S : x >= y
  <2>1. PICK T : T = {k \in Nat : bound - k \in S}
    OBVIOUS
  <2>2. PICK x \in S : TRUE
    OBVIOUS
  <2>3. bound - x \in T
    BY <2>1
  <2>4. PICK k \in T : \A l \in T : k <= l
    BY <2>1, <2>3, Least
  <2>5. bound - k \in S
    BY <2>1
  <2>6. ASSUME NEW y \in S PROVE bound - k >= y
    <3>1. y \in Nat /\ bound - y \in T
      BY <2>1
    <3>2. k <= bound - y /\ k \in Nat
      BY <2>1, <2>4, <3>1
    <3> QED
      BY <3>1, <3>2
  <2> QED
    BY <2>5, <2>6
<1> QED
  BY <1>1, <1>2 DEF Min, Max

\* The values from a place on can be put in order: the least of them first, and
\* then the others, of which there is one less.
LEMMA SortedFrom ==
    ASSUME NEW n \in Nat
    PROVE  \A k \in 0..n : \A s \in [(n - k + 1)..n -> Nat] :
              \E p \in [(n - k + 1)..n -> (n - k + 1)..n] :
                 /\ \A i, j \in (n - k + 1)..n : i # j => p[i] # p[j]
                 /\ \A i, j \in (n - k + 1)..n : i < j => s[p[i]] <= s[p[j]]
<1> DEFINE Places(k) == (n - k + 1)..n
           Sorts(p, s, P) == /\ \A i, j \in P : i # j => p[i] # p[j]
                             /\ \A i, j \in P : i < j => s[p[i]] <= s[p[j]]
           Sortable(k) == \A s \in [Places(k) -> Nat] :
                             \E p \in [Places(k) -> Places(k)] : Sorts(p, s, Places(k))
           Bad == {k \in 0..n : ~Sortable(k)}
<1>1. SUFFICES Bad = {}
  OBVIOUS
<1> HIDE DEF Sortable
<1>2. SUFFICES ASSUME Bad # {} PROVE FALSE
  OBVIOUS
<1>3. PICK k \in 0..n : ~Sortable(k) /\ \A l \in 0..n : ~Sortable(l) => k <= l
  <2>1. Bad \in SUBSET Nat
    OBVIOUS
  <2>2. PICK k \in Bad : \A l \in Bad : k <= l
    <3> HIDE DEF Bad
    <3> QED
      BY <1>2, <2>1, Least
  <2> QED
    BY <2>2
<1>4. k # 0
  <2>1. SUFFICES Sortable(0)
    BY <1>3
  <2>2. Places(0) = {}
    OBVIOUS
  <2>3. ASSUME NEW s \in [Places(0) -> Nat]
        PROVE  \E p \in [Places(0) -> Places(0)] : Sorts(p, s, Places(0))
    <3>1. s \in [Places(0) -> Places(0)] /\ Sorts(s, s, Places(0))
      BY <2>2
    <3> QED
      BY <3>1
  <2> HIDE DEF Places, Sorts
  <2> QED
    BY <2>3 DEF Sortable
<1>5. k - 1 \in 0..n /\ Sortable(k - 1)
  BY <1>3, <1>4
<1>6. PICK a \in 1..n : a = n - k + 1
  BY <1>3, <1>4
<1>7. Places(k) = a..n /\ Places(k - 1) = (a + 1)..n
  BY <1>6
<1> HIDE DEF Places, Sorts, Bad
<1>8. ASSUME NEW s \in [a..n -> Nat]
      PROVE  \E p \in [a..n -> a..n] : Sorts(p, s, a..n)
  <2>1. PICK m \in a..n : \A i \in a..n : s[m] <= s[i]
    <3>1. PICK V : V = {s[i] : i \in a..n}
      OBVIOUS
    <3>2. V \in SUBSET Nat /\ s[a] \in V
      BY <1>6, <3>1
    <3>3. PICK v \in V : \A w \in V : v <= w
      BY <3>2, Least
    <3> QED
      BY <3>1, <3>3
  <2>2. PICK q : q = [i \in a..n |-> IF i = a THEN m ELSE IF i = m THEN a ELSE i]
    OBVIOUS
  <2> a \in a..n
    BY <1>6
  <2>3. /\ \A i, j \in a..n : i # j => q[i] # q[j]
        /\ q[a] = m /\ \A i \in a..n : q[i] \in a..n
        /\ \A i \in (a + 1)..n : i \in a..n /\ i # a
    BY <1>6, <2>2
  <2>4. PICK t \in [(a + 1)..n -> Nat] : t = [i \in (a + 1)..n |-> s[q[i]]]
    BY <2>3
  <2>5. PICK r \in [(a + 1)..n -> (a + 1)..n] : Sorts(r, t, (a + 1)..n)
    BY <1>5, <1>7 DEF Sortable
  <2>6. PICK p : p = [i \in a..n |-> IF i = a THEN m ELSE q[r[i]]]
    OBVIOUS
  <2>7. ASSUME NEW i \in a..n
        PROVE  \/ i = a /\ p[i] = m
               \/ /\ i \in (a + 1)..n /\ r[i] \in (a + 1)..n /\ r[i] \in a..n /\ r[i] # a
                  /\ p[i] = q[r[i]] /\ p[i] \in a..n /\ p[i] # m /\ s[p[i]] = t[r[i]]
    <3>1. CASE i = a
      BY <2>6, <3>1
    <3>2. CASE i # a
      <4>1. i \in (a + 1)..n
        BY <1>6, <3>2
      <4>2. r[i] \in (a + 1)..n /\ r[i] \in a..n /\ r[i] # a
        <5>1. r[i] \in (a + 1)..n
          BY <2>5, <4>1
        <5> QED
          BY <2>3, <5>1
      <4>3. p[i] = q[r[i]] /\ p[i] \in a..n
        BY <2>3, <2>6, <3>2, <4>2
      <4>4. p[i] # m
        BY <2>3, <4>2, <4>3
      <4>5. s[p[i]] = t[r[i]]
        BY <2>4, <4>2, <4>3
      <4> QED
        BY <4>1, <4>2, <4>3, <4>4, <4>5
    <3> QED
      BY <3>1, <3>2
  <2>8. p \in [a..n -> a..n]
    <3>1. \A i \in a..n : p[i] \in a..n
      BY <2>1, <2>7
    <3> QED
      BY <2>6, <3>1
  <2>9. ASSUME NEW i \in a..n, NEW j \in a..n, i # j PROVE p[i] # p[j]
    <3>1. CASE i = a
      <4>1. p[i] = m /\ p[j] # m
        BY <2>6, <2>7, <2>9, <3>1
      <4> QED
        BY <4>1
    <3>3. CASE j = a
      <4>1. p[j] = m /\ p[i] # m
        BY <2>6, <2>7, <2>9, <3>3
      <4> QED
        BY <4>1
    <3>2. CASE i # a /\ j # a
      <4>1. /\ i \in (a + 1)..n /\ j \in (a + 1)..n
            /\ p[i] = q[r[i]] /\ p[j] = q[r[j]] /\ r[i] \in a..n /\ r[j] \in a..n
        BY <2>7, <3>2
      <4>2. r[i] # r[j]
        BY <2>5, <2>9, <4>1 DEF Sorts
      <4> QED
        BY <2>3, <4>1, <4>2
    <3> QED
      BY <3>1, <3>2, <3>3
  <2>10. ASSUME NEW i \in a..n, NEW j \in a..n, i < j PROVE s[p[i]] <= s[p[j]]
    <3>1. CASE i = a
      <4>1. p[i] = m /\ p[j] \in a..n
        BY <2>6, <2>8, <3>1
      <4> QED
        BY <2>1, <4>1
    <3>2. CASE i # a
      <4>1. i \in (a + 1)..n /\ j \in (a + 1)..n
        BY <1>6, <2>10, <3>2
      <4>2. s[p[i]] = t[r[i]]
        BY <2>7, <3>2
      <4>3. s[p[j]] = t[r[j]]
        <5>1. j # a
          BY <1>6, <4>1
        <5> QED
          BY <2>7, <5>1
      <4>4. t[r[i]] <= t[r[j]]
        BY <2>5, <2>10, <4>1 DEF Sorts
      <4> QED
        BY <4>2, <4>3, <4>4
    <3> QED
      BY <3>1, <3>2
  <2>11. Sorts(p, s, a..n)
    BY <2>9, <2>10 DEF Sorts
  <2> QED
    BY <2>8, <2>11
<1>9. Sortable(k)
  BY <1>7, <1>8 DEF Sortable
<1> QED
  BY <1>3, <1>9

\* What sort.Slice makes of values: each of them once, and none after a larger one.
LEMMA OrderedSorts ==
    ASSUME NEW n \in Nat, NEW s \in [1..n -> Nat]
    PROVE  \E p \in [1..n -> 1..n] :
              /\ \A i, j \in 1..n : i # j => p[i] # p[j]
              /\ \A i, j \in 1..n : i < j => s[p[i]] <= s[p[j]]
              /\ Ordered(s) = [i \in 1..n |-> s[p[i]]]
<1>1. PICK P : P = SetToSeqs(1..n)
  OBVIOUS
<1>2. Cardinality(1..n) = n
  BY FS_Interval
<1>3. P = {p \in [1..n -> 1..n] : \A i, j \in 1..n : i # j => p[i] # p[j]}
  BY <1>1, <1>2 DEF SetToSeqs
<1>4. \E p \in P : \A i, j \in 1..n : i < j => s[p[i]] <= s[p[j]]
  <2>1. n \in 0..n /\ n - n + 1 = 1
    OBVIOUS
  <2>2. PICK p \in [1..n -> 1..n] :
           /\ \A i, j \in 1..n : i # j => p[i] # p[j]
           /\ \A i, j \in 1..n : i < j => s[p[i]] <= s[p[j]]
    BY <2>1, SortedFrom
  <2> QED
    BY <1>3, <2>2
<1>5. PICK place : place = CHOOSE p \in P : \A i, j \in 1..n : i < j => s[p[i]] <= s[p[j]]
  OBVIOUS
<1>6. place \in P /\ \A i, j \in 1..n : i < j => s[place[i]] <= s[place[j]]
  BY <1>4, <1>5
<1>7. Ordered(s) = [i \in 1..n |-> s[place[i]]]
  BY <1>1, <1>5 DEF Ordered
<1> QED
  BY <1>3, <1>6, <1>7

\* Half of the values are no more than the middle one, and the percentiles are in
\* order.
LEMMA PercentilesHold ==
    ASSUME NEW n \in Nat \ {0}, NEW s \in [1..n -> Nat],
           NEW sorted, sorted = Ordered(s)
    PROVE  /\ 2 * Cardinality({i \in 1..n : s[i] <= Percentile(sorted, 50)}) >= n
           /\ Percentile(sorted, 50) <= Percentile(sorted, 95)
           /\ Percentile(sorted, 95) <= Percentile(sorted, 99)
<1>1. PICK p \in [1..n -> 1..n] :
         /\ \A i, j \in 1..n : i # j => p[i] # p[j]
         /\ \A i, j \in 1..n : i < j => s[p[i]] <= s[p[j]]
         /\ sorted = [i \in 1..n |-> s[p[i]]]
  <2>1. \E p \in [1..n -> 1..n] :
           /\ \A i, j \in 1..n : i # j => p[i] # p[j]
           /\ \A i, j \in 1..n : i < j => s[p[i]] <= s[p[j]]
           /\ Ordered(s) = [i \in 1..n |-> s[p[i]]]
    BY OrderedSorts, Zenon
  <2> QED
    BY <2>1
<1>2. Len(sorted) = n
  <2>1. sorted \in Seq(Nat)
    <3>1. \A i \in 1..n : sorted[i] \in Nat
      BY <1>1, SMTT(40)
    <3>2. sorted = [i \in 1..n |-> sorted[i]]
      BY <1>1
    <3> QED
      BY <3>1, <3>2
  <2>2. DOMAIN sorted = 1..n /\ DOMAIN sorted = 1..Len(sorted) /\ Len(sorted) \in Nat
    BY <1>1, <2>1
  <2> QED
    BY ONLY <2>2, n \in Nat \ {0}
<1>3. PICK k \in Nat, l \in Nat, m \in Nat :
         /\ k = ((n - 1) * 50) \div 100 + 1
         /\ l = ((n - 1) * 95) \div 100 + 1
         /\ m = ((n - 1) * 99) \div 100 + 1
  OBVIOUS
<1>4. 1 <= k /\ k <= l /\ l <= m /\ m <= n /\ 2 * k >= n
  BY <1>3
<1>5. /\ Percentile(sorted, 50) = s[p[k]]
      /\ Percentile(sorted, 95) = s[p[l]]
      /\ Percentile(sorted, 99) = s[p[m]]
  <2>1. k \in 1..n /\ l \in 1..n /\ m \in 1..n
    BY <1>4
  <2>2. /\ Percentile(sorted, 50) = sorted[k] /\ Percentile(sorted, 95) = sorted[l]
        /\ Percentile(sorted, 99) = sorted[m]
    BY <1>2, <1>3 DEF Percentile
  <2> QED
    BY <1>1, <2>1, <2>2
<1>6. ASSUME NEW i \in 1..n, NEW j \in 1..n, i <= j PROVE s[p[i]] <= s[p[j]]
  <2>1. CASE i = j
    <3>1. p[i] \in 1..n
      BY <1>1
    <3> QED
      BY <2>1, <3>1
  <2>2. CASE i < j
    BY <1>1, <2>2
  <2> QED
    BY <1>6, <2>1, <2>2
<1>7. s[p[k]] <= s[p[l]] /\ s[p[l]] <= s[p[m]]
  <2>1. k \in 1..n /\ l \in 1..n /\ m \in 1..n
    BY <1>4
  <2> QED
    BY <1>4, <1>6, <2>1
<1>8. PICK low : low = {i \in 1..n : s[i] <= s[p[k]]}
  OBVIOUS
<1>9. 2 * Cardinality(low) >= n
  <2>1. IsFiniteSet(low) /\ IsFiniteSet(1..k) /\ Cardinality(1..k) = k
    <3>1. IsFiniteSet(1..n) /\ IsFiniteSet(1..k) /\ Cardinality(1..k) = k
      <4>1. 1 \in Int /\ n \in Int /\ k \in Int /\ ~(1 > k)
        BY <1>4
      <4>2. IsFiniteSet(1..n)
        BY <4>1, FS_Interval
      <4>3. IsFiniteSet(1..k) /\ Cardinality(1..k) = k - 1 + 1
        BY <4>1, FS_Interval
      <4> QED
        BY <4>2, <4>3
    <3>2. low \in SUBSET (1..n)
      BY <1>8
    <3> QED
      BY <3>1, <3>2, FS_Subset
  <2>2. PICK f : f = [i \in 1..k |-> p[i]]
    OBVIOUS
  <2>3. f \in Injection(1..k, low)
    <3>1. \A i \in 1..k : i \in 1..n /\ k \in 1..n /\ i <= k
      BY <1>4
    <3>2. \A i \in 1..k : f[i] \in low
      BY <1>1, <1>6, <1>8, <2>2, <3>1
    <3>3. \A i, j \in 1..k : f[i] = f[j] => i = j
      BY <1>1, <2>2, <3>1
    <3>4. f \in [1..k -> low]
      BY <2>2, <3>2
    <3> QED
      BY <3>3, <3>4 DEF Injection, IsInjective
  <2>4. k <= Cardinality(low) /\ Cardinality(low) \in Nat
    BY <2>1, <2>3, FS_Injection, FS_CardinalityType
  <2> QED
    BY <1>4, <2>4
<1> QED
  BY <1>5, <1>7, <1>8, <1>9

\* A span and latencies are those of the decisions d.
Covers(d, span, latency) ==
    /\ \A i \in DOMAIN d : span.start <= d[i].ts /\ d[i].ts <= span.end
    /\ {span.start, span.end} \subseteq {d[i].ts : i \in DOMAIN d}
    /\ 2 * Cardinality({i \in DOMAIN d : d[i].entry.ms <= latency[50]}) >= Len(d)
    /\ latency[50] <= latency[95] /\ latency[95] <= latency[99]

\* What Summarize says of its decisions is so.
LEMMA SummaryCovers ==
    ASSUME TypeOK, NEW read \in Seq(DOMAIN decisions), read # <<>>
    PROVE  Covers([i \in DOMAIN read |-> decisions[read[i]]],
                  Summarize(read).span, Summarize(read).latency)
<1> USE LogAssumption
<1>1. PICK n \in Nat \ {0} : n = Len(read) /\ DOMAIN read = 1..n
  OBVIOUS
<1>2. PICK d : d = [i \in 1..n |-> decisions[read[i]]]
  OBVIOUS
<1>3. ASSUME NEW i \in 1..n
      PROVE  /\ read[i] \in DOMAIN decisions /\ d[i] = decisions[read[i]]
             /\ d[i].ts \in 0..clock /\ d[i].entry.ms \in Nat
  <2>1. read[i] \in DOMAIN decisions
    BY <1>1
  <2>2. d[i] = decisions[read[i]]
    BY <1>2
  <2>3. PICK S : S = [entry : Entries, ts : 0..clock]
    OBVIOUS
  <2>4. decisions \in Seq(S)
    BY <2>3 DEF TypeOK
  <2>5. d[i] \in S
    BY <2>1, <2>2, <2>4
  <2>6. d[i].entry \in Entry /\ d[i].ts \in 0..clock
    BY <2>3, <2>5
  <2>7. d[i].entry.ms \in Nat
    BY <2>6 DEF Entry
  <2> QED
    BY <2>1, <2>2, <2>6, <2>7
<1>4. PICK times : times = {d[i].ts : i \in 1..n}
  OBVIOUS
<1>5. {decisions[k].ts : k \in ToSet(read)} = times
  BY <1>1, <1>2, <1>4 DEF ToSet
<1>6. /\ Min(times) \in times /\ \A x \in times : Min(times) <= x
      /\ Max(times) \in times /\ \A x \in times : x <= Max(times)
  <2>1. times \in SUBSET (0..clock)
    BY <1>3, <1>4
  <2>2. d[1].ts \in times
    BY <1>4
  <2>3. clock \in Nat
    BY DEF TypeOK
  <2> QED
    BY <2>1, <2>2, <2>3, Extremes
<1>7. PICK span : span = Summarize(read).span
  OBVIOUS
<1>8. span.start = Min(times) /\ span.end = Max(times)
  BY <1>5, <1>7 DEF Summarize, SpanOf
<1>9. PICK s \in [1..n -> Nat] : s = [i \in 1..n |-> d[i].entry.ms]
  BY <1>3
<1>10. [i \in DOMAIN read |-> decisions[read[i]].entry.ms] = s
  BY <1>1, <1>2, <1>9
<1>11. PICK sorted : sorted = Ordered(s)
  OBVIOUS
<1>12. PICK latency : latency = Summarize(read).latency
  OBVIOUS
<1>13. latency = [p \in {50, 95, 99} |-> Percentile(sorted, p)]
  BY <1>10, <1>11, <1>12 DEF Summarize
<1>14. /\ latency[50] = Percentile(sorted, 50) /\ latency[95] = Percentile(sorted, 95)
       /\ latency[99] = Percentile(sorted, 99)
  BY <1>13
<1>15. /\ 2 * Cardinality({i \in 1..n : s[i] <= latency[50]}) >= n
       /\ latency[50] <= latency[95] /\ latency[95] <= latency[99]
  <2>1. /\ 2 * Cardinality({i \in 1..n : s[i] <= Percentile(sorted, 50)}) >= n
        /\ Percentile(sorted, 50) <= Percentile(sorted, 95)
        /\ Percentile(sorted, 95) <= Percentile(sorted, 99)
    BY <1>11, PercentilesHold, Zenon
  <2>2. PICK a, b, c : /\ a = Percentile(sorted, 50) /\ b = Percentile(sorted, 95)
                       /\ c = Percentile(sorted, 99)
    OBVIOUS
  <2>3. latency[50] = a /\ latency[95] = b /\ latency[99] = c
    BY <1>14, <2>2
  <2>4. 2 * Cardinality({i \in 1..n : s[i] <= a}) >= n /\ a <= b /\ b <= c
    BY <2>1, <2>2
  <2> QED
    BY <2>3, <2>4
<1>16. {i \in 1..n : s[i] <= latency[50]} = {i \in 1..n : d[i].entry.ms <= latency[50]}
  BY <1>9
<1>17. Len(d) = n /\ DOMAIN d = 1..n
  <2>1. d \in Seq({d[i] : i \in 1..n})
    <3>1. PICK S : S = {d[i] : i \in 1..n}
      OBVIOUS
    <3>2. \A i \in 1..n : d[i] \in S
      BY <3>1
    <3>3. d = [i \in 1..n |-> d[i]]
      BY <1>2
    <3>4. d \in Seq(S)
      BY <3>2, <3>3
    <3> QED
      BY <3>1, <3>4
  <2>2. DOMAIN d = 1..n /\ DOMAIN d = 1..Len(d) /\ Len(d) \in Nat
    BY <1>2, <2>1
  <2> QED
    BY ONLY <2>2, n \in Nat \ {0}
<1>18. \A i \in 1..n : span.start <= d[i].ts /\ d[i].ts <= span.end
  BY <1>4, <1>6, <1>8
<1>19. {span.start, span.end} \subseteq {d[i].ts : i \in 1..n}
  BY <1>4, <1>6, <1>8
<1>20. Covers(d, span, latency)
  BY <1>15, <1>16, <1>17, <1>18, <1>19 DEF Covers
<1> QED
  BY <1>1, <1>2, <1>7, <1>12, <1>20

LEMMA CoversNext ==
    ASSUME TypeOK, Laid, CountInv, SpansAll, [Next]_vars
    PROVE  SpansAll'
<1>1. ASSUME NEW read, NEW d, NEW span, NEW latency,
             read = summary'.read, d = [i \in DOMAIN read |-> decisions'[read[i]]],
             span = summary'.result.span, latency = summary'.result.latency,
             Reported' /\ read # <<>> => Covers(d, span, latency)
      PROVE  SpansAll'
  <2>1. SUFFICES ASSUME Reported', read # <<>> PROVE SpansAll'
    BY <1>1 DEF SpansAll
  <2>2. Covers(d, span, latency)
    BY <1>1, <2>1
  <2>3. Covers([i \in DOMAIN summary'.read |-> decisions'[summary'.read[i]]],
               summary'.result.span, summary'.result.latency)
    BY <1>1, <2>2, Zenon
  <2> QED
    BY <2>3, Zenon DEF SpansAll, Covers
<1>2. CASE Finish
  <2>1. PICK read : read = summary'.read
    OBVIOUS
  <2>2. summary'.result = Summarize(read) /\ decisions' = decisions
    BY <1>2, <2>1 DEF Finish
  <2>3. PICK d : d = [i \in DOMAIN read |-> decisions[read[i]]]
    OBVIOUS
  <2>4. PICK span, latency : span = summary'.result.span /\ latency = summary'.result.latency
    OBVIOUS
  <2>5. ASSUME Reported', read # <<>> PROVE Covers(d, span, latency)
    <3>1. read \in Seq(DOMAIN decisions)
      BY <1>2, <2>1, <2>2, <2>5, SummedFinish DEF CountInv, Summed
    <3>2. Covers([i \in DOMAIN read |-> decisions[read[i]]],
                 Summarize(read).span, Summarize(read).latency)
      BY <2>5, <3>1, SummaryCovers
    <3> QED
      BY <2>2, <2>3, <2>4, <3>2, Zenon
  <2>6. d = [i \in DOMAIN read |-> decisions'[read[i]]]
    BY <2>2, <2>3
  <2> QED
    BY <1>1, <2>1, <2>4, <2>5, <2>6
<1>3. CASE ReportFails \/ \E span \in Spans : Report(span)
  <2>1. ~Reported'
    BY <1>3 DEF ReportFails, Report, Reported
  <2> QED
    BY <2>1, Zenon DEF SpansAll
<1>4. CASE UNCHANGED summary
  <2>1. PICK read, span, latency :
          /\ read = summary.read /\ span = summary.result.span
          /\ latency = summary.result.latency
    OBVIOUS
  <2>2. PICK d : d = [i \in DOMAIN read |-> decisions'[read[i]]]
    OBVIOUS
  <2>3. ASSUME Reported, read # <<>> PROVE Covers(d, span, latency)
    <3>1. read \in Seq(DOMAIN decisions)
      BY <2>1, <2>3 DEF CountInv, Summed
    <3>2. d = [i \in DOMAIN read |-> decisions[read[i]]]
      BY <2>2, <3>1, DecisionsKept
    <3>3. Covers([i \in DOMAIN summary.read |-> decisions[summary.read[i]]],
                 summary.result.span, summary.result.latency)
      BY <2>1, <2>3, Zenon DEF SpansAll, Covers
    <3> QED
      BY <2>1, <3>2, <3>3, Zenon
  <2>4. Reported' <=> Reported
    BY <1>4 DEF Reported
  <2> QED
    BY <1>1, <1>4, <2>1, <2>2, <2>3, <2>4
<1> QED BY <1>2, <1>3, <1>4
        DEF Next, vars, Tick, Decide, BeginWrite, EndWrite, WriteFails, Restart, ReadLine

(***************************************************************************)
(* The time a report covers is that of all its decisions, and none is left *)
(* out at either end; and half of them took no longer than its p50, which  *)
(* is no more than its p95, nor that than its p99 (report.go:81-96,        *)
(* 154-181).                                                               *)
(***************************************************************************)
THEOREM ReportCoversAll == Spec => []SpansAll
<1>1. Init => SpansAll
  BY DEF Init, SpansAll, Reported
<1>2. TypeOK /\ Laid /\ CountInv /\ SpansAll /\ [Next]_vars => SpansAll'
  BY CoversNext
<1> QED
  BY <1>1, <1>2, CountAlways, TypeCorrect, LaidAlways, PTL DEF Spec
=============================================================================
