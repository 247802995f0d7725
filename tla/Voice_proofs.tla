----------------------------- MODULE Voice_proofs -----------------------------
(***************************************************************************)
(* What holds of the voice pipeline for every number of utterances, turns,  *)
(* requests and records: that a verdict is of the utterance it was asked    *)
(* about, that a turn that returned has fallen silent, that a request for   *)
(* speech leaves nothing in the worker's channel for the next, and that the *)
(* ledger's record of what was said is true.                                *)
(***************************************************************************)
EXTENDS WakeDetector, VoiceTurn, PiperSynthesis, VoiceComputerActions, SequenceTheorems, TLAPS

-----------------------------------------------------------------------------
(* Sequences of whatever: the lines and frames between two processes, what  *)
(* was read ahead followed by what is still in the pipe.                    *)

IsSeq(s) == \E S : s \in Seq(S)

LEMMA SeqsShareASet ==
  ASSUME NEW a, IsSeq(a), NEW b, IsSeq(b)
  PROVE  \E S : a \in Seq(S) /\ b \in Seq(S)
<1>1. PICK S : a \in Seq(S) BY DEF IsSeq
<1>2. PICK T : b \in Seq(T) BY DEF IsSeq
<1>3. a \in Seq(S \cup T) BY <1>1, SeqMonotonic
<1>4. b \in Seq(S \cup T) BY <1>2, SeqMonotonic
<1> QED BY <1>3, <1>4

LEMMA EmptyIsSeq == IsSeq(<< >>) /\ Len(<< >>) = 0 /\ DOMAIN << >> = {}
<1>1. << >> \in Seq({}) BY EmptySeq
<1> QED BY <1>1, LenProperties, EmptySeq DEF IsSeq

LEMMA SeqIndices ==
  ASSUME NEW s, IsSeq(s)
  PROVE  Len(s) \in Nat /\ DOMAIN s = 1..Len(s) /\ (s # << >> => Len(s) > 0 /\ Head(s) = s[1])
<1>1. PICK S : s \in Seq(S) BY DEF IsSeq
<1> QED BY <1>1, LenProperties, EmptySeq

LEMMA SeqGrows ==
  ASSUME NEW s, IsSeq(s), NEW e
  PROVE  /\ IsSeq(Append(s, e)) /\ Len(Append(s, e)) = Len(s) + 1
         /\ Append(s, e) # << >>
         /\ Len(s) \in Nat /\ DOMAIN s = 1..Len(s) /\ DOMAIN Append(s, e) = 1..(Len(s) + 1)
         /\ \A i \in DOMAIN s : Append(s, e)[i] = s[i]
         /\ Append(s, e)[Len(s) + 1] = e
         /\ (s = << >> => Tail(Append(s, e)) = << >> /\ Head(Append(s, e)) = e)
         /\ (s # << >> => Tail(Append(s, e)) = Append(Tail(s), e) /\ Head(Append(s, e)) = Head(s))
<1>1. PICK S : s \in Seq(S) BY DEF IsSeq
<1>2. s \in Seq(S \cup {e}) BY <1>1, SeqMonotonic
<1>3. /\ Append(s, e) \in Seq(S \cup {e}) /\ Len(Append(s, e)) = Len(s) + 1
      /\ Append(s, e) # << >>
      /\ \A i \in 1..Len(s) : Append(s, e)[i] = s[i]
      /\ Append(s, e)[Len(s) + 1] = e
  BY <1>2, AppendProperties
<1>4. Head(Append(s, e)) = IF s = << >> THEN e ELSE Head(s)
  BY <1>2, HeadTailAppend
<1>5. Tail(Append(s, e)) = IF s = << >> THEN << >> ELSE Append(Tail(s), e)
  BY <1>2, HeadTailAppend
<1> QED BY <1>2, <1>3, <1>4, <1>5, LenProperties DEF IsSeq

LEMMA SeqTail ==
  ASSUME NEW s, IsSeq(s), s # << >>
  PROVE  /\ IsSeq(Tail(s)) /\ Len(Tail(s)) = Len(s) - 1 /\ Len(s) \in Nat \ {0}
         /\ DOMAIN Tail(s) = 1..(Len(s) - 1)
         /\ \A i \in DOMAIN Tail(s) : i + 1 \in DOMAIN s /\ Tail(s)[i] = s[i + 1]
         /\ (Len(s) = 1 => Tail(s) = << >>)
<1>1. PICK S : s \in Seq(S) BY DEF IsSeq
<1>2. Tail(s) \in Seq(S) /\ Len(Tail(s)) = Len(s) - 1
      /\ \A i \in 1 .. Len(Tail(s)) : Tail(s)[i] = s[i+1]
  BY <1>1, HeadTailProperties
<1>3. Len(s) \in Nat \ {0} BY <1>1, EmptySeq
<1>4. DOMAIN Tail(s) = 1..(Len(s) - 1) BY <1>2, LenProperties
<1>5. Len(s) = 1 => Tail(s) = << >>
  <2>1. Tail(s) # << >> => Len(Tail(s)) \in Nat \ {0} BY <1>2, EmptySeq
  <2>2. Len(s) = 1 => Len(Tail(s)) = 0 BY <1>2
  <2> QED BY <2>1, <2>2
<1> QED BY <1>1, <1>2, <1>3, <1>4, <1>5, LenProperties DEF IsSeq

LEMMA SeqOfOne == ASSUME NEW e PROVE Append(<< >>, e) = <<e>> /\ IsSeq(<<e>>) /\ Tail(<<e>>) = << >>
<1>1. << >> \in Seq({e}) /\ <<e>> \in Seq({e}) BY EmptySeq
<1>2. Append(<< >>, e) = <<e>> OBVIOUS
<1> QED BY <1>1, <1>2, SeqGrows, EmptyIsSeq DEF IsSeq

\* What is said arrives behind what is there already.
LEMMA SaidLast ==
  ASSUME NEW a, IsSeq(a), NEW b, IsSeq(b), NEW e
  PROVE  IsSeq(a \o b) /\ a \o Append(b, e) = Append(a \o b, e)
<1>1. PICK S : a \in Seq(S) /\ b \in Seq(S) BY SeqsShareASet
<1>2. a \in Seq(S \cup {e}) /\ b \in Seq(S \cup {e}) BY <1>1, SeqMonotonic
<1>3. <<e>> \in Seq(S \cup {e}) OBVIOUS
<1>4. Append(b, e) = b \o <<e>> BY <1>2, AppendIsConcat
<1>5. a \o b \in Seq(S \cup {e}) BY <1>2, ConcatProperties
<1>6. Append(a \o b, e) = (a \o b) \o <<e>> BY <1>5, AppendIsConcat
<1> QED BY <1>2, <1>3, <1>4, <1>5, <1>6, ConcatAssociative DEF IsSeq

LEMMA OnlyTheFirst ==
  ASSUME NEW a, IsSeq(a)
  PROVE  a \o << >> = a /\ << >> \o a = a
BY ConcatEmptySeq DEF IsSeq

\* Reading ahead changes nothing about what is still to be taken.
LEMMA ReadAhead ==
  ASSUME NEW a, IsSeq(a), NEW b, IsSeq(b), b # << >>
  PROVE  IsSeq(Append(a, Head(b))) /\ IsSeq(Tail(b)) /\ Append(a, Head(b)) \o Tail(b) = a \o b
<1>1. PICK S : a \in Seq(S) /\ b \in Seq(S) BY SeqsShareASet
<1>2. Head(b) \in S /\ Tail(b) \in Seq(S) BY <1>1, HeadTailProperties
<1>3. <<Head(b)>> \in Seq(S) BY <1>2
<1>4. Append(a, Head(b)) = a \o <<Head(b)>> BY <1>1, <1>2, AppendIsConcat
<1>5. <<Head(b)>> \o Tail(b) = b
  <2>1. <<Head(b)>> \o Tail(b) \in Seq(S) BY <1>2, <1>3, ConcatProperties
  <2>2. Len(b) \in Nat \ {0} /\ Len(Tail(b)) = Len(b) - 1 BY <1>1, HeadTailProperties, EmptySeq
  <2>3. Len(<<Head(b)>>) = 1 /\ <<Head(b)>>[1] = Head(b) OBVIOUS
  <2>4. Len(<<Head(b)>> \o Tail(b)) = Len(b) BY <1>2, <1>3, <2>2, <2>3, ConcatProperties
  <2>5. ASSUME NEW i \in 1..Len(b) PROVE (<<Head(b)>> \o Tail(b))[i] = b[i]
    <3>1. (<<Head(b)>> \o Tail(b))[i] = IF i <= 1 THEN <<Head(b)>>[i] ELSE Tail(b)[i - 1]
      BY <1>2, <1>3, <2>2, <2>3, ConcatProperties
    <3>2. CASE i = 1 BY <3>1, <3>2, <2>3
    <3>3. CASE i > 1
      <4>1. i - 1 \in 1..Len(Tail(b)) BY <3>3, <2>2
      <4>2. Tail(b)[i - 1] = b[(i - 1) + 1] BY <1>1, <4>1, HeadTailProperties
      <4> QED BY <3>1, <3>3, <4>2, <2>2
    <3> QED BY <3>2, <3>3
  <2> QED BY <1>1, <2>1, <2>4, <2>5, SeqEqual
<1>6. Append(a, Head(b)) \in Seq(S) BY <1>1, <1>2
<1>7. (a \o <<Head(b)>>) \o Tail(b) = a \o (<<Head(b)>> \o Tail(b))
  BY <1>1, <1>2, <1>3, ConcatAssociative
<1>8. IsSeq(Append(a, Head(b))) /\ IsSeq(Tail(b)) BY <1>2, <1>6 DEF IsSeq
<1> QED BY <1>4, <1>5, <1>7, <1>8

\* What is taken is the first of all that was said.
LEMMA TakenFirst ==
  ASSUME NEW a, IsSeq(a), NEW b, IsSeq(b), a # << >>
  PROVE  IsSeq(Tail(a)) /\ a \o b # << >> /\ Head(a) = Head(a \o b) /\ Tail(a) \o b = Tail(a \o b)
<1>1. PICK S : a \in Seq(S) /\ b \in Seq(S) BY SeqsShareASet
<1>2. Len(a) \in Nat \ {0} /\ Tail(a) \in Seq(S) /\ Len(Tail(a)) = Len(a) - 1 /\ Len(b) \in Nat
  BY <1>1, HeadTailProperties, EmptySeq
<1>3. a \o b \in Seq(S) /\ Len(a \o b) = Len(a) + Len(b) BY <1>1, ConcatProperties
<1>4. a \o b # << >> BY <1>2, <1>3, EmptySeq
<1>5. Head(a) = Head(a \o b)
  <2>1. (a \o b)[1] = a[1] BY <1>1, <1>2, ConcatProperties
  <2>2. Head(a) = a[1] /\ Head(a \o b) = (a \o b)[1] BY <1>1, <1>3, <1>4
  <2> QED BY <2>1, <2>2
<1>6. Tail(a \o b) \in Seq(S) /\ Len(Tail(a \o b)) = Len(a) + Len(b) - 1
  BY <1>3, <1>4, HeadTailProperties
<1>7. Tail(a) \o b \in Seq(S) /\ Len(Tail(a) \o b) = Len(a) - 1 + Len(b)
  BY <1>1, <1>2, ConcatProperties
<1>8. ASSUME NEW i \in 1..Len(Tail(a \o b)) PROVE (Tail(a) \o b)[i] = Tail(a \o b)[i]
  <2>1. i \in 1..(Len(a) - 1 + Len(b)) /\ i + 1 \in 1..(Len(a) + Len(b)) BY <1>2, <1>6
  <2>2. Tail(a \o b)[i] = (a \o b)[i + 1] BY <1>3, <1>4, HeadTailProperties
  <2>3. (a \o b)[i + 1] = IF i + 1 <= Len(a) THEN a[i + 1] ELSE b[i + 1 - Len(a)]
    BY <1>1, <2>1, ConcatProperties
  <2>4. (Tail(a) \o b)[i] = IF i <= Len(a) - 1 THEN Tail(a)[i] ELSE b[i - (Len(a) - 1)]
    BY <1>1, <1>2, <2>1, ConcatProperties
  <2>5. i <= Len(a) - 1 => Tail(a)[i] = a[i + 1] BY <1>1, <1>2, HeadTailProperties
  <2>6. i - (Len(a) - 1) = i + 1 - Len(a) BY <1>2
  <2>7. i + 1 <= Len(a) <=> i <= Len(a) - 1 BY <1>2
  <2> QED BY <2>2, <2>3, <2>4, <2>5, <2>6, <2>7
<1> QED BY <1>2, <1>4, <1>5, <1>6, <1>7, <1>8, SeqEqual DEF IsSeq

-----------------------------------------------------------------------------
(* What the ledger says was said to the owner.                              *)

\* The service has at most one task to finish with a playback, the turn's own, and takes it out
\* of its slots before it is written: what it then writes was said when it says so.
RowShape(row) == DOMAIN row = {"state", "cancel", "acted", "asked", "questions"}

ActionsShape ==
  /\ DOMAIN actionTurn = {"pc", "task", "answering", "ending", "finishes"}
  /\ DOMAIN said = {"result", "question", "cutOff"}
  /\ result \in Tasks \cup {None} /\ question \in Tasks \cup {None}
  /\ active \in Tasks \cup {None}
  /\ actionTurn.pc # "idle" => actionTurn.task \in Tasks
  /\ stopper.pc # "idle" => stopper.task \in Tasks

Finishing == actionTurn.finishes # "none"

TurnOwnsTheSlots ==
  /\ result # None => result = actionTurn.task /\ actionTurn.pc \in {"say", "playing", "ending"}
  /\ question # None => question = actionTurn.task /\ actionTurn.pc \in {"say", "playing", "ending"}
  /\ result = None \/ question = None
  /\ Finishing => actionTurn.pc = "ending" /\ result = None /\ question = None
  /\ actionTurn.pc # "ending" => actionTurn.ending = "no"

\* The property, of a ledger l and a history h, with the shape of its rows.
Record(l, h) ==
  /\ DOMAIN l = Tasks /\ \A t \in Tasks : RowShape(l[t])
  /\ \A t \in Tasks : /\ l[t].state = "succeeded" => t \in h.result
                      /\ l[t].asked = "played" => t \in h.question

WhatIsWrittenWasSaid ==
  /\ actionTurn.ending = "completed" =>
       /\ result # None => result \in said.result
       /\ question # None => question \in said.question
       /\ actionTurn.finishes \in {"result", "succeed"} => actionTurn.task \in said.result
       /\ actionTurn.finishes = "question" => actionTurn.task \in said.question
  /\ actionTurn.finishes = "succeed" => actionTurn.ending = "completed"

TurnInvariant  == ActionsShape /\ TurnOwnsTheSlots /\ WhatIsWrittenWasSaid
SaidInvariant == Record(ledger, said) /\ TurnInvariant

\* Every transaction yields a row, and none makes a task succeeded or a question played but the
\* completion and the delivery.
LEMMA RowsKeepTheRecord ==
  ASSUME NEW row, RowShape(row), NEW next
  PROVE  /\ \A outcome : next \in CompletedRow(row, outcome) =>
                RowShape(next) /\ next.asked = row.asked /\ next.state = outcome
         /\ next \in Cancelled(row) =>
                RowShape(next) /\ next.asked \in {row.asked, "closed"} /\ next.state = "cancelled"
         /\ next \in Asked(row) =>
                RowShape(next) /\ next.asked = "pending" /\ next.state = "awaiting_clarification"
         /\ next \in Resumed(row) => RowShape(next) /\ next.asked = "closed" /\ next.state = "active"
         /\ \A played : next \in Delivered(row, played) =>
                RowShape(next) /\ next.state = row.state
                /\ next.asked = IF played THEN "played" ELSE "failed"
BY DEF RowShape, CompletedRow, Cancelled, Asked, Resumed, Delivered, Live


\* Rows that make nothing succeeded or played leave the record true.
Quiet(row, rows) ==
  \A next \in rows : /\ RowShape(next)
                     /\ next.state = "succeeded" => row.state = "succeeded"
                     /\ next.asked = "played" => row.asked = "played"

LEMMA QuietRows ==
  ASSUME NEW row, RowShape(row)
  PROVE  /\ Quiet(row, Cancelled(row)) /\ Quiet(row, CompletedRow(row, "failed"))
         /\ Quiet(row, Asked(row)) /\ Quiet(row, Resumed(row)) /\ Quiet(row, {row})
         /\ Quiet(row, Delivered(row, FALSE))
BY DEF Quiet, RowShape, CompletedRow, Cancelled, Asked, Resumed, Delivered, Live

LEMMA QuietWrite ==
  ASSUME Record(ledger, said), NEW t \in Tasks, NEW rows, Quiet(ledger[t], rows),
         WriteIfAllowed(t, rows) \/ Write(t, rows)
  PROVE  Record(ledger', said)
<1> USE DEF Record, Quiet
<1>1. CASE UNCHANGED ledger
  BY <1>1
<1>2. CASE Write(t, rows)
  <2>1. PICK next \in rows : ledger' = [ledger EXCEPT ![t] = next] BY <1>2 DEF Write
  <2>2. ASSUME NEW u \in Tasks
        PROVE  /\ RowShape(ledger'[u])
               /\ ledger'[u].state = "succeeded" => u \in said.result
               /\ ledger'[u].asked = "played" => u \in said.question
    <3>1. CASE u = t BY <2>1, <3>1
    <3>2. CASE u # t BY <2>1, <3>2
    <3> QED BY <3>1, <3>2
  <2>3. DOMAIN ledger' = Tasks BY <2>1
  <2> QED BY <2>2, <2>3
<1> QED BY <1>1, <1>2 DEF WriteIfAllowed

LEMMA TurnKeeps == TurnInvariant /\ [Next]_vars => TurnInvariant'
<1> SUFFICES ASSUME TurnInvariant, [Next]_vars PROVE TurnInvariant'
  OBVIOUS
<1> USE ActionsAssumption DEF TurnInvariant, ActionsShape, TurnOwnsTheSlots, Finishing, WhatIsWrittenWasSaid
<1>1. CASE UNCHANGED vars
  BY <1>1 DEF vars, slots, stopPath
<1>2. ASSUME NEW t \in Tasks, BeginTask(t) PROVE TurnInvariant'
  BY <1>2 DEF BeginTask, IdleTurn, NewTurn
<1>3. ASSUME NEW t \in Tasks, BeginAnswer(t) PROVE TurnInvariant'
  BY <1>3 DEF BeginAnswer, IdleTurn, slots, NewTurn
<1>4. ASSUME NEW t \in Tasks, OwnerSignals(t) PROVE TurnInvariant'
  BY <1>4 DEF OwnerSignals, slots
<1>5. ASSUME NEW t \in Tasks, TimePasses(t) PROVE TurnInvariant'
  BY <1>5 DEF TimePasses, slots
<1>6. ASSUME ArmListener PROVE TurnInvariant'
  BY <1>6 DEF ArmListener, TurnGoesTo, slots
<1>7. ASSUME CannotArm PROVE TurnInvariant'
  BY <1>7 DEF CannotArm, TurnGoesTo, ClearActive
<1>8. ASSUME AcknowledgeTask PROVE TurnInvariant'
  BY <1>8 DEF AcknowledgeTask, TurnGoesTo, slots
<1>9. ASSUME CloseAtAcknowledgment PROVE TurnInvariant'
  BY <1>9 DEF CloseAtAcknowledgment, ClearActive
<1>10. ASSUME RunnerActs PROVE TurnInvariant'
  BY <1>10 DEF RunnerActs, slots
<1>11. ASSUME RunTaskReturns PROVE TurnInvariant'
  BY <1>11 DEF RunTaskReturns, TurnGoesTo, ClearActive
<1>12. ASSUME RunRaises PROVE TurnInvariant'
  BY <1>12 DEF RunRaises, TurnGoesTo, slots
<1>13. ASSUME AskOwner PROVE TurnInvariant'
  BY <1>13 DEF AskOwner, TurnGoesTo, ClearActive, Unsaid
<1>14. ASSUME GiveUpListening PROVE TurnInvariant'
  BY <1>14 DEF GiveUpListening, TurnGoesTo, ClearActive
<1>15. ASSUME AnswerStop PROVE TurnInvariant'
  BY <1>15 DEF AnswerStop, TurnGoesTo, slots
<1>16. ASSUME AskAgain PROVE TurnInvariant'
  BY <1>16 DEF AskAgain, TurnGoesTo, Unsaid
<1>17. ASSUME AcceptAnswer PROVE TurnInvariant'
  BY <1>17 DEF AcceptAnswer, TurnGoesTo
<1>18. ASSUME Recheck PROVE TurnInvariant'
  BY <1>18 DEF Recheck, TurnGoesTo, slots
<1>19. ASSUME NEW ending \in {"completed", "failed", "cancelled"}, AnswerPlaybackEnds(ending) PROVE TurnInvariant'
  <2>1. /\ actionTurn' = [actionTurn EXCEPT !.pc = "ending", !.ending = ending]
        /\ actionTurn.pc \in {"say", "playing"} /\ UNCHANGED <<slots, stopper>>
    BY <1>19 DEF AnswerPlaybackEnds
  <2>2. CASE ending = "completed"
    <3>1. PICK cut : said' = [result |-> said.result \cup ({result} \cap {actionTurn.task}),
                              question |-> said.question \cup ({question} \cap {actionTurn.task}),
                              cutOff |-> cut]
      BY <1>19, <2>2 DEF AnswerPlaybackEnds
    <3> QED BY <2>1, <2>2, <3>1 DEF slots
  <2>3. CASE ending # "completed"
    <3>1. UNCHANGED said BY <1>19, <2>3 DEF AnswerPlaybackEnds
    <3> QED BY <2>1, <2>3, <3>1 DEF slots
  <2> QED BY <2>2, <2>3
<1>27. ASSUME WordsHandedOver PROVE TurnInvariant'
  BY <1>27 DEF WordsHandedOver, TurnGoesTo, slots
<1>20. ASSUME TakeSlots PROVE TurnInvariant'
  <2>1. /\ actionTurn.pc = "ending" /\ actionTurn.finishes = "none"
        /\ UNCHANGED <<active, stopper, said>>
    BY <1>20 DEF TakeSlots
  <2>2. CASE result # None
    <3>1. /\ result' = None /\ UNCHANGED question
          /\ actionTurn' = [actionTurn EXCEPT !.finishes = "result", !.task = result]
      BY <1>20, <2>2 DEF TakeSlots
    <3> QED BY <2>1, <2>2, <3>1
  <2>3. CASE result = None /\ question # None
    <3>1. /\ question' = None /\ UNCHANGED result
          /\ actionTurn' = [actionTurn EXCEPT !.finishes = "question", !.task = question]
      BY <1>20, <2>3 DEF TakeSlots
    <3> QED BY <2>1, <2>3, <3>1
  <2>4. CASE result = None /\ question = None
    BY <1>20, <2>1, <2>4 DEF TakeSlots, IdleTurn
  <2> QED BY <2>2, <2>3, <2>4
<1>21. ASSUME Decide PROVE TurnInvariant'
  BY <1>21 DEF Decide, slots
<1>22. ASSUME FinishResult PROVE TurnInvariant'
  BY <1>22 DEF FinishResult, IdleTurn, ClearActive
<1>23. ASSUME FinishQuestion PROVE TurnInvariant'
  BY <1>23 DEF FinishQuestion, IdleTurn, ClearActive
<1>24. ASSUME StopReads PROVE TurnInvariant'
  BY <1>24 DEF StopReads, slots
<1>25. ASSUME StopTask PROVE TurnInvariant'
  BY <1>25 DEF StopTask, IdleStopper, slots
<1>26. ASSUME StopQuestion PROVE TurnInvariant'
  BY <1>26 DEF StopQuestion, IdleStopper
<1> QED BY <1>1, <1>2, <1>3, <1>4, <1>5, <1>6, <1>7, <1>8, <1>9, <1>10, <1>11, <1>12, 
           <1>13, <1>14, <1>15, <1>16, <1>17, <1>18, <1>19, <1>20, <1>21, <1>22, <1>23, 
           <1>24, <1>25, <1>26, <1>27 DEF Next, TurnStep


LEMMA RecordKeeps == Record(ledger, said) /\ TurnInvariant /\ [Next]_vars => Record(ledger, said)'
<1> SUFFICES ASSUME Record(ledger, said) /\ TurnInvariant, [Next]_vars PROVE Record(ledger, said)'
  OBVIOUS
<1>1. CASE UNCHANGED vars
  BY <1>1 DEF vars, slots, stopPath
<1>2. ASSUME NEW t \in Tasks, BeginTask(t) PROVE Record(ledger, said)'
  BY <1>2 DEF BeginTask, Record, RowShape, NewTurn, TurnInvariant, ActionsShape
<1>3. ASSUME NEW t \in Tasks, BeginAnswer(t) PROVE Record(ledger, said)'
  BY <1>3 DEF BeginAnswer, Record, slots, NewTurn, TurnInvariant, ActionsShape
<1>4. ASSUME NEW t \in Tasks, OwnerSignals(t) PROVE Record(ledger, said)'
  BY <1>4 DEF OwnerSignals, Record, slots, RowShape
<1>5. ASSUME NEW t \in Tasks, TimePasses(t) PROVE Record(ledger, said)'
  BY <1>5 DEF TimePasses, Record, slots, RowShape
<1>6. ASSUME ArmListener PROVE Record(ledger, said)'
  BY <1>6 DEF ArmListener, Record, slots
<1>7. ASSUME CannotArm PROVE Record(ledger, said)'
  <2> DEFINE t == actionTurn.task
  <2>1. t \in Tasks BY <1>7 DEF CannotArm, TurnInvariant, ActionsShape, TurnOwnsTheSlots, Finishing
  <2>2. RowShape(ledger[t]) BY <2>1 DEF Record
  <2>3. UNCHANGED said BY <1>7 DEF CannotArm
  <2>4. WriteIfAllowed(t, Cancelled(ledger[t])) BY <1>7 DEF CannotArm
  <2>5. CASE WriteIfAllowed(t, Cancelled(ledger[t])) BY <2>5, <2>1, <2>2, <2>3, QuietRows, QuietWrite
  <2> QED BY <2>4, <2>5
<1>8. ASSUME AcknowledgeTask PROVE Record(ledger, said)'
  BY <1>8 DEF AcknowledgeTask, Record, slots
<1>9. ASSUME CloseAtAcknowledgment PROVE Record(ledger, said)'
  <2> DEFINE t == actionTurn.task
  <2>1. t \in Tasks BY <1>9 DEF CloseAtAcknowledgment, TurnInvariant, ActionsShape, TurnOwnsTheSlots, Finishing
  <2>2. RowShape(ledger[t]) BY <2>1 DEF Record
  <2>3. UNCHANGED said BY <1>9 DEF CloseAtAcknowledgment
  <2>4. WriteIfAllowed(t, Cancelled(ledger[t])) \/ WriteIfAllowed(t, {ledger[t]}) BY <1>9 DEF CloseAtAcknowledgment
  <2>5. CASE WriteIfAllowed(t, Cancelled(ledger[t])) BY <2>5, <2>1, <2>2, <2>3, QuietRows, QuietWrite
  <2>6. CASE WriteIfAllowed(t, {ledger[t]}) BY <2>6, <2>1, <2>2, <2>3, QuietRows, QuietWrite
  <2> QED BY <2>4, <2>5, <2>6
<1>10. ASSUME RunnerActs PROVE Record(ledger, said)'
  <2>1. actionTurn.task \in Tasks BY <1>10 DEF RunnerActs, TurnInvariant, ActionsShape
  <2> QED BY <1>10, <2>1 DEF RunnerActs, Record, RowShape, slots
<1>11. ASSUME RunTaskReturns PROVE Record(ledger, said)'
  <2> DEFINE t == actionTurn.task
  <2>1. t \in Tasks BY <1>11 DEF RunTaskReturns, TurnInvariant, ActionsShape, TurnOwnsTheSlots, Finishing
  <2>2. RowShape(ledger[t]) BY <2>1 DEF Record
  <2>3. UNCHANGED said BY <1>11 DEF RunTaskReturns
  <2>4. UNCHANGED ledger \/ WriteIfAllowed(t, Cancelled(ledger[t])) BY <1>11 DEF RunTaskReturns
  <2>5. CASE UNCHANGED ledger BY <2>5, <2>3 DEF Record
  <2>6. CASE WriteIfAllowed(t, Cancelled(ledger[t])) BY <2>6, <2>1, <2>2, <2>3, QuietRows, QuietWrite
  <2> QED BY <2>4, <2>5, <2>6
<1>12. ASSUME RunRaises PROVE Record(ledger, said)'
  <2> DEFINE t == actionTurn.task
  <2>1. t \in Tasks BY <1>12 DEF RunRaises, TurnInvariant, ActionsShape, TurnOwnsTheSlots, Finishing
  <2>2. RowShape(ledger[t]) BY <2>1 DEF Record
  <2>3. UNCHANGED said BY <1>12 DEF RunRaises, slots
  <2>4. \/ UNCHANGED ledger \/ ledger' = [ledger EXCEPT ![t].state = "recovery_required"]
        \/ WriteIfAllowed(t, CompletedRow(ledger[t], "failed"))
    BY <1>12 DEF RunRaises
  <2>5. CASE UNCHANGED ledger BY <2>5, <2>3 DEF Record
  <2>6. CASE ledger' = [ledger EXCEPT ![t].state = "recovery_required"]
    <3>1. ASSUME NEW u \in Tasks
          PROVE  RowShape(ledger'[u]) /\ ledger'[u].asked = ledger[u].asked
                 /\ ledger'[u].state \in {ledger[u].state, "recovery_required"}
      BY <2>6 DEF Record, RowShape
    <3>2. DOMAIN ledger' = Tasks BY <2>6 DEF Record
    <3> QED BY <2>3, <3>1, <3>2 DEF Record
  <2>7. CASE WriteIfAllowed(t, CompletedRow(ledger[t], "failed"))
    BY <2>7, <2>1, <2>2, <2>3, QuietRows, QuietWrite
  <2> QED BY <2>4, <2>5, <2>6, <2>7
<1>13. ASSUME AskOwner PROVE Record(ledger, said)'
  <2> DEFINE t == actionTurn.task
  <2>1. t \in Tasks BY <1>13 DEF AskOwner, TurnInvariant, ActionsShape, TurnOwnsTheSlots, Finishing
  <2>2. RowShape(ledger[t]) BY <2>1 DEF Record
  <2>3. PICK next \in Asked(ledger[t]) : ledger' = [ledger EXCEPT ![t] = next]
    BY <1>13 DEF AskOwner, Write
  <2>4. RowShape(next) /\ next.asked = "pending" /\ next.state = "awaiting_clarification"
    BY <2>2, <2>3, RowsKeepTheRecord
  <2>5. DOMAIN said = {"result", "question", "cutOff"} BY DEF TurnInvariant, ActionsShape
  <2> QED BY <1>13, <2>1, <2>3, <2>4, <2>5 DEF AskOwner, Record, Unsaid
<1>14. ASSUME GiveUpListening PROVE Record(ledger, said)'
  <2> DEFINE t == actionTurn.task
  <2>1. t \in Tasks BY <1>14 DEF GiveUpListening, TurnInvariant, ActionsShape, TurnOwnsTheSlots, Finishing
  <2>2. RowShape(ledger[t]) BY <2>1 DEF Record
  <2>3. UNCHANGED said BY <1>14 DEF GiveUpListening
  <2>4. \/ UNCHANGED ledger
        \/ WriteIfAllowed(t, Cancelled(ledger[t]))
        \/ WriteIfAllowed(t, CompletedRow(ledger[t], "failed"))
    BY <1>14 DEF GiveUpListening
  <2>5. CASE UNCHANGED ledger BY <2>5, <2>3 DEF Record
  <2>6. CASE WriteIfAllowed(t, Cancelled(ledger[t])) BY <2>6, <2>1, <2>2, <2>3, QuietRows, QuietWrite
  <2>7. CASE WriteIfAllowed(t, CompletedRow(ledger[t], "failed")) BY <2>7, <2>1, <2>2, <2>3, QuietRows, QuietWrite
  <2> QED BY <2>4, <2>5, <2>6, <2>7
<1>15. ASSUME AnswerStop PROVE Record(ledger, said)'
  <2> DEFINE t == actionTurn.task
  <2>1. t \in Tasks BY <1>15 DEF AnswerStop, TurnInvariant, ActionsShape, TurnOwnsTheSlots, Finishing
  <2>2. RowShape(ledger[t]) BY <2>1 DEF Record
  <2>3. UNCHANGED said BY <1>15 DEF AnswerStop, slots
  <2>4. UNCHANGED ledger \/ Write(t, Cancelled(ledger[t])) BY <1>15 DEF AnswerStop
  <2>5. CASE UNCHANGED ledger BY <2>5, <2>3 DEF Record
  <2>6. CASE Write(t, Cancelled(ledger[t])) BY <2>6, <2>1, <2>2, <2>3, QuietRows, QuietWrite
  <2> QED BY <2>4, <2>5, <2>6
<1>16. ASSUME AskAgain PROVE Record(ledger, said)'
  <2> DEFINE t == actionTurn.task
  <2>1. t \in Tasks BY <1>16 DEF AskAgain, TurnInvariant, ActionsShape, TurnOwnsTheSlots, Finishing
  <2>2. RowShape(ledger[t]) BY <2>1 DEF Record
  <2>3. DOMAIN said = {"result", "question", "cutOff"} BY DEF TurnInvariant, ActionsShape
  <2>4. CASE (\E row \in Resumed(ledger[t]) : Write(t, Asked(row))) /\ Unsaid(t)
    <3>0. PICK row \in Resumed(ledger[t]) : Write(t, Asked(row)) BY <2>4
    <3>1. PICK next \in Asked(row) : ledger' = [ledger EXCEPT ![t] = next] BY <3>0 DEF Write
    <3>2. RowShape(row) BY <2>2, <3>0, RowsKeepTheRecord
    <3>3. RowShape(next) /\ next.asked = "pending" /\ next.state = "awaiting_clarification"
      BY <3>1, <3>2, RowsKeepTheRecord
    <3> QED BY <2>1, <2>3, <2>4, <3>1, <3>3 DEF Unsaid, Record
  <2>5. CASE WriteIfAllowed(t, Resumed(ledger[t])) /\ UNCHANGED said
    BY <2>5, <2>1, <2>2, QuietRows, QuietWrite
  <2> QED BY <1>16, <2>4, <2>5 DEF AskAgain
<1>17. ASSUME AcceptAnswer PROVE Record(ledger, said)'
  <2> DEFINE t == actionTurn.task
  <2>1. t \in Tasks BY <1>17 DEF AcceptAnswer, TurnInvariant, ActionsShape, TurnOwnsTheSlots, Finishing
  <2>2. RowShape(ledger[t]) BY <2>1 DEF Record
  <2>3. UNCHANGED said BY <1>17 DEF AcceptAnswer
  <2>4. UNCHANGED ledger \/ Write(t, Resumed(ledger[t])) BY <1>17 DEF AcceptAnswer
  <2>5. CASE UNCHANGED ledger BY <2>5, <2>3 DEF Record
  <2>6. CASE Write(t, Resumed(ledger[t])) BY <2>6, <2>1, <2>2, <2>3, QuietRows, QuietWrite
  <2> QED BY <2>4, <2>5, <2>6
<1>18. ASSUME Recheck PROVE Record(ledger, said)'
  BY <1>18 DEF Recheck, Record, slots
<1>19. ASSUME NEW ending \in {"completed", "failed", "cancelled"}, AnswerPlaybackEnds(ending) PROVE Record(ledger, said)'
  <2>1. DOMAIN said = {"result", "question", "cutOff"} BY DEF TurnInvariant, ActionsShape
  <2> QED BY <1>19, <2>1 DEF AnswerPlaybackEnds, Record
<1>27. ASSUME WordsHandedOver PROVE Record(ledger, said)'
  BY <1>27 DEF WordsHandedOver, Record, slots
<1>20. ASSUME TakeSlots PROVE Record(ledger, said)'
  BY <1>20 DEF TakeSlots, Record
<1>21. ASSUME Decide PROVE Record(ledger, said)'
  BY <1>21 DEF Decide, Record, slots
<1>22. ASSUME FinishResult PROVE Record(ledger, said)'
  <2> DEFINE t == actionTurn.task
  <2>1. t \in Tasks BY <1>22 DEF FinishResult, TurnInvariant, ActionsShape, TurnOwnsTheSlots, Finishing
  <2>2. RowShape(ledger[t]) BY <2>1 DEF Record
  <2>3. /\ UNCHANGED said /\ WriteIfAllowed(t, SettledResult(ledger[t]))
        /\ actionTurn.finishes \in {"over", "succeed", "fail", "cancel"}
    BY <1>22 DEF FinishResult
  <2>4. CASE actionTurn.finishes = "succeed" /\ ~ledger[t].cancel
    <3>1. t \in said.result BY <2>4 DEF TurnInvariant, WhatIsWrittenWasSaid
    <3>2. SettledResult(ledger[t]) = CompletedRow(ledger[t], "succeeded")
      BY <2>4 DEF SettledResult
    <3>3. CASE Write(t, CompletedRow(ledger[t], "succeeded"))
      <4>1. PICK next \in CompletedRow(ledger[t], "succeeded") :
              ledger' = [ledger EXCEPT ![t] = next]
        BY <3>3 DEF Write
      <4>2. RowShape(next) /\ next.asked = ledger[t].asked
        BY <2>2, <4>1, RowsKeepTheRecord
      <4> QED BY <2>1, <2>3, <3>1, <4>1, <4>2 DEF Record
    <3>4. CASE UNCHANGED ledger BY <2>3, <3>4 DEF Record
    <3> QED BY <2>3, <3>2, <3>3, <3>4 DEF WriteIfAllowed
  <2>5. CASE ~(actionTurn.finishes = "succeed" /\ ~ledger[t].cancel)
    <3>1. \/ WriteIfAllowed(t, Cancelled(ledger[t]))
          \/ WriteIfAllowed(t, CompletedRow(ledger[t], "failed"))
          \/ WriteIfAllowed(t, {ledger[t]})
      <4>1. CASE actionTurn.finishes \in {"succeed", "cancel"}
        <5>1. SettledResult(ledger[t]) = Cancelled(ledger[t]) BY <2>5, <4>1 DEF SettledResult
        <5> QED BY <2>3, <5>1
      <4>2. CASE actionTurn.finishes = "fail"
        <5>1. SettledResult(ledger[t]) = CompletedRow(ledger[t], "failed")
          BY <4>2 DEF SettledResult
        <5> QED BY <2>3, <5>1
      <4>3. CASE actionTurn.finishes = "over"
        <5>1. SettledResult(ledger[t]) = {ledger[t]} BY <4>3 DEF SettledResult
        <5> QED BY <2>3, <5>1
      <4> QED BY <2>3, <4>1, <4>2, <4>3
    <3>2. CASE WriteIfAllowed(t, Cancelled(ledger[t]))
      BY <3>2, <2>1, <2>2, <2>3, QuietRows, QuietWrite
    <3>3. CASE WriteIfAllowed(t, CompletedRow(ledger[t], "failed"))
      BY <3>3, <2>1, <2>2, <2>3, QuietRows, QuietWrite
    <3>4. CASE WriteIfAllowed(t, {ledger[t]})
      BY <3>4, <2>1, <2>2, <2>3, QuietRows, QuietWrite
    <3> QED BY <3>1, <3>2, <3>3, <3>4
  <2> QED BY <2>4, <2>5
<1>23. ASSUME FinishQuestion PROVE Record(ledger, said)'
  <2> DEFINE t == actionTurn.task
  <2>1. t \in Tasks BY <1>23 DEF FinishQuestion, TurnInvariant, ActionsShape, TurnOwnsTheSlots, Finishing
  <2>2. RowShape(ledger[t]) BY <2>1 DEF Record
  <2>3. /\ UNCHANGED said /\ WriteIfAllowed(t, Delivered(ledger[t], actionTurn.ending = "completed"))
        /\ actionTurn.finishes = "question"
    BY <1>23 DEF FinishQuestion
  <2>4. CASE Write(t, Delivered(ledger[t], actionTurn.ending = "completed"))
    <3>1. PICK next \in Delivered(ledger[t], actionTurn.ending = "completed") :
            ledger' = [ledger EXCEPT ![t] = next]
      BY <2>4 DEF Write
    <3>2. /\ RowShape(next) /\ next.state = ledger[t].state
          /\ next.asked = IF actionTurn.ending = "completed" THEN "played" ELSE "failed"
      BY <2>2, <3>1, RowsKeepTheRecord
    <3>3. actionTurn.ending = "completed" => t \in said.question
      BY <2>3 DEF TurnInvariant, WhatIsWrittenWasSaid
    <3> QED BY <2>1, <2>3, <3>1, <3>2, <3>3 DEF Record
  <2>5. CASE UNCHANGED ledger BY <2>3, <2>5 DEF Record
  <2> QED BY <2>3, <2>4, <2>5 DEF WriteIfAllowed
<1>24. ASSUME StopReads PROVE Record(ledger, said)'
  BY <1>24 DEF StopReads, Record, slots
<1>25. ASSUME StopTask PROVE Record(ledger, said)'
  <2>1. stopper.task \in Tasks BY <1>25 DEF StopTask, TurnInvariant, ActionsShape
  <2> QED BY <1>25, <2>1 DEF StopTask, Record, RowShape, slots
<1>26. ASSUME StopQuestion PROVE Record(ledger, said)'
  <2> DEFINE t == stopper.task
  <2>1. t \in Tasks BY <1>26 DEF StopQuestion, TurnInvariant, ActionsShape
  <2>2. RowShape(ledger[t]) /\ UNCHANGED said BY <1>26, <2>1 DEF Record, StopQuestion
  <2>3. UNCHANGED ledger \/ Write(t, Cancelled(ledger[t])) BY <1>26 DEF StopQuestion
  <2>4. CASE UNCHANGED ledger BY <2>2, <2>4 DEF Record
  <2>5. CASE Write(t, Cancelled(ledger[t])) BY <2>1, <2>2, <2>5, QuietRows, QuietWrite
  <2> QED BY <2>3, <2>4, <2>5
<1> QED BY <1>1, <1>2, <1>3, <1>4, <1>5, <1>6, <1>7, <1>8, <1>9, <1>10, <1>11, <1>12, 
           <1>13, <1>14, <1>15, <1>16, <1>17, <1>18, <1>19, <1>20, <1>21, <1>22, <1>23, 
           <1>24, <1>25, <1>26, <1>27 DEF Next, TurnStep


\* Whoever stops, fails or expires the task meanwhile, and however its playback ends
\* (complete_after_playback, fail_after_playback), the ledger has a task succeeded or a question
\* delivered only when its words were handed over in full to a playback that did not fail.
THEOREM TheSaidIsRecorded == Spec => []OnlyTheSaidIsRecorded
<1>1. Init => SaidInvariant
  BY ActionsAssumption DEF Init, SaidInvariant, Record, RowShape, TurnInvariant, ActionsShape, TurnOwnsTheSlots,
     Finishing, WhatIsWrittenWasSaid, IdleTurn, IdleStopper
<1>2. SaidInvariant /\ [Next]_vars => SaidInvariant'
  BY TurnKeeps, RecordKeeps DEF SaidInvariant
<1>3. SaidInvariant => OnlyTheSaidIsRecorded
  <2> SUFFICES ASSUME Record(ledger, said), NEW t \in Tasks
               PROVE  /\ ledger[t].state = "succeeded" => t \in said.result
                      /\ ledger[t].asked = "played" => t \in said.question
    BY DEF SaidInvariant, OnlyTheSaidIsRecorded
  <2> QED BY DEF Record
<1> QED BY <1>1, <1>2, <1>3, PTL DEF Spec

-----------------------------------------------------------------------------
(* The voice of a turn that returned.                                       *)

\* The workers of later turns are not started, and those of earlier ones are over, unless their
\* turn raised; what is still said is said by the turn that is answering.
SpeechShape ==
  /\ DOMAIN speech = Turns /\ turn.k \in Nat
  /\ \A k \in Turns : DOMAIN speech[k] = DOMAIN NoSpeech
  /\ DOMAIN turn = {"at", "k", "chunks", "woken", "last", "completed", "raised"}
  /\ DOMAIN full = {"at", "stopping", "hushed", "found"}

LaterTurnsAreMute == \A k \in Turns : k > turn.k => ~Speaking(k)

SilenceInvariant == SpeechShape /\ LaterTurnsAreMute /\ SilentAfterTurn

AnsweringSteps == {"route", "generate", "complete", "check", "put", "yielded",
                   "flush", "wrap", "closing", "cancelRuntime", "join"}

\* What the session thread does to its own place, when nothing begins to be said.
LEMMA SessionMoves ==
  ASSUME SilenceInvariant, UNCHANGED <<speech, full>>, turn'.at # "result",
         DOMAIN turn' = DOMAIN turn, turn'.k = turn.k, turn.raised \subseteq turn'.raised,
         Answering => turn'.at \in AnsweringSteps
  PROVE  SilenceInvariant'
BY DEF SilenceInvariant, SpeechShape, LaterTurnsAreMute, SilentAfterTurn, Speaking, Answering,
       AnsweringSteps

LEMMA SessionGoes ==
  ASSUME SilenceInvariant, NEW step, Goto(step), step # "result",
         Answering => step \in AnsweringSteps, UNCHANGED <<speech, full>>
  PROVE  SilenceInvariant'
<1>1. /\ DOMAIN turn' = DOMAIN turn /\ turn'.k = turn.k /\ turn'.raised = turn.raised
      /\ turn'.at = step
  BY DEF Goto, SilenceInvariant, SpeechShape
<1> QED BY <1>1, SessionMoves

LEMMA SessionFails ==
  ASSUME SilenceInvariant, Fail, ~Answering, UNCHANGED <<speech, full>>
  PROVE  SilenceInvariant'
<1>1. /\ DOMAIN turn' = DOMAIN turn /\ turn'.k = turn.k /\ turn.raised \subseteq turn'.raised
      /\ turn'.at = "failed"
  BY DEF Fail, FailWith, SilenceInvariant, SpeechShape
<1> QED BY <1>1, SessionMoves

\* Nothing is said that was not said before, but by the turn that answers.
LEMMA SpeechMoves ==
  ASSUME SilenceInvariant, DOMAIN speech' = Turns,
         \A k \in Turns : DOMAIN speech'[k] = DOMAIN NoSpeech
                          /\ (Speaking(k)' => Speaking(k) \/ (k = turn.k /\ Answering)),
         DOMAIN turn' = DOMAIN turn, turn'.k = turn.k, turn.raised \subseteq turn'.raised,
         Answering => turn'.at \in AnsweringSteps \/ turn.k \in turn'.raised
                      \/ (turn.k \in Turns => ~Speaking(turn.k)'),
         turn'.at # "result", UNCHANGED full
  PROVE  SilenceInvariant'
<1> USE DEF SilenceInvariant, SpeechShape
<1>1. ASSUME NEW k \in Turns, k > turn'.k PROVE ~Speaking(k)'
  BY <1>1 DEF LaterTurnsAreMute
<1>2. ASSUME NEW k \in Turns, Speaking(k)'
      PROVE  k \in turn'.raised \/ (k = turn'.k /\ turn'.at \in AnsweringSteps)
  <2>1. k \in turn.raised \/ (k = turn.k /\ Answering) BY <1>2 DEF SilentAfterTurn
  <2> QED BY <2>1, <1>2
<1> QED BY <1>1, <1>2 DEF LaterTurnsAreMute, SilentAfterTurn, Answering, AnsweringSteps

LEMMA TurnRaises ==
  ASSUME SilenceInvariant, Raise, UNCHANGED full
  PROVE  SilenceInvariant'
<1>1. /\ DOMAIN turn' = DOMAIN turn /\ turn'.k = turn.k /\ turn.raised \subseteq turn'.raised
      /\ turn.k \in turn'.raised /\ turn'.at = "unmonitor"
  BY DEF Raise, SilenceInvariant, SpeechShape
<1>2. DOMAIN speech' = Turns /\ \A k \in Turns : DOMAIN speech'[k] = DOMAIN NoSpeech
                                                /\ speech'[k].at = speech[k].at
  BY DEF Raise, SilenceInvariant, SpeechShape, NoSpeech
<1>3. \A k \in Turns : Speaking(k)' => Speaking(k) BY <1>2 DEF Speaking
<1> QED BY <1>1, <1>2, <1>3, SpeechMoves

LEMMA SilenceStep == SilenceInvariant /\ [VoiceNext]_voiceVars => SilenceInvariant'
<1> SUFFICES ASSUME SilenceInvariant, [VoiceNext]_voiceVars PROVE SilenceInvariant'
  OBVIOUS
<1>1. CASE UNCHANGED voiceVars
  BY <1>1 DEF voiceVars, SilenceInvariant, SpeechShape, LaterTurnsAreMute, SilentAfterTurn, Speaking, Answering
<1>2. ASSUME Wake PROVE SilenceInvariant'
  <2>1. /\ turn' = [turn EXCEPT !.at = "start", !.woken = TRUE] /\ ~Answering
        /\ UNCHANGED <<speech, full>>
    BY <1>2 DEF Wake, Answering
  <2>2. DOMAIN turn' = DOMAIN turn /\ turn'.k = turn.k /\ turn'.raised = turn.raised
        /\ turn'.at = "start"
    BY <2>1 DEF SilenceInvariant, SpeechShape
  <2> QED BY <2>1, <2>2, SessionMoves
<1>3. ASSUME StartListening PROVE SilenceInvariant'
  <2>1. ~Answering /\ UNCHANGED <<speech, full>> BY <1>3 DEF StartListening, Answering
  <2>2. \/ turn' = [turn EXCEPT !.at = "transcribe", !.woken = FALSE]
        \/ Goto("ack") \/ Goto("capture") \/ Fail
    BY <1>3 DEF StartListening
  <2>3. CASE turn' = [turn EXCEPT !.at = "transcribe", !.woken = FALSE]
    <3>1. DOMAIN turn' = DOMAIN turn /\ turn'.k = turn.k /\ turn'.raised = turn.raised
          /\ turn'.at = "transcribe"
      BY <2>3 DEF SilenceInvariant, SpeechShape
    <3> QED BY <2>1, <3>1, SessionMoves
  <2> QED BY <2>1, <2>2, <2>3, SessionGoes, SessionFails
<1>4. ASSUME Acknowledge PROVE SilenceInvariant'
  <2>1. ~Answering /\ UNCHANGED <<speech, full>> BY <1>4 DEF Acknowledge, Answering
  <2> QED BY <1>4, <2>1, SessionGoes, SessionFails DEF Acknowledge
<1>5. ASSUME Acknowledged PROVE SilenceInvariant'
  <2>1. ~Answering /\ UNCHANGED <<speech, full>> BY <1>5 DEF Acknowledged, Answering
  <2> QED BY <1>5, <2>1, SessionGoes, SessionFails DEF Acknowledged
<1>6. ASSUME Capture PROVE SilenceInvariant'
  <2>1. ~Answering /\ UNCHANGED <<speech, full>> BY <1>6 DEF Capture, Answering
  <2>2. turn' = [turn EXCEPT !.at = "transcribe", !.woken = FALSE] \/ Goto("away") \/ Fail
    BY <1>6 DEF Capture
  <2>3. CASE turn' = [turn EXCEPT !.at = "transcribe", !.woken = FALSE]
    <3>1. DOMAIN turn' = DOMAIN turn /\ turn'.k = turn.k /\ turn'.raised = turn.raised
          /\ turn'.at = "transcribe"
      BY <2>3 DEF SilenceInvariant, SpeechShape
    <3> QED BY <2>1, <3>1, SessionMoves
  <2> QED BY <2>1, <2>2, <2>3, SessionGoes, SessionFails
<1>7. ASSUME Transcribe PROVE SilenceInvariant'
  <2>1. ~Answering /\ UNCHANGED <<speech, full>> BY <1>7 DEF Transcribe, Answering
  <2> QED BY <1>7, <2>1, SessionGoes, SessionFails DEF Transcribe
<1>8. ASSUME Heard PROVE SilenceInvariant'
  <2>1. ~Answering /\ UNCHANGED speech BY <1>8 DEF Heard, Answering
  <2>2. CASE turn' = [turn EXCEPT !.at = "route", !.k = @ + 1, !.chunks = 0,
                                  !.last = FALSE, !.completed = FALSE]
             /\ full' = [at |-> "listening", stopping |-> FALSE, hushed |-> FALSE,
                         found |-> "none"]
    <3>1. /\ DOMAIN turn' = DOMAIN turn /\ turn'.k = turn.k + 1 /\ turn'.raised = turn.raised
          /\ turn'.at = "route"
      BY <2>2 DEF SilenceInvariant, SpeechShape
    <3>2. turn'.k \in Nat /\ \A k \in Turns : k > turn'.k => k > turn.k
      BY <3>1 DEF SilenceInvariant, SpeechShape, Turns
    <3> QED BY <2>1, <2>2, <3>1, <3>2
         DEF SilenceInvariant, SpeechShape, LaterTurnsAreMute, SilentAfterTurn, Speaking, Answering
  <2>3. CASE UNCHANGED full /\ (Fail \/ \E step \in {"start", "away"} : Goto(step))
    BY <2>1, <2>3, SessionGoes, SessionFails
  <2> QED BY <1>8, <2>2, <2>3 DEF Heard
<1>9. ASSUME Route PROVE SilenceInvariant'
  <2>1. Answering /\ UNCHANGED full BY <1>9 DEF Route, Answering
  <2>2. Raise \/ (UNCHANGED speech /\ (Goto("flush") \/ Goto("generate"))) BY <1>9 DEF Route
  <2> QED BY <2>1, <2>2, SessionGoes, TurnRaises DEF AnsweringSteps
<1>10. ASSUME Generate PROVE SilenceInvariant'
  <2>1. Answering /\ UNCHANGED full BY <1>10 DEF Generate, Answering
  <2>2. Raise \/ (UNCHANGED speech /\ \E step \in {"flush", "check", "complete"} : Goto(step))
    BY <1>10 DEF Generate
  <2> QED BY <2>1, <2>2, SessionGoes, TurnRaises DEF AnsweringSteps
<1>11. ASSUME Complete PROVE SilenceInvariant'
  <2>1. Answering /\ UNCHANGED full BY <1>11 DEF Complete, Answering
  <2> QED BY <1>11, <2>1, SessionGoes, TurnRaises DEF Complete, AnsweringSteps
<1>12. ASSUME CheckChunk PROVE SilenceInvariant'
  <2>1. Answering /\ UNCHANGED full BY <1>12 DEF CheckChunk, Answering
  <2>2. CASE /\ speech' = [speech EXCEPT ![turn.k].muted = TRUE, ![turn.k].closed = TRUE]
             /\ Goto("wrap")
    <3>1. /\ DOMAIN turn' = DOMAIN turn /\ turn'.k = turn.k /\ turn'.raised = turn.raised
          /\ turn'.at = "wrap"
      BY <2>2 DEF Goto, SilenceInvariant, SpeechShape
    <3>2. DOMAIN speech' = Turns
          /\ \A k \in Turns : DOMAIN speech'[k] = DOMAIN NoSpeech /\ speech'[k].at = speech[k].at
      BY <2>2 DEF SilenceInvariant, SpeechShape, NoSpeech
    <3> QED BY <2>1, <3>1, <3>2, SpeechMoves DEF Speaking, AnsweringSteps
  <2>3. CASE UNCHANGED speech
             /\ \E step \in {"put", "yielded"} :
                   turn' = [turn EXCEPT !.at = step, !.chunks = @ + 1]
    <3>1. DOMAIN turn' = DOMAIN turn /\ turn'.k = turn.k /\ turn'.raised = turn.raised
          /\ turn'.at \in {"put", "yielded"}
      BY <2>3 DEF SilenceInvariant, SpeechShape
    <3> QED BY <2>1, <2>3, <3>1, SessionMoves DEF AnsweringSteps
  <2> QED BY <1>12, <2>1, <2>2, <2>3, TurnRaises DEF CheckChunk
<1>13. ASSUME Enqueue PROVE SilenceInvariant'
  <2>1. Answering /\ UNCHANGED full BY <1>13 DEF Enqueue, Answering
  <2>2. CASE /\ speech' = [speech EXCEPT ![turn.k].queue = @ + 1,
                                         ![turn.k].at = IF @ = "none" THEN "begin" ELSE @]
             /\ turn' = [turn EXCEPT !.at = IF turn.last THEN "wrap" ELSE "yielded",
                                     !.completed = turn.last]
    <3>1. /\ DOMAIN turn' = DOMAIN turn /\ turn'.k = turn.k /\ turn'.raised = turn.raised
          /\ turn'.at \in {"wrap", "yielded"}
      BY <2>2 DEF SilenceInvariant, SpeechShape
    <3>2. DOMAIN speech' = Turns
          /\ \A k \in Turns : DOMAIN speech'[k] = DOMAIN NoSpeech
                              /\ (k # turn.k => speech'[k].at = speech[k].at)
      BY <2>2 DEF SilenceInvariant, SpeechShape, NoSpeech
    <3> QED BY <2>1, <3>1, <3>2, SpeechMoves DEF Speaking, AnsweringSteps
  <2>3. CASE Goto("wrap") /\ UNCHANGED speech BY <2>1, <2>3, SessionGoes DEF AnsweringSteps
  <2> QED BY <1>13, <2>1, <2>2, <2>3, TurnRaises DEF Enqueue
<1>14. ASSUME Yielded PROVE SilenceInvariant'
  <2>1. Answering /\ UNCHANGED <<speech, full>> BY <1>14 DEF Yielded, Answering
  <2>2. Goto("wrap") \/ Goto("generate") BY <1>14 DEF Yielded
  <2> QED BY <2>1, <2>2, SessionGoes DEF AnsweringSteps
<1>15. ASSUME Flush PROVE SilenceInvariant'
  BY <1>15, VoiceAssumption DEF Flush, SilenceInvariant, SpeechShape, LaterTurnsAreMute,
        SilentAfterTurn, Speaking, Answering, NoSpeech, Turns
<1>16. ASSUME Wrap PROVE SilenceInvariant'
  BY <1>16, VoiceAssumption DEF Wrap, SilenceInvariant, SpeechShape, LaterTurnsAreMute,
        SilentAfterTurn, Speaking, Answering, NoSpeech, Turns
<1>17. ASSUME CloseResponse PROVE SilenceInvariant'
  <2>1. Answering /\ UNCHANGED <<speech, full>> BY <1>17 DEF CloseResponse, Answering
  <2>2. Goto("cancelRuntime") \/ Goto("join") BY <1>17 DEF CloseResponse
  <2> QED BY <2>1, <2>2, SessionGoes DEF AnsweringSteps
<1>18. ASSUME CancelRuntime PROVE SilenceInvariant'
  <2>1. Answering /\ UNCHANGED full BY <1>18 DEF CancelRuntime, Answering
  <2> QED BY <1>18, <2>1, SessionGoes, TurnRaises DEF CancelRuntime, AnsweringSteps
<1>19. ASSUME JoinSpeech PROVE SilenceInvariant'
  <2>1. UNCHANGED full /\ (Raise \/ (Goto("unmonitor") /\ UNCHANGED speech)) BY <1>19 DEF JoinSpeech
  <2>2. CASE Goto("unmonitor") /\ UNCHANGED speech
    <3>1. /\ DOMAIN turn' = DOMAIN turn /\ turn'.k = turn.k /\ turn'.raised = turn.raised
          /\ turn'.at = "unmonitor"
      BY <2>2 DEF Goto, SilenceInvariant, SpeechShape
    <3>2. ~Speaking(turn.k)' BY <1>19, <2>2, <3>1 DEF JoinSpeech, Sp, Speaking
    <3>3. \A k \in Turns : Speaking(k)' <=> Speaking(k) BY <2>2 DEF Speaking
    <3> QED BY <2>1, <2>2, <3>1, <3>2, <3>3, SpeechMoves DEF SilenceInvariant, SpeechShape
  <2> QED BY <2>1, <2>2, TurnRaises
<1>20. ASSUME StopMonitor PROVE SilenceInvariant'
  BY <1>20, VoiceAssumption DEF StopMonitor, SilenceInvariant, SpeechShape, LaterTurnsAreMute,
        SilentAfterTurn, Speaking, Answering, NoSpeech, Turns
<1>21. ASSUME JoinMonitor PROVE SilenceInvariant'
  BY <1>21, VoiceAssumption DEF JoinMonitor, Goto, SilenceInvariant, SpeechShape, LaterTurnsAreMute,
        SilentAfterTurn, Speaking, Answering, NoSpeech, Turns
<1>22. ASSUME Result PROVE SilenceInvariant'
  BY <1>22, VoiceAssumption DEF Result, Goto, Sp, SilenceInvariant, SpeechShape, LaterTurnsAreMute,
        SilentAfterTurn, Speaking, Answering, NoSpeech, Turns
<1>23. ASSUME FullOnset PROVE SilenceInvariant'
  BY <1>23, VoiceAssumption DEF FullOnset, SilenceInvariant, SpeechShape, LaterTurnsAreMute,
        SilentAfterTurn, Speaking, Answering, NoSpeech, Turns
<1>24. ASSUME FullHush PROVE SilenceInvariant'
  BY <1>24, VoiceAssumption DEF FullHush, SilenceInvariant, SpeechShape, LaterTurnsAreMute,
        SilentAfterTurn, Speaking, Answering, NoSpeech, Turns
<1>25. ASSUME FullHeard PROVE SilenceInvariant'
  BY <1>25, VoiceAssumption DEF FullHeard, SilenceInvariant, SpeechShape, LaterTurnsAreMute,
        SilentAfterTurn, Speaking, Answering, NoSpeech, Turns
<1>26. ASSUME FullEnds PROVE SilenceInvariant'
  <2>1. UNCHANGED <<turn, speech>> /\ full.at # "ended" /\ full' = [full EXCEPT !.at = "ended"]
    BY <1>26 DEF FullEnds
  <2> QED BY <2>1
       DEF SilenceInvariant, SpeechShape, LaterTurnsAreMute, SilentAfterTurn, Speaking, Answering
<1>27. ASSUME NEW k \in Turns, SpeechBegins(k) PROVE SilenceInvariant'
  <2>1. /\ UNCHANGED <<turn, full>> /\ speech[k].at = "begin"
        /\ DOMAIN speech' = Turns
        /\ \A j \in Turns : j # k => speech'[j] = speech[j]
    BY <1>27 DEF SpeechBegins, SilenceInvariant, SpeechShape
  <2>2. DOMAIN speech'[k] = DOMAIN NoSpeech
    <3>1. CASE rt \in {"THINKING", "COMPLETED"}
      BY <1>27, <3>1 DEF SpeechBegins, SilenceInvariant, SpeechShape, NoSpeech
    <3>2. CASE rt \notin {"THINKING", "COMPLETED"}
      BY <1>27, <3>2 DEF SpeechBegins, Failed, SilenceInvariant, SpeechShape, NoSpeech
    <3> QED BY <3>1, <3>2
  <2>3. \A j \in Turns : Speaking(j)' => Speaking(j) BY <2>1 DEF Speaking
  <2>4. \A j \in Turns : DOMAIN speech'[j] = DOMAIN NoSpeech
    BY <2>1, <2>2 DEF SilenceInvariant, SpeechShape
  <2> QED BY <2>1, <2>3, <2>4
       DEF SilenceInvariant, SpeechShape, LaterTurnsAreMute, SilentAfterTurn, Answering
<1>28. ASSUME NEW k \in Turns, PlaybackBegins(k) PROVE SilenceInvariant'
  BY <1>28, VoiceAssumption DEF PlaybackBegins, Worker, SilenceInvariant, SpeechShape, LaterTurnsAreMute,
        SilentAfterTurn, Speaking, Answering, NoSpeech, Turns
<1>29. ASSUME NEW k \in Turns, Feed(k) PROVE SilenceInvariant'
  BY <1>29, VoiceAssumption DEF Feed, SilenceInvariant, SpeechShape, LaterTurnsAreMute,
        SilentAfterTurn, Speaking, Answering, NoSpeech, Turns
<1>30. ASSUME NEW k \in Turns, FeedEnds(k) PROVE SilenceInvariant'
  BY <1>30, VoiceAssumption DEF FeedEnds, SilenceInvariant, SpeechShape, LaterTurnsAreMute,
        SilentAfterTurn, Speaking, Answering, NoSpeech, Turns
<1>31. ASSUME NEW k \in Turns, PlaybackEnds(k) PROVE SilenceInvariant'
  BY <1>31, VoiceAssumption DEF PlaybackEnds, SilenceInvariant, SpeechShape, LaterTurnsAreMute,
        SilentAfterTurn, Speaking, Answering, NoSpeech, Turns
<1>32. ASSUME NEW k \in Turns, Judge(k) PROVE SilenceInvariant'
  BY ZenonT(40), <1>32, VoiceAssumption DEF Judge, Failed, EndsIn, SilenceInvariant, SpeechShape, LaterTurnsAreMute,
        SilentAfterTurn, Speaking, Answering, NoSpeech, Turns
<1>33. ASSUME NEW k \in Turns, PlaybackMonitorArms(k) PROVE SilenceInvariant'
  BY <1>33, VoiceAssumption DEF PlaybackMonitorArms, Monitor, SilenceInvariant, SpeechShape, LaterTurnsAreMute,
        SilentAfterTurn, Speaking, Answering, NoSpeech, Turns
<1>34. ASSUME NEW k \in Turns, PlaybackMonitorWatches(k) PROVE SilenceInvariant'
  BY SMTT(30), <1>34, VoiceAssumption DEF PlaybackMonitorWatches, Monitor, SilenceInvariant, SpeechShape, LaterTurnsAreMute,
        SilentAfterTurn, Speaking, Answering, NoSpeech, Turns
<1>35. ASSUME NEW k \in Turns, PlaybackMonitorHears(k) PROVE SilenceInvariant'
  BY <1>35, VoiceAssumption DEF PlaybackMonitorHears, SilenceInvariant, SpeechShape, LaterTurnsAreMute,
        SilentAfterTurn, Speaking, Answering, NoSpeech, Turns
<1> QED BY <1>1, <1>2, <1>3, <1>4, <1>5, <1>6, <1>7, <1>8, <1>9, <1>10, <1>11, <1>12, 
           <1>13, <1>14, <1>15, <1>16, <1>17, <1>18, <1>19, <1>20, <1>21, <1>22, <1>23, 
           <1>24, <1>25, <1>26, <1>27, <1>28, <1>29, <1>30, <1>31, <1>32, <1>33, <1>34, 
           <1>35
        DEF VoiceNext, SessionThread, FullMonitor, SpeechThread, PlaybackMonitor

\* However the owner interrupts and whichever thread comes first, a turn that returned has joined
\* its speech worker and its monitor (FridayVoiceConversationService): nothing is being said when
\* the session listens again, but by a turn that raised.
THEOREM TurnsEndInSilence == VoiceSpec => []SilentAfterTurn
<1>1. VoiceInit => SilenceInvariant
  BY DEF VoiceInit, SilenceInvariant, SpeechShape, LaterTurnsAreMute, SilentAfterTurn, Speaking,
     NoSpeech, Turns
<1>2. SilenceInvariant /\ [VoiceNext]_voiceVars => SilenceInvariant'
  BY SilenceStep
<1>3. SilenceInvariant => SilentAfterTurn
  BY DEF SilenceInvariant
<1> QED BY <1>1, <1>2, <1>3, PTL DEF VoiceSpec

-----------------------------------------------------------------------------
(* The answer to the utterance that was asked about.                        *)

\* The lines the cascade has still to read, in what was read ahead and in the pipe.
LinesOf(d) == buffer[d] \o output[d]

NoResults(s) == \A i \in DOMAIN s : s[i].kind # "result"
OneResult(s, u) ==
  /\ \A i, j \in DOMAIN s : s[i].kind = "result" /\ s[j].kind = "result" => i = j
  /\ \A i \in DOMAIN s : s[i].kind = "result" => s[i].u = u

DetectorShape ==
  /\ DOMAIN resident = Detectors /\ DOMAIN request = Detectors /\ DOMAIN ioLock = Detectors
  /\ DOMAIN output = Detectors /\ DOMAIN buffer = Detectors
  /\ \A d \in Detectors : IsSeq(output[d]) /\ IsSeq(buffer[d]) /\ IsSeq(request[d])
  /\ \A d \in Detectors : DOMAIN resident[d] = {"at", "u", "starts"}
  /\ DOMAIN cascade = {"at", "d", "u", "heard", "verdict"} /\ DOMAIN release = {"at", "d"}
  /\ cascade.d \in Detectors /\ release.d \in Detectors
  /\ cascade.u \in 0 .. MaxUtterances

\* Each of the two threads holds the lock of the detector it exchanges lines with.
LocksAreHeld ==
  /\ cascade.at \in {"ready", "send", "answer"} => ioLock[cascade.d] = "cascade"
  /\ release.at \in {"quit", "wait"} => ioLock[release.d] = "release"

Asking(d) == cascade.at = "answer" /\ cascade.d = d

\* An exchange is in one of three places: the request is in the worker's stdin, the worker is
\* hearing it, or what the worker made of it is among the lines.
InExchange(d) ==
  \/ request[d] = <<cascade.u>> /\ resident[d].at # "hearing" /\ NoResults(LinesOf(d))
  \/ /\ request[d] = << >> /\ NoResults(LinesOf(d))
     /\ resident[d].at = "hearing" /\ resident[d].u = cascade.u
  \/ request[d] = << >> /\ resident[d].at # "hearing" /\ OneResult(LinesOf(d), cascade.u)

\* Outside of an exchange there is no trace of one; only a close() has sent its quit.
AtRest(d) ==
  /\ request[d] \in {<< >>, <<Quit_>>}
  /\ request[d] # << >> => release.at = "wait" /\ release.d = d
  /\ resident[d].at # "hearing" /\ NoResults(LinesOf(d))

Exchanged(d) == (Asking(d) => InExchange(d)) /\ (~Asking(d) => AtRest(d))
USE DEF Exchanged

DetectorInvariant ==
  /\ DetectorShape /\ LocksAreHeld /\ VerdictIsOfTheUtterance
  /\ \A d \in Detectors : Exchanged(d)

\* What is read and what is emitted, in terms of the results among the lines.
LEMMA ResultsRead ==
  ASSUME NEW s, IsSeq(s), s # << >>, NEW u
  PROVE  /\ NoResults(s) => NoResults(Tail(s)) /\ Head(s).kind # "result"
         /\ OneResult(s, u) /\ Head(s).kind # "result" => OneResult(Tail(s), u)
         /\ OneResult(s, u) /\ Head(s).kind = "result" => NoResults(Tail(s)) /\ Head(s).u = u
<1>1. /\ Len(s) \in Nat \ {0} /\ DOMAIN Tail(s) = 1..(Len(s) - 1)
      /\ \A i \in DOMAIN Tail(s) : i + 1 \in DOMAIN s /\ Tail(s)[i] = s[i + 1]
      /\ DOMAIN s = 1..Len(s) /\ Head(s) = s[1]
  BY SeqTail, SeqIndices
<1>2. 1 \in DOMAIN s /\ \A i, j \in DOMAIN Tail(s) : i + 1 # 1 /\ (i + 1 = j + 1 => i = j)
  BY <1>1
<1> QED BY <1>1, <1>2 DEF NoResults, OneResult

LEMMA ResultsEmitted ==
  ASSUME NEW s, IsSeq(s), NEW line, NEW u
  PROVE  /\ NoResults(s) /\ line.kind # "result" => NoResults(Append(s, line))
         /\ NoResults(s) /\ line.kind = "result" /\ line.u = u => OneResult(Append(s, line), u)
         /\ OneResult(s, u) /\ line.kind # "result" => OneResult(Append(s, line), u)
<1>1. /\ Len(s) \in Nat /\ DOMAIN s = 1..Len(s) /\ DOMAIN Append(s, line) = 1..(Len(s) + 1)
      /\ \A i \in DOMAIN s : Append(s, line)[i] = s[i]
      /\ Append(s, line)[Len(s) + 1] = line
  BY SeqGrows
<1>2. \A i \in DOMAIN Append(s, line) : i \in DOMAIN s \/ i = Len(s) + 1
  BY <1>1
<1>3. ASSUME NoResults(s), line.kind # "result" PROVE NoResults(Append(s, line))
  BY <1>1, <1>2, <1>3 DEF NoResults
<1>4. ASSUME NoResults(s), line.kind = "result", line.u = u PROVE OneResult(Append(s, line), u)
  BY <1>1, <1>2, <1>4 DEF NoResults, OneResult
<1>5. ASSUME OneResult(s, u), line.kind # "result" PROVE OneResult(Append(s, line), u)
  BY <1>1, <1>2, <1>5 DEF OneResult
<1> QED BY <1>3, <1>4, <1>5

LEMMA NothingIsNoResult == NoResults(<< >>) /\ \A u : OneResult(<< >>, u)
BY EmptyIsSeq DEF NoResults, OneResult

LEMMA NoResultIsOne == ASSUME NEW s, NEW u, NoResults(s) PROVE OneResult(s, u)
BY DEF NoResults, OneResult

\* One detector's exchange after a step, from what the step did to it.
LEMMA OthersRest ==
  ASSUME DetectorInvariant, NEW d \in Detectors,
         UNCHANGED <<resident[d], request[d], output[d], buffer[d]>>,
         Asking(d)' <=> Asking(d), Asking(d) => UNCHANGED cascade.u,
         release.at = "wait" /\ release.d = d => release'.at = "wait" /\ release'.d = d
  PROVE  Exchanged(d)'
<1> USE DEF DetectorInvariant, LinesOf
<1>1. CASE Asking(d) BY <1>1 DEF InExchange
<1>2. CASE ~Asking(d) BY <1>2 DEF AtRest, Quit_
<1> QED BY <1>1, <1>2


\* An exchange that fails leaves nothing of itself.
LEMMA ExchangeDiscarded ==
  ASSUME DetectorInvariant, NEW d \in Detectors, Discard(d)
  PROVE  /\ DOMAIN resident' = Detectors /\ DOMAIN request' = Detectors
         /\ DOMAIN output' = Detectors /\ DOMAIN buffer' = Detectors
         /\ \A e \in Detectors : DOMAIN resident'[e] = {"at", "u", "starts"}
         /\ \A e \in Detectors : IsSeq(output'[e]) /\ IsSeq(buffer'[e]) /\ IsSeq(request'[e])
         /\ \A e \in Detectors : e # d =>
              UNCHANGED <<resident[e], request[e], output[e], buffer[e]>>
         /\ ~Asking(d)' => AtRest(d)'
<1> USE DEF DetectorInvariant, DetectorShape
<1>1. /\ DOMAIN resident' = Detectors /\ DOMAIN request' = Detectors
      /\ DOMAIN output' = Detectors /\ DOMAIN buffer' = Detectors
      /\ \A e \in Detectors : e # d =>
              UNCHANGED <<resident[e], request[e], output[e], buffer[e]>>
      /\ request'[d] = << >> /\ output'[d] = << >> /\ buffer'[d] = << >>
      /\ resident'[d].at = "none" /\ DOMAIN resident'[d] = {"at", "u", "starts"}
  BY DEF Discard
<1>2. << >> \o << >> = << >> BY EmptyIsSeq, OnlyTheFirst
<1>3. AtRest(d)' BY <1>1, <1>2, NothingIsNoResult DEF AtRest, LinesOf
<1> QED BY <1>1, <1>3, EmptyIsSeq

LEMMA FailingCloses ==
  ASSUME DetectorInvariant, FailClosed(cascade.d), ioLock[cascade.d] # "release", UNCHANGED release
  PROVE  DetectorInvariant'
<1>1. PICK d \in Detectors : d = cascade.d /\ Discard(d) /\ Abandon(d)
  BY DEF DetectorInvariant, DetectorShape, FailClosed
<1>2. /\ cascade' = [cascade EXCEPT !.at = "idle", !.verdict = "failed"]
      /\ ioLock' = [ioLock EXCEPT ![d] = "free"]
  BY <1>1 DEF Abandon
<1>3. /\ cascade'.at = "idle" /\ cascade'.d = d /\ cascade'.u = cascade.u
      /\ cascade'.heard = cascade.heard /\ DOMAIN cascade' = DOMAIN cascade
  BY <1>1, <1>2 DEF DetectorInvariant, DetectorShape
<1>4. DetectorShape'
  BY <1>1, <1>2, <1>3, ExchangeDiscarded DEF DetectorInvariant, DetectorShape
<1>5. LocksAreHeld'
  BY <1>1, <1>2, <1>3 DEF DetectorInvariant, DetectorShape, LocksAreHeld
<1>6. VerdictIsOfTheUtterance' BY <1>3 DEF DetectorInvariant, VerdictIsOfTheUtterance
<1>7. ASSUME NEW e \in Detectors PROVE Exchanged(e)'
  <2>1. ~Asking(e)' BY <1>3 DEF Asking
  <2>2. CASE e = d
    <3> QED BY <1>1, <2>1, <2>2, ExchangeDiscarded
  <2>3. CASE e # d
    <3>1. ~Asking(e) BY <1>1, <2>3 DEF Asking
    <3>2. UNCHANGED <<resident[e], request[e], output[e], buffer[e]>>
      BY <1>1, <2>3, ExchangeDiscarded
    <3> QED BY <2>1, <3>1, <3>2, OthersRest
  <2> QED BY <2>2, <2>3
<1> QED BY <1>4, <1>5, <1>6, <1>7 DEF DetectorInvariant

\* A line that is no result leaves the exchange where it is, or ends it when the worker was
\* hearing; the result of what it heard is the one result.
LEMMA ResidentEmits ==
  ASSUME DetectorInvariant, NEW d \in Detectors, NEW line, output' = [output EXCEPT ![d] = Append(@, line)],
         UNCHANGED <<buffer, ioLock, cascade, release>>
  PROVE  /\ DOMAIN output' = Detectors
         /\ \A e \in Detectors : IsSeq(output'[e])
         /\ \A e \in Detectors : e # d => output'[e] = output[e]
         /\ NoResults(LinesOf(d)) /\ line.kind # "result" => NoResults(LinesOf(d)')
         /\ NoResults(LinesOf(d)) /\ line.kind = "result" /\ line.u = cascade.u =>
              OneResult(LinesOf(d)', cascade.u)
         /\ OneResult(LinesOf(d), cascade.u) /\ line.kind # "result" =>
              OneResult(LinesOf(d)', cascade.u)
<1> USE DEF DetectorInvariant, DetectorShape
<1>1. /\ DOMAIN output' = Detectors /\ output'[d] = Append(output[d], line)
      /\ \A e \in Detectors : e # d => output'[e] = output[e]
  OBVIOUS
<1>2. IsSeq(output'[d]) BY <1>1, SeqGrows
<1>3. LinesOf(d)' = Append(LinesOf(d), line) /\ IsSeq(LinesOf(d))
  <2>1. buffer'[d] = buffer[d] /\ IsSeq(buffer[d]) /\ IsSeq(output[d]) OBVIOUS
  <2>2. IsSeq(buffer[d] \o output[d])
        /\ buffer[d] \o Append(output[d], line) = Append(buffer[d] \o output[d], line)
    BY <2>1, SaidLast
  <2> QED BY <1>1, <2>1, <2>2 DEF LinesOf
<1>4. NoResults(LinesOf(d)) /\ line.kind # "result" => NoResults(LinesOf(d)')
  BY <1>3, ResultsEmitted
<1>5. NoResults(LinesOf(d)) /\ line.kind = "result" /\ line.u = cascade.u =>
        OneResult(LinesOf(d)', cascade.u)
  BY <1>3, ResultsEmitted
<1>6. OneResult(LinesOf(d), cascade.u) /\ line.kind # "result" => OneResult(LinesOf(d)', cascade.u)
  BY <1>3, ResultsEmitted
<1>7. \A e \in Detectors : IsSeq(output'[e]) BY <1>1, <1>2
<1> QED BY <1>1, <1>4, <1>5, <1>6, <1>7

LEMMA ResidentKeeps ==
  ASSUME DetectorInvariant, NEW d \in Detectors, ResidentStep(d)
  PROVE  DetectorInvariant'
<1>1. UNCHANGED <<buffer, ioLock, cascade, release>>
  BY DEF ResidentStep, ResidentReady, ResidentReads, ResidentAnswers, ResidentChats, ResidentDies
<1> SUFFICES /\ DOMAIN resident' = Detectors /\ DOMAIN request' = Detectors /\ DOMAIN output' = Detectors
             /\ DOMAIN resident'[d] = {"at", "u", "starts"} /\ IsSeq(output'[d]) /\ IsSeq(request'[d])
             /\ \A e \in Detectors : e # d => UNCHANGED <<resident[e], request[e], output[e], buffer[e]>>
             /\ (Asking(d) => InExchange(d)') /\ (~Asking(d) => AtRest(d)')
  <2>1. (Asking(d)' <=> Asking(d)) /\ \A e \in Detectors : Asking(e)' <=> Asking(e) BY <1>1 DEF Asking
  <2>2. \A e \in Detectors : e # d => Exchanged(e)'
    BY <1>1, <2>1, OthersRest
  <2>3. DetectorShape' BY <1>1 DEF DetectorInvariant, DetectorShape
  <2>4. LocksAreHeld' /\ VerdictIsOfTheUtterance'
    BY <1>1 DEF DetectorInvariant, LocksAreHeld, VerdictIsOfTheUtterance
  <2>5. \A e \in Detectors : Exchanged(e)'
    BY <2>1, <2>2
  <2> QED BY <2>3, <2>4, <2>5 DEF DetectorInvariant
<1>2. CASE ResidentReady(d)
  <2> DEFINE line == Line("ready", 0, FALSE)
  <2>1. /\ output' = [output EXCEPT ![d] = Append(@, line)] /\ resident[d].at = "loading"
        /\ resident' = [resident EXCEPT ![d].at = "idle"] /\ UNCHANGED request
    BY <1>2 DEF ResidentReady, Emits
  <2>2. line.kind = "ready" BY DEF Line
  <2>3. /\ DOMAIN resident' = Detectors /\ DOMAIN resident'[d] = {"at", "u", "starts"}
        /\ resident'[d].at = "idle" /\ \A e \in Detectors : e # d => resident'[e] = resident[e]
    BY <2>1 DEF DetectorInvariant, DetectorShape
  <2>4. (Asking(d) => InExchange(d)') /\ (~Asking(d) => AtRest(d)')
    <3>1. CASE Asking(d)
      BY <1>1, <2>1, <2>2, <2>3, <3>1, ResidentEmits, NoResultIsOne DEF DetectorInvariant, InExchange
    <3>2. CASE ~Asking(d)
      BY <1>1, <2>1, <2>2, <2>3, <3>2, ResidentEmits DEF DetectorInvariant, AtRest, Quit_
    <3> QED BY <3>1, <3>2
  <2> QED BY <1>1, <2>1, <2>3, <2>4, ResidentEmits DEF DetectorInvariant, DetectorShape
<1>3. CASE ResidentReads(d)
  <2>1. /\ resident[d].at = "idle" /\ request[d] # << >>
        /\ request' = [request EXCEPT ![d] = Tail(@)]
    BY <1>3 DEF ResidentReads
  <2>2. /\ DOMAIN request' = Detectors /\ request'[d] = Tail(request[d])
        /\ \A e \in Detectors : e # d => request'[e] = request[e]
    BY <2>1 DEF DetectorInvariant, DetectorShape
  <2>3. IsSeq(request'[d]) BY <2>1, <2>2, SeqTail DEF DetectorInvariant, DetectorShape
  <2>4. CASE Asking(d)
    <3>1. request[d] = <<cascade.u>> /\ NoResults(LinesOf(d))
      BY <2>1, <2>4 DEF DetectorInvariant, InExchange
    <3>2. Head(request[d]) = cascade.u /\ request'[d] = << >> BY <2>2, <3>1, SeqOfOne
    <3>3. cascade.u # Quit_
      BY DetectorAssumption DEF DetectorInvariant, DetectorShape, Quit_
    <3>4. /\ resident' = [resident EXCEPT ![d].at = "hearing", ![d].u = Head(request[d])]
          /\ UNCHANGED output
      BY <1>3, <3>2, <3>3 DEF ResidentReads
    <3>5. /\ DOMAIN resident' = Detectors /\ DOMAIN resident'[d] = {"at", "u", "starts"}
          /\ resident'[d].at = "hearing" /\ resident'[d].u = cascade.u
          /\ \A e \in Detectors : e # d => resident'[e] = resident[e]
      BY <3>2, <3>4 DEF DetectorInvariant, DetectorShape
    <3>6. InExchange(d)' BY <1>1, <3>1, <3>2, <3>4, <3>5 DEF InExchange, LinesOf
    <3> QED BY <1>1, <2>2, <2>3, <2>4, <3>4, <3>5, <3>6 DEF DetectorInvariant, DetectorShape
  <2>5. CASE ~Asking(d)
    <3>1. request[d] = <<Quit_>> /\ NoResults(LinesOf(d)) BY <2>1, <2>5 DEF DetectorInvariant, AtRest
    <3>2. Head(request[d]) = Quit_ /\ request'[d] = << >> BY <2>2, <3>1, SeqOfOne
    <3> DEFINE line == Line("bye", 0, FALSE)
    <3>3. /\ output' = [output EXCEPT ![d] = Append(@, line)]
          /\ resident' = [resident EXCEPT ![d].at = "exited"]
      BY <1>3, <3>2 DEF ResidentReads, Emits
    <3>4. line.kind = "bye" BY DEF Line
    <3>5. /\ DOMAIN resident' = Detectors /\ DOMAIN resident'[d] = {"at", "u", "starts"}
          /\ resident'[d].at = "exited"
          /\ \A e \in Detectors : e # d => resident'[e] = resident[e]
      BY <3>3 DEF DetectorInvariant, DetectorShape
    <3>6. NoResults(LinesOf(d)') BY <1>1, <3>1, <3>3, <3>4, ResidentEmits
    <3>7. AtRest(d)' BY <1>1, <3>2, <3>5, <3>6 DEF AtRest, Quit_
    <3> QED BY <1>1, <2>2, <2>3, <2>5, <3>3, <3>5, <3>7, ResidentEmits DEF DetectorInvariant, DetectorShape
  <2> QED BY <2>4, <2>5
<1>4. CASE ResidentAnswers(d)
  <2>1. /\ resident[d].at = "hearing" /\ UNCHANGED request
        /\ resident' = [resident EXCEPT ![d].at = "idle", ![d].u = 0]
    BY <1>4 DEF ResidentAnswers
  <2>2. PICK line : /\ output' = [output EXCEPT ![d] = Append(@, line)]
                    /\ line.kind # "result" \/ (line.kind = "result" /\ line.u = resident[d].u)
    <3>1. CASE \E match \in BOOLEAN : Emits(d, Line("result", resident[d].u, match))
      <4>1. PICK match \in BOOLEAN : Emits(d, Line("result", resident[d].u, match)) BY <3>1
      <4> DEFINE line == Line("result", resident[d].u, match)
      <4>2. /\ output' = [output EXCEPT ![d] = Append(@, line)]
            /\ line.kind = "result" /\ line.u = resident[d].u
        BY <4>1 DEF Emits, Line
      <4> HIDE DEF line
      <4> QED BY <4>2
    <3>2. CASE Emits(d, Line("error", 0, FALSE))
      <4> DEFINE line == Line("error", 0, FALSE)
      <4>1. output' = [output EXCEPT ![d] = Append(@, line)] /\ line.kind # "result"
        BY <3>2 DEF Emits, Line
      <4> HIDE DEF line
      <4> QED BY <4>1
    <3> QED BY <1>4, <3>1, <3>2 DEF ResidentAnswers
  <2>3. /\ DOMAIN resident' = Detectors /\ DOMAIN resident'[d] = {"at", "u", "starts"}
        /\ resident'[d].at = "idle" /\ \A e \in Detectors : e # d => resident'[e] = resident[e]
    BY <2>1 DEF DetectorInvariant, DetectorShape
  <2>4. /\ Asking(d) /\ request[d] = << >> /\ NoResults(LinesOf(d)) /\ resident[d].u = cascade.u
    BY <2>1 DEF DetectorInvariant, InExchange, AtRest
  <2>5. OneResult(LinesOf(d)', cascade.u)
    <3>1. CASE line.kind # "result" BY <1>1, <2>2, <2>4, <3>1, ResidentEmits, NoResultIsOne
    <3>2. CASE line.kind = "result" /\ line.u = resident[d].u
      BY <1>1, <2>2, <2>4, <3>2, ResidentEmits
    <3> QED BY <2>2, <3>1, <3>2
  <2>6. InExchange(d)' BY <1>1, <2>1, <2>3, <2>4, <2>5 DEF InExchange
  <2> QED BY <1>1, <2>1, <2>2, <2>3, <2>4, <2>6, ResidentEmits DEF DetectorInvariant, DetectorShape
<1>5. CASE ResidentChats(d)
  <2>1. output' = [output EXCEPT ![d] = Append(@, Noise)] /\ UNCHANGED <<resident, request>>
    BY <1>5 DEF ResidentChats, Emits
  <2>2. Noise.kind = "noise" BY DEF Noise, Line
  <2>3. (Asking(d) => InExchange(d)') /\ (~Asking(d) => AtRest(d)')
    <3>1. CASE Asking(d)
      BY <1>1, <2>1, <2>2, <3>1, ResidentEmits DEF DetectorInvariant, InExchange
    <3>2. CASE ~Asking(d)
      BY <1>1, <2>1, <2>2, <3>2, ResidentEmits DEF DetectorInvariant, AtRest, Quit_
    <3> QED BY <3>1, <3>2
  <2> QED BY <1>1, <2>1, <2>3, ResidentEmits DEF DetectorInvariant, DetectorShape
<1>6. CASE ResidentDies(d)
  <2>1. resident' = [resident EXCEPT ![d].at = "exited"] /\ UNCHANGED <<request, output>>
    BY <1>6 DEF ResidentDies
  <2>2. /\ DOMAIN resident' = Detectors /\ DOMAIN resident'[d] = {"at", "u", "starts"}
        /\ resident'[d].at = "exited" /\ \A e \in Detectors : e # d => resident'[e] = resident[e]
    BY <2>1 DEF DetectorInvariant, DetectorShape
  <2>3. (Asking(d) => InExchange(d)') /\ (~Asking(d) => AtRest(d)')
    <3>1. CASE Asking(d)
      BY <1>1, <2>1, <2>2, <3>1, NoResultIsOne DEF DetectorInvariant, InExchange, LinesOf
    <3>2. CASE ~Asking(d)
      BY <1>1, <2>1, <2>2, <3>2 DEF DetectorInvariant, AtRest, LinesOf, Quit_
    <3> QED BY <3>1, <3>2
  <2> QED BY <1>1, <2>1, <2>2, <2>3 DEF DetectorInvariant, DetectorShape
<1> QED BY <1>2, <1>3, <1>4, <1>5, <1>6 DEF ResidentStep


\* A read takes all that the pipe holds: what follows the line taken is read ahead.
LEMMA LineRead ==
  ASSUME DetectorInvariant, NEW d \in Detectors,
         output' = [output EXCEPT ![d] = << >>], buffer' = [buffer EXCEPT ![d] = Tail(LinesOf(d))],
         output[d] # << >>
  PROVE  /\ DOMAIN output' = Detectors /\ DOMAIN buffer' = Detectors
         /\ \A e \in Detectors : e # d => UNCHANGED <<output[e], buffer[e]>>
         /\ \A e \in Detectors : IsSeq(output'[e]) /\ IsSeq(buffer'[e])
         /\ IsSeq(LinesOf(d)) /\ LinesOf(d) # << >> /\ LinesOf(d)' = Tail(LinesOf(d))
<1> USE DEF DetectorInvariant, DetectorShape
<1>1. IsSeq(buffer[d]) /\ IsSeq(output[d]) OBVIOUS
<1>2. IsSeq(LinesOf(d)) BY <1>1, SaidLast DEF LinesOf
<1>3. LinesOf(d) # << >>
  <2>1. CASE buffer[d] = << >> BY <1>1, <2>1, OnlyTheFirst DEF LinesOf
  <2>2. CASE buffer[d] # << >> BY <1>1, <2>2, TakenFirst DEF LinesOf
  <2> QED BY <2>1, <2>2
<1>4. IsSeq(Tail(LinesOf(d))) BY <1>2, <1>3, SeqTail
<1>5. output'[d] = << >> /\ buffer'[d] = Tail(LinesOf(d)) OBVIOUS
<1>6. LinesOf(d)' = Tail(LinesOf(d)) BY <1>4, <1>5, OnlyTheFirst DEF LinesOf
<1> QED BY <1>2, <1>3, <1>4, <1>5, <1>6, EmptyIsSeq

\* A line which is no message changes nothing but what is read ahead.
LEMMA NoiseRead ==
  ASSUME DetectorInvariant, NEW d \in Detectors, Head(LinesOf(d)).kind = "noise",
         output' = [output EXCEPT ![d] = << >>], buffer' = [buffer EXCEPT ![d] = Tail(LinesOf(d))],
         output[d] # << >>, UNCHANGED <<resident, request, cascade, ioLock, release>>
  PROVE  DetectorInvariant'
<1>1. DetectorShape' BY LineRead DEF DetectorInvariant, DetectorShape
<1>2. LocksAreHeld' /\ VerdictIsOfTheUtterance'
  BY DEF DetectorInvariant, LocksAreHeld, VerdictIsOfTheUtterance
<1>3. ASSUME NEW e \in Detectors PROVE Exchanged(e)'
  <2>1. Asking(e)' <=> Asking(e) BY DEF Asking
  <2>2. CASE e # d BY <2>1, <2>2, LineRead, OthersRest
  <2>3. CASE e = d
    <3>1. NoResults(LinesOf(d)) => NoResults(LinesOf(d)') BY LineRead, ResultsRead
    <3>2. OneResult(LinesOf(d), cascade.u) => OneResult(LinesOf(d)', cascade.u)
      BY LineRead, ResultsRead
    <3>3. CASE Asking(d) BY <2>1, <2>3, <3>1, <3>2, <3>3 DEF DetectorInvariant, InExchange
    <3>4. CASE ~Asking(d) BY <2>1, <2>3, <3>1, <3>4 DEF DetectorInvariant, AtRest, Quit_
    <3> QED BY <3>3, <3>4
  <2> QED BY <2>2, <2>3
<1> QED BY <1>1, <1>2, <1>3 DEF DetectorInvariant

LEMMA CascadeKeeps ==
  ASSUME DetectorInvariant, CascadeStep
  PROVE  DetectorInvariant'
<1>1. PICK d \in Detectors : d = cascade.d BY DEF DetectorInvariant, DetectorShape
<1>2. CASE EnterDetect
  <2>1. cascade.at = "lock" /\ ioLock[d] = "free" /\ UNCHANGED release BY <1>1, <1>2 DEF EnterDetect
  <2>2. \A e \in Detectors : ~Asking(e) BY <1>1, <2>1 DEF Asking
  <2>3. CASE /\ cascade' = [cascade EXCEPT !.at = "send"]
             /\ ioLock' = [ioLock EXCEPT ![d] = "cascade"]
             /\ UNCHANGED <<resident, request, output, buffer>>
    <3>1. /\ DOMAIN cascade' = DOMAIN cascade /\ cascade'.at = "send" /\ cascade'.d = d
          /\ cascade'.u = cascade.u /\ cascade'.heard = cascade.heard
      BY <1>1, <2>3 DEF DetectorInvariant, DetectorShape
    <3>2. \A e \in Detectors : AtRest(e)' /\ ~Asking(e)'
      BY <1>1, <2>1, <2>2, <2>3, <3>1 DEF DetectorInvariant, AtRest, Asking, LinesOf, Quit_
    <3>3. DetectorShape' BY <1>1, <2>1, <2>3, <3>1 DEF DetectorInvariant, DetectorShape
    <3>4. LocksAreHeld'
      BY <1>1, <2>1, <2>3, <3>1 DEF DetectorInvariant, DetectorShape, LocksAreHeld
    <3> QED BY <1>1, <3>1, <3>2, <3>3, <3>4 DEF DetectorInvariant, VerdictIsOfTheUtterance
  <2>4. CASE /\ resident' = [resident EXCEPT ![d] =
                  [at |-> "loading", u |-> 0, starts |-> @.starts + 1]]
             /\ request' = [request EXCEPT ![d] = << >>]
             /\ output' = [output EXCEPT ![d] = << >>]
             /\ buffer' = [buffer EXCEPT ![d] = << >>]
             /\ cascade' = [cascade EXCEPT !.at = "ready"]
             /\ ioLock' = [ioLock EXCEPT ![d] = "cascade"]
    <3>1. /\ DOMAIN cascade' = DOMAIN cascade /\ cascade'.at = "ready" /\ cascade'.d = d
          /\ cascade'.u = cascade.u /\ cascade'.heard = cascade.heard
      BY <1>1, <2>4 DEF DetectorInvariant, DetectorShape
    <3>2. /\ DOMAIN resident' = Detectors /\ DOMAIN request' = Detectors
          /\ DOMAIN output' = Detectors /\ DOMAIN buffer' = Detectors
          /\ \A e \in Detectors : e # d =>
               UNCHANGED <<resident[e], request[e], output[e], buffer[e]>>
          /\ resident'[d].at = "loading" /\ DOMAIN resident'[d] = {"at", "u", "starts"}
          /\ request'[d] = << >> /\ output'[d] = << >> /\ buffer'[d] = << >>
      BY <1>1, <2>4 DEF DetectorInvariant, DetectorShape
    <3>3. AtRest(d)'
      <4>1. << >> \o << >> = << >> BY EmptyIsSeq, OnlyTheFirst
      <4> QED BY <1>1, <3>2, <4>1, NothingIsNoResult DEF AtRest, LinesOf
    <3>4. \A e \in Detectors : ~Asking(e)' BY <1>1, <3>1 DEF Asking
    <3>5. \A e \in Detectors : e # d => AtRest(e)'
      BY <1>1, <2>1, <2>2, <3>2, <3>4, OthersRest
    <3>6. DetectorShape'
      BY <1>1, <2>1, <2>4, <3>1, <3>2, EmptyIsSeq DEF DetectorInvariant, DetectorShape
    <3>7. LocksAreHeld'
      BY <1>1, <2>1, <2>4, <3>1 DEF DetectorInvariant, DetectorShape, LocksAreHeld
    <3> QED BY <1>1, <3>1, <3>3, <3>4, <3>5, <3>6, <3>7 DEF DetectorInvariant, VerdictIsOfTheUtterance
  <2>5. CASE Discard(d) /\ Abandon(d)
    BY <1>1, <2>1, <2>5, FailingCloses DEF FailClosed
  <2> QED BY <1>1, <1>2, <2>3, <2>4, <2>5 DEF EnterDetect
<1>3. CASE AwaitResident
  <2>1. cascade.at = "ready" /\ UNCHANGED release BY <1>1, <1>3 DEF AwaitResident
  <2>2. ioLock[d] = "cascade" BY <1>1, <2>1 DEF DetectorInvariant, LocksAreHeld
  <2>3. CASE FailClosed(d) BY <1>1, <2>1, <2>2, <2>3, FailingCloses
  <2>4. CASE /\ output[d] # << >> /\ Head(LinesOf(d)).kind = "noise"
             /\ output' = [output EXCEPT ![d] = << >>]
             /\ buffer' = [buffer EXCEPT ![d] = Tail(LinesOf(d))]
             /\ UNCHANGED <<resident, request, cascade, ioLock>>
    BY <1>1, <2>1, <2>4, NoiseRead
  <2>5. CASE /\ output[d] # << >> /\ Head(LinesOf(d)).kind = "ready" /\ Taken(d, LinesOf(d))
             /\ cascade' = [cascade EXCEPT !.at = "send"] /\ UNCHANGED ioLock
    <3>1. /\ output' = [output EXCEPT ![d] = << >>]
          /\ buffer' = [buffer EXCEPT ![d] = Tail(LinesOf(d))] /\ UNCHANGED <<resident, request>>
      BY <1>1, <2>5 DEF Taken
    <3>2. /\ DOMAIN cascade' = DOMAIN cascade /\ cascade'.at = "send" /\ cascade'.d = d
          /\ cascade'.u = cascade.u /\ cascade'.heard = cascade.heard
      BY <1>1, <2>5 DEF DetectorInvariant, DetectorShape
    <3>3. (\A e \in Detectors : ~Asking(e)) /\ \A e \in Detectors : ~Asking(e)'
      BY <1>1, <2>1, <3>2 DEF Asking
    <3>4. \A e \in Detectors : e # d => AtRest(e)'
      BY <1>1, <2>1, <2>5, <3>1, <3>3, LineRead, OthersRest
    <3>5. AtRest(d)'
      <4>1. AtRest(d)
        BY <1>1, <3>3 DEF DetectorInvariant
      <4>2. LinesOf(d)' = Tail(LinesOf(d)) /\ IsSeq(LinesOf(d)) /\ LinesOf(d) # << >>
        BY <1>1, <2>5, <3>1, LineRead
      <4>3. NoResults(LinesOf(d)') BY <4>1, <4>2, ResultsRead DEF AtRest
      <4> QED BY <1>1, <2>1, <3>1, <4>1, <4>3 DEF AtRest, Quit_
    <3>6. DetectorShape'
      BY <1>1, <2>1, <2>5, <3>1, <3>2, LineRead DEF DetectorInvariant, DetectorShape
    <3>7. LocksAreHeld' BY <1>1, <2>1, <2>2, <2>5, <3>2 DEF DetectorInvariant, LocksAreHeld
    <3> QED BY <1>1, <3>2, <3>3, <3>4, <3>5, <3>6, <3>7 DEF DetectorInvariant, VerdictIsOfTheUtterance
  <2> QED BY <1>1, <1>3, <2>3, <2>4, <2>5 DEF AwaitResident, ReadMessage, LinesOf
<1>4. CASE SendUtterance
  <2>1. cascade.at = "send" /\ UNCHANGED release BY <1>1, <1>4 DEF SendUtterance
  <2>2. ioLock[d] = "cascade" BY <1>1, <2>1 DEF DetectorInvariant, LocksAreHeld
  <2>3. CASE FailClosed(d) BY <1>1, <2>1, <2>2, <2>3, FailingCloses
  <2>4. CASE /\ request' = [request EXCEPT ![d] = Append(@, cascade.u)]
             /\ cascade' = [cascade EXCEPT !.at = "answer"]
             /\ UNCHANGED <<resident, output, buffer, ioLock>>
    <3>1. /\ DOMAIN cascade' = DOMAIN cascade /\ cascade'.at = "answer" /\ cascade'.d = d
          /\ cascade'.u = cascade.u /\ cascade'.heard = cascade.heard
      BY <1>1, <2>4 DEF DetectorInvariant, DetectorShape
    <3>2. (\A e \in Detectors : ~Asking(e)) /\ AtRest(d)
      BY <1>1, <2>1 DEF Asking, DetectorInvariant
    <3>3. request[d] = << >>
      BY <1>1, <2>2, <3>2 DEF DetectorInvariant, LocksAreHeld, AtRest
    <3>4. /\ DOMAIN request' = Detectors /\ request'[d] = <<cascade.u>>
          /\ \A e \in Detectors : e # d => request'[e] = request[e]
      BY <1>1, <2>4, <3>3, SeqOfOne DEF DetectorInvariant, DetectorShape
    <3>5. InExchange(d)' BY <1>1, <2>4, <3>1, <3>2, <3>4 DEF InExchange, AtRest, LinesOf
    <3>6. \A e \in Detectors : e # d => ~Asking(e)' /\ AtRest(e)'
      <4>1. \A e \in Detectors : e # d => ~Asking(e)' BY <1>1, <3>1 DEF Asking
      <4> QED BY <1>1, <2>1, <2>4, <3>2, <3>4, <4>1, OthersRest
    <3>7. DetectorShape'
      <4>1. IsSeq(request'[d]) BY <3>4, SeqOfOne
      <4>2. \A e \in Detectors : IsSeq(request'[e])
        BY <3>4, <4>1 DEF DetectorInvariant, DetectorShape
      <4> QED BY <1>1, <2>1, <2>4, <3>1, <3>4, <4>2 DEF DetectorInvariant, DetectorShape
    <3>8. LocksAreHeld' BY <1>1, <2>1, <2>2, <2>4, <3>1 DEF DetectorInvariant, LocksAreHeld
    <3>9. Asking(d)' BY <1>1, <3>1 DEF Asking
    <3> QED BY <1>1, <3>1, <3>5, <3>6, <3>7, <3>8, <3>9 DEF DetectorInvariant, VerdictIsOfTheUtterance
  <2> QED BY <1>1, <1>4, <2>3, <2>4 DEF SendUtterance
<1>5. CASE AwaitAnswer
  <2>1. cascade.at = "answer" /\ UNCHANGED release BY <1>1, <1>5 DEF AwaitAnswer
  <2>2. ioLock[d] = "cascade" /\ Asking(d) /\ InExchange(d)
    BY <1>1, <2>1 DEF DetectorInvariant, LocksAreHeld, Asking
  <2>3. CASE FailClosed(d) BY <1>1, <2>1, <2>2, <2>3, FailingCloses
  <2>4. CASE /\ output[d] # << >> /\ Head(LinesOf(d)).kind = "noise"
             /\ output' = [output EXCEPT ![d] = << >>]
             /\ buffer' = [buffer EXCEPT ![d] = Tail(LinesOf(d))]
             /\ UNCHANGED <<resident, request, cascade, ioLock>>
    BY <1>1, <2>1, <2>4, NoiseRead
  <2> DEFINE judged == [cascade EXCEPT !.heard = Head(LinesOf(d)).u]
  <2>5. CASE /\ output[d] # << >> /\ Head(LinesOf(d)).kind = "result" /\ Taken(d, LinesOf(d))
             /\ ioLock' = [ioLock EXCEPT ![d] = "free"]
             /\ cascade' = IF Head(LinesOf(d)).match \/ d = "fallback"
                     THEN [judged EXCEPT !.at = "idle",
                             !.verdict = IF Head(LinesOf(d)).match THEN "wake" ELSE "miss"]
                     ELSE [judged EXCEPT !.at = "lock", !.d = "fallback"]
    <3>1. /\ output' = [output EXCEPT ![d] = << >>]
          /\ buffer' = [buffer EXCEPT ![d] = Tail(LinesOf(d))] /\ UNCHANGED <<resident, request>>
      BY <1>1, <2>5 DEF Taken
    <3>2. /\ IsSeq(LinesOf(d)) /\ LinesOf(d) # << >> /\ LinesOf(d)' = Tail(LinesOf(d))
          /\ DOMAIN output' = Detectors /\ DOMAIN buffer' = Detectors
          /\ \A e \in Detectors : e # d => UNCHANGED <<output[e], buffer[e]>>
          /\ \A e \in Detectors : IsSeq(output'[e]) /\ IsSeq(buffer'[e])
      BY <1>1, <2>5, <3>1, LineRead
    <3>3. ~NoResults(LinesOf(d)) BY <1>1, <2>5, <3>2, ResultsRead
    <3>4. /\ request[d] = << >> /\ resident[d].at # "hearing"
          /\ OneResult(LinesOf(d), cascade.u)
      BY <1>1, <2>2, <3>3 DEF InExchange
    <3>5. NoResults(LinesOf(d)') /\ Head(LinesOf(d)).u = cascade.u
      BY <1>1, <2>5, <3>2, <3>4, ResultsRead
    <3>6. /\ DOMAIN cascade' = DOMAIN cascade /\ cascade'.at \in {"idle", "lock"}
          /\ cascade'.d \in Detectors /\ cascade'.u = cascade.u /\ cascade'.heard = cascade.u
      BY <1>1, <2>5, <3>5 DEF DetectorInvariant, DetectorShape, Detectors
    <3>7. \A e \in Detectors : ~Asking(e)' BY <1>1, <3>6 DEF Asking
    <3>8. AtRest(d)' BY <1>1, <3>1, <3>4, <3>5 DEF AtRest
    <3>9. \A e \in Detectors : e # d => AtRest(e)'
      <4>1. \A e \in Detectors : e # d => ~Asking(e) BY <1>1 DEF Asking
      <4> QED BY <1>1, <2>1, <3>1, <3>2, <3>7, <4>1, OthersRest
    <3>10. DetectorShape'
      BY <1>1, <2>1, <2>5, <3>1, <3>2, <3>6 DEF DetectorInvariant, DetectorShape
    <3>11. LocksAreHeld'
      BY <1>1, <2>1, <2>2, <2>5, <3>6 DEF DetectorInvariant, DetectorShape, LocksAreHeld
    <3> QED BY <1>1, <3>6, <3>7, <3>8, <3>9, <3>10, <3>11 DEF DetectorInvariant, VerdictIsOfTheUtterance
  <2> QED BY <1>1, <1>5, <2>3, <2>4, <2>5 DEF AwaitAnswer, ReadMessage, LinesOf
<1> QED BY <1>1, <1>2, <1>3, <1>4, <1>5 DEF CascadeStep

LEMMA ReleaseKeeps ==
  ASSUME DetectorInvariant, ReleaseStep \/ ReleaseBegins
  PROVE  DetectorInvariant'
<1>1. PICK d \in Detectors : d = release.d /\ UNCHANGED cascade
  BY DEF DetectorInvariant, DetectorShape, ReleaseStep, ReleaseBegins, ReleaseLocks, ReleaseQuits,
     ReleaseEnds
<1>2. \A e \in Detectors : Asking(e)' <=> Asking(e) BY <1>1 DEF Asking
<1>3. CASE UNCHANGED <<resident, request, output, buffer>> /\ release.at # "wait"
           /\ (ReleaseBegins \/ ReleaseLocks)
  <2>1. \A e \in Detectors : Exchanged(e)'
    BY <1>1, <1>2, <1>3, OthersRest
  <2>2. CASE ReleaseBegins
    <3>1. /\ release' = [release EXCEPT !.at = "lock"] /\ UNCHANGED ioLock
      BY <1>1, <2>2 DEF ReleaseBegins
    <3>2. release'.at = "lock" /\ release'.d = d /\ DOMAIN release' = DOMAIN release
      BY <1>1, <3>1 DEF DetectorInvariant, DetectorShape
    <3> QED BY <1>1, <1>3, <2>1, <3>1, <3>2
         DEF DetectorInvariant, DetectorShape, LocksAreHeld, VerdictIsOfTheUtterance
  <2>3. CASE ReleaseLocks
    <3>1. CASE release'.at \in {"lock", "done"} /\ release'.d \in Detectors
               /\ DOMAIN release' = {"at", "d"} /\ UNCHANGED ioLock
      BY <1>1, <1>3, <2>1, <3>1
         DEF DetectorInvariant, DetectorShape, LocksAreHeld, VerdictIsOfTheUtterance
    <3>2. CASE /\ release' = [release EXCEPT !.at = "quit"] /\ ioLock[d] = "free"
               /\ ioLock' = [ioLock EXCEPT ![d] = "release"]
      <4>1. release'.at = "quit" /\ release'.d = d /\ DOMAIN release' = DOMAIN release
        BY <1>1, <3>2 DEF DetectorInvariant, DetectorShape
      <4>2. DetectorShape' BY <1>1, <1>3, <3>2, <4>1 DEF DetectorInvariant, DetectorShape
      <4>3. LocksAreHeld'
        BY <1>1, <3>2, <4>1 DEF DetectorInvariant, DetectorShape, LocksAreHeld
      <4> QED BY <1>1, <2>1, <4>2, <4>3 DEF DetectorInvariant, VerdictIsOfTheUtterance
    <3> QED BY <1>1, <2>3, <3>1, <3>2 DEF ReleaseLocks, Closed, Detectors, DetectorInvariant, DetectorShape
  <2> QED BY <1>1, <1>3, <2>2, <2>3
<1>4. CASE ReleaseQuits
  <2>1. /\ release.at = "quit" /\ release' = [release EXCEPT !.at = "wait"]
        /\ UNCHANGED <<resident, output, buffer, ioLock>>
        /\ request' = IF Running(d) THEN [request EXCEPT ![d] = Append(@, Quit_)] ELSE request
    BY <1>1, <1>4 DEF ReleaseQuits
  <2>2. release'.at = "wait" /\ release'.d = d /\ DOMAIN release' = DOMAIN release
    BY <1>1, <2>1 DEF DetectorInvariant, DetectorShape
  <2>3. ~Asking(d) /\ AtRest(d)
    BY <1>1, <2>1 DEF Asking, DetectorInvariant, LocksAreHeld
  <2>4. request[d] = << >> BY <1>1, <2>1, <2>3 DEF AtRest
  <2>5. /\ DOMAIN request' = Detectors /\ request'[d] \in {<< >>, <<Quit_>>}
        /\ \A e \in Detectors : e # d => request'[e] = request[e]
    BY <1>1, <2>1, <2>4, SeqOfOne DEF DetectorInvariant, DetectorShape
  <2>6. AtRest(d)' BY <1>1, <2>1, <2>2, <2>3, <2>5 DEF AtRest, LinesOf, Quit_
  <2>7. \A e \in Detectors : e # d => Exchanged(e)'
    BY <1>1, <1>2, <2>1, <2>5, OthersRest
  <2>8. DetectorShape'
    <3>1. IsSeq(request'[d]) BY <2>5, EmptyIsSeq, SeqOfOne
    <3>2. \A e \in Detectors : IsSeq(request'[e])
      BY <2>5, <3>1 DEF DetectorInvariant, DetectorShape
    <3> QED BY <1>1, <2>1, <2>2, <2>5, <3>2 DEF DetectorInvariant, DetectorShape
  <2>9. LocksAreHeld' BY <1>1, <2>1, <2>2 DEF DetectorInvariant, LocksAreHeld
  <2> QED BY <1>1, <1>2, <2>3, <2>6, <2>7, <2>8, <2>9 DEF DetectorInvariant, VerdictIsOfTheUtterance
<1>5. CASE ReleaseEnds
  <2>1. /\ release.at = "wait" /\ Discard(d) /\ Closed(d) /\ ioLock' = [ioLock EXCEPT ![d] = "free"]
    BY <1>1, <1>5 DEF ReleaseEnds
  <2>2. /\ release'.at \in {"lock", "done"} /\ release'.d \in Detectors
        /\ DOMAIN release' = {"at", "d"}
    BY <1>1, <2>1 DEF Closed, Detectors, DetectorInvariant, DetectorShape
  <2>3. ~Asking(d) /\ (cascade.at \in {"ready", "send", "answer"} => cascade.d # d)
    BY <1>1, <2>1 DEF Asking, DetectorInvariant, LocksAreHeld
  <2>4. AtRest(d)' BY <1>1, <1>2, <2>1, <2>3, ExchangeDiscarded
  <2>5. \A e \in Detectors : e # d => Exchanged(e)'
    BY <1>1, <1>2, <2>1, ExchangeDiscarded, OthersRest
  <2>6. DetectorShape'
    BY <1>1, <2>1, <2>2, ExchangeDiscarded DEF DetectorInvariant, DetectorShape
  <2>7. LocksAreHeld'
    BY <1>1, <2>1, <2>2, <2>3 DEF DetectorInvariant, DetectorShape, LocksAreHeld
  <2> QED BY <1>1, <1>2, <2>3, <2>4, <2>5, <2>6, <2>7 DEF DetectorInvariant, VerdictIsOfTheUtterance
<1> QED BY <1>1, <1>3, <1>4, <1>5 DEF ReleaseStep, ReleaseBegins, ReleaseLocks

\* A timeout, an error, a death or a close() of a detector at any point of an exchange
\* (PersistentWakeDetector, FridayWakeSupervisor.detect) leaves no answer behind that a later
\* utterance could be judged by.
THEOREM VerdictsAreOfTheirUtterance == DetectorSpec => []VerdictIsOfTheUtterance
<1>1. DetectorInit => DetectorInvariant
  <2> SUFFICES ASSUME DetectorInit PROVE DetectorInvariant
    OBVIOUS
  <2>1. << >> \o << >> = << >> BY EmptyIsSeq, OnlyTheFirst
  <2>2. DetectorShape
    BY DetectorAssumption, EmptyIsSeq DEF DetectorInit, DetectorShape, Detectors
  <2>3. LocksAreHeld /\ VerdictIsOfTheUtterance
    BY DEF DetectorInit, LocksAreHeld, VerdictIsOfTheUtterance
  <2>4. \A d \in Detectors : ~Asking(d) /\ AtRest(d)
    BY <2>1, NothingIsNoResult DEF DetectorInit, Asking, AtRest, LinesOf
  <2> QED BY <2>2, <2>3, <2>4 DEF DetectorInvariant
<1>2. DetectorInvariant /\ [DetectorNext]_detectorVars => DetectorInvariant'
  <2> SUFFICES ASSUME DetectorInvariant, [DetectorNext]_detectorVars PROVE DetectorInvariant'
    OBVIOUS
  <2>1. CASE UNCHANGED detectorVars
    BY <2>1 DEF detectorVars, DetectorInvariant, DetectorShape, LocksAreHeld,
       VerdictIsOfTheUtterance, Asking, InExchange, AtRest, LinesOf, Quit_
  <2>2. CASE Utter
    <3>1. /\ cascade.at = "idle" /\ cascade.u < MaxUtterances
          /\ cascade' = [at |-> "lock", d |-> "primary", u |-> cascade.u + 1,
                         heard |-> 0, verdict |-> "none"]
          /\ UNCHANGED <<resident, request, output, buffer, ioLock, release>>
      BY <2>2 DEF Utter
    <3>2. cascade'.u \in 0 .. MaxUtterances
      BY <3>1, DetectorAssumption DEF DetectorInvariant, DetectorShape
    <3>3. \A d \in Detectors : ~Asking(d) /\ ~Asking(d)' BY <3>1 DEF Asking
    <3>4. \A d \in Detectors : AtRest(d)' BY <3>1, <3>3, OthersRest
    <3>5. DetectorShape' BY <3>1, <3>2 DEF DetectorInvariant, DetectorShape, Detectors
    <3>6. LocksAreHeld' BY <3>1 DEF DetectorInvariant, LocksAreHeld
    <3> QED BY <3>1, <3>3, <3>4, <3>5, <3>6 DEF DetectorInvariant, VerdictIsOfTheUtterance
  <2> QED BY <2>1, <2>2, ResidentKeeps, CascadeKeeps, ReleaseKeeps DEF DetectorNext
<1>3. DetectorInvariant => VerdictIsOfTheUtterance
  BY DEF DetectorInvariant
<1> QED BY <1>1, <1>2, <1>3, PTL DEF DetectorSpec

-----------------------------------------------------------------------------
(* The channel between the synthesizer and its worker.                      *)

\* What the worker in use has said and nobody has taken.
Channel == events \o pipe[process]

AudioOf(s, id) == \A i \in DOMAIN s : s[i] = Event("audio", id)
EndOf(e, id)   == e = Event("done", id) \/ e = Event("error", 0)
OverOf(s, id)  == \E n \in DOMAIN s : /\ n = Len(s) /\ EndOf(s[n], id)
                                      /\ \A i \in DOMAIN s : i # n => s[i] = Event("audio", id)

Requesting == caller.at \in {"send", "accept", "listen", "yield", "drain"}
Closing    == shutdown.at \in {"locked", "bye"}

PiperShape ==
  /\ DOMAIN worker = Workers /\ DOMAIN inbox = Workers /\ DOMAIN pipe = Workers
  /\ \A w \in Workers : DOMAIN worker[w] = {"at", "id", "frames"}
  /\ \A w \in Workers : IsSeq(inbox[w]) /\ IsSeq(pipe[w])
  /\ IsSeq(events)
  /\ DOMAIN caller = {"at", "id", "w"} /\ DOMAIN shutdown = {"at", "of"}
  /\ process \in Workers \cup {0} /\ counter \in 0 .. MaxRequests
  /\ caller.at \in {"idle", "start", "ready", "lock"} \/ Requesting

\* A worker that was not started has said and been told nothing, and the one in use was started.
FreshWorkers ==
  /\ \A w \in Workers : worker[w].at = "none" => inbox[w] = << >> /\ pipe[w] = << >>
  /\ process # 0 => worker[process].at # "none"
  /\ reader # 0 => reader = process
  /\ Alive(process) => reader = process

\* The two threads keep out of each other's way: by the request lock, and by the lifecycle lock
\* while a worker is started or ended.
LocksAreKept ==
  /\ Requesting <=> requestLock = "caller"
  /\ shutdown.at \in {"waiting", "locked", "bye"} <=> requestLock = "closer"
  /\ caller.at = "ready" => ~Closing /\ process = caller.w /\ process # 0
  /\ Closing => shutdown.of = process /\ process # 0
  /\ caller.at \in {"start", "ready", "lock", "send"} => counter < MaxRequests
  /\ Requesting /\ caller.at # "send" => caller.id \in 1 .. MaxRequests

\* Nothing of a request, or all that is left of request id: its audio and, when the worker has
\* gone on, its end.
CleanWith(s)    == s = << >> /\ worker[process].at = "idle" /\ inbox[process] = << >>
PendingWith(job, box, s, id) ==
  /\ box = << >>
  /\ \/ job.at = "synthesizing" /\ job.id = id /\ AudioOf(s, id)
     \/ job.at = "idle" /\ OverOf(s, id)
Pending(s, id) == PendingWith(worker[process], inbox[process], s, id)
AskedWith(s, id) ==
  \/ inbox[process] = <<id>> /\ worker[process].at = "idle" /\ s = << >>
  \/ s # << >> /\ Head(s) = Event("accepted", id) /\ Pending(Tail(s), id)
StartingWith(s) ==
  /\ inbox[process] = << >>
  /\ \/ worker[process].at = "loading" /\ s = << >>
     \/ worker[process].at = "idle" /\ s = <<Event("ready", 0)>>

InSession == ~timedOut /\ Alive(process)

ChannelHolds ==
  /\ caller.at = "ready" => StartingWith(Channel)
  /\ caller.at = "accept" => AskedWith(Channel, caller.id)
  /\ caller.at \in {"listen", "yield", "drain"} => Pending(Channel, caller.id)
  /\ caller.at \in {"idle", "start", "lock", "send"} /\ shutdown.at # "bye" => CleanWith(Channel)

PiperInvariant == PiperShape /\ FreshWorkers /\ LocksAreKept /\ (InSession => ChannelHolds)

\* How what is left of a request changes when something more is said and when it is taken.
LEMMA PendingSaid ==
  ASSUME NEW s, IsSeq(s), NEW id
  PROVE  /\ AudioOf(s, id) => AudioOf(Append(s, Event("audio", id)), id)
         /\ \A e : AudioOf(s, id) /\ EndOf(e, id) => OverOf(Append(s, e), id)
         /\ AudioOf(<< >>, id)
<1>1. \A e : /\ Len(s) \in Nat /\ DOMAIN s = 1..Len(s) /\ DOMAIN Append(s, e) = 1..(Len(s) + 1)
             /\ \A i \in DOMAIN s : Append(s, e)[i] = s[i]
             /\ Append(s, e)[Len(s) + 1] = e /\ Len(Append(s, e)) = Len(s) + 1
  BY SeqGrows
<1>2. \A e : \A i \in DOMAIN Append(s, e) : i \in DOMAIN s \/ i = Len(s) + 1
  BY <1>1
<1>3. AudioOf(s, id) => AudioOf(Append(s, Event("audio", id)), id)
  BY <1>1, <1>2 DEF AudioOf
<1>4. ASSUME NEW e, AudioOf(s, id), EndOf(e, id) PROVE OverOf(Append(s, e), id)
  <2>1. Len(s) + 1 \in DOMAIN Append(s, e) BY <1>1
  <2> QED BY <1>1, <1>2, <1>4, <2>1 DEF AudioOf, OverOf
<1> QED BY <1>3, <1>4, EmptyIsSeq DEF AudioOf

LEMMA PendingTaken ==
  ASSUME NEW s, IsSeq(s), s # << >>, NEW id
  PROVE  /\ AudioOf(s, id) => Head(s) = Event("audio", id) /\ AudioOf(Tail(s), id)
         /\ OverOf(s, id) /\ Head(s) = Event("audio", id) => OverOf(Tail(s), id)
         /\ OverOf(s, id) /\ Head(s) # Event("audio", id) => Tail(s) = << >> /\ EndOf(Head(s), id)
<1>1. /\ Len(s) \in Nat \ {0} /\ DOMAIN Tail(s) = 1..(Len(s) - 1) /\ Len(Tail(s)) = Len(s) - 1
      /\ \A i \in DOMAIN Tail(s) : i + 1 \in DOMAIN s /\ Tail(s)[i] = s[i + 1]
      /\ DOMAIN s = 1..Len(s) /\ Head(s) = s[1] /\ (Len(s) = 1 => Tail(s) = << >>)
  BY SeqTail, SeqIndices
<1>2. 1 \in DOMAIN s BY <1>1
<1>3. AudioOf(s, id) => Head(s) = Event("audio", id) /\ AudioOf(Tail(s), id)
  BY <1>1, <1>2 DEF AudioOf
<1>4. ASSUME OverOf(s, id), Head(s) = Event("audio", id) PROVE OverOf(Tail(s), id)
  <2>1. /\ EndOf(s[Len(s)], id)
        /\ \A i \in DOMAIN s : i # Len(s) => s[i] = Event("audio", id)
    BY <1>4 DEF OverOf
  <2>2. Len(s) # 1 BY <1>1, <1>4, <2>1 DEF EndOf, Event
  <2>3. Len(s) - 1 \in DOMAIN Tail(s) /\ Tail(s)[Len(s) - 1] = s[Len(s)] BY <1>1, <2>2
  <2>4. \A i \in DOMAIN Tail(s) : i # Len(s) - 1 => Tail(s)[i] = Event("audio", id)
    BY <1>1, <2>1
  <2> QED BY <1>1, <2>1, <2>3, <2>4 DEF OverOf
<1>5. ASSUME OverOf(s, id), Head(s) # Event("audio", id) PROVE Tail(s) = << >> /\ EndOf(Head(s), id)
  <2>1. /\ EndOf(s[Len(s)], id)
        /\ \A i \in DOMAIN s : i # Len(s) => s[i] = Event("audio", id)
    BY <1>5 DEF OverOf
  <2>2. Len(s) = 1 BY <1>1, <1>2, <1>5, <2>1
  <2> QED BY <1>1, <2>1, <2>2
<1> QED BY <1>3, <1>4, <1>5

LEMMA NothingIsNoEnd == ASSUME NEW id PROVE ~OverOf(<< >>, id)
BY EmptyIsSeq DEF OverOf

LEMMA LocksKept == PiperShape /\ LocksAreKept /\ [PiperNext]_piperVars => LocksAreKept'
<1> SUFFICES ASSUME PiperShape /\ LocksAreKept, [PiperNext]_piperVars PROVE LocksAreKept'
  OBVIOUS
<1> USE PiperAssumption DEF PiperShape, LocksAreKept, Requesting, Closing, Workers
<1>1. CASE UNCHANGED piperVars
  BY <1>1 DEF piperVars
<1>2. ASSUME NEW w \in Workers, WorkerReady(w) PROVE LocksAreKept'
  BY <1>2 DEF WorkerReady, Says, Becomes
<1>3. ASSUME NEW w \in Workers, WorkerTakes(w) PROVE LocksAreKept'
  BY <1>3 DEF WorkerTakes, Says, Becomes
<1>4. ASSUME NEW w \in Workers, WorkerSpeaks(w) PROVE LocksAreKept'
  BY <1>4 DEF WorkerSpeaks, Says, Becomes
<1>5. ASSUME NEW w \in Workers, WorkerDies(w) PROVE LocksAreKept'
  BY <1>5 DEF WorkerDies, Becomes
<1>6. ASSUME ReaderQueues PROVE LocksAreKept'
  BY <1>6 DEF ReaderQueues
<1>7. ASSUME StreamEnter PROVE LocksAreKept'
  BY <1>7 DEF StreamEnter
<1>8. ASSUME StartWorker PROVE LocksAreKept'
  <2>1. CASE Alive(process) BY <1>8, <2>1 DEF StartWorker
  <2>2. ASSUME NEW w \in Workers, worker[w].at = "none", ~Alive(process),
               worker' = [worker EXCEPT ![w].at = "loading"], process' = w, reader' = w,
               events' = <<>>, timedOut' = FALSE,
               caller' = [caller EXCEPT !.at = "ready", !.w = w]
        PROVE  LocksAreKept'
    <3>1. worker'[w].at = "loading" /\ \A v \in Workers : v # w => worker'[v] = worker[v] BY <2>2
    <3>2. caller'.at = "ready" /\ caller'.w = w /\ w # 0 BY <2>2
    <3>3. /\ caller.at = "start" /\ shutdown.at \notin {"locked", "bye"}
          /\ UNCHANGED <<inbox, pipe, requestLock, counter, shutdown>> BY <1>8 DEF StartWorker
    <3> QED BY <2>2, <3>1, <3>2, <3>3, EmptyIsSeq
  <2>3. ASSUME caller' = [caller EXCEPT !.at = "idle"], process' = 0, reader' = 0,
               UNCHANGED <<worker, events, timedOut>>
        PROVE  LocksAreKept'
    BY <1>8, <2>3 DEF StartWorker
  <2> QED BY <1>8, <2>1, <2>2, <2>3 DEF StartWorker
<1>9. ASSUME AwaitReady PROVE LocksAreKept'
  BY <1>9 DEF AwaitReady, TakeEvent, Terminate
<1>10. ASSUME TakeRequestLock PROVE LocksAreKept'
  BY <1>10 DEF TakeRequestLock
<1>11. ASSUME SendRequest PROVE LocksAreKept'
  <2>1. counter' = counter + 1 /\ counter' \in 1 .. MaxRequests BY <1>11 DEF SendRequest
  <2>2. CASE Alive(process)
    <3>1. caller.at = "send" /\ caller'.at = "accept" /\ caller'.id = counter'
          /\ UNCHANGED <<requestLock, process, shutdown>>
      BY <1>11, <2>1, <2>2 DEF SendRequest
    <3> QED BY <2>1, <3>1
  <2>3. CASE ~Alive(process) BY <1>11, <2>1, <2>3 DEF SendRequest, GiveUp
  <2> QED BY <2>2, <2>3
<1>12. ASSUME AwaitAccepted PROVE LocksAreKept'
  BY <1>12 DEF AwaitAccepted, TakeEvent, GiveUp
<1>13. ASSUME Listen PROVE LocksAreKept'
  BY <1>13 DEF Listen, TakeEvent, GiveUp
<1>14. ASSUME Consume PROVE LocksAreKept'
  BY <1>14 DEF Consume
<1>15. ASSUME Drain PROVE LocksAreKept'
  BY <1>15 DEF Drain, TakeEvent, GiveUp
<1>16. ASSUME CloseWaits PROVE LocksAreKept'
  BY <1>16 DEF CloseWaits
<1>17. ASSUME CloseLocks PROVE LocksAreKept'
  BY <1>17 DEF CloseLocks
<1>18. ASSUME CloseQuits PROVE LocksAreKept'
  BY <1>18 DEF CloseQuits
<1>19. ASSUME CloseEnds PROVE LocksAreKept'
  BY <1>19 DEF CloseEnds, TakeEvent, Terminate
<1> QED BY <1>1, <1>2, <1>3, <1>4, <1>5, <1>6, <1>7, <1>8, <1>9, <1>10, <1>11, <1>12, 
           <1>13, <1>14, <1>15, <1>16, <1>17, <1>18, <1>19
        DEF PiperNext, WorkerStep, CallerStep, CloserStep


LEMMA WorkersFresh == PiperShape /\ FreshWorkers /\ LocksAreKept /\ [PiperNext]_piperVars => FreshWorkers'
<1> SUFFICES ASSUME PiperShape /\ FreshWorkers /\ LocksAreKept, [PiperNext]_piperVars PROVE FreshWorkers'
  OBVIOUS
<1> USE PiperAssumption DEF PiperShape, FreshWorkers, LocksAreKept, Requesting, Closing, Alive, Workers
<1>1. CASE UNCHANGED piperVars
  BY <1>1 DEF piperVars
<1>2. ASSUME NEW w \in Workers, WorkerReady(w) PROVE FreshWorkers'
  BY <1>2 DEF WorkerReady, Says, Becomes
<1>3. ASSUME NEW w \in Workers, WorkerTakes(w) PROVE FreshWorkers'
  <2>5. worker[w].at = "idle" /\ \A v \in Workers : v # w => inbox'[v] = inbox[v]
    BY <1>3 DEF WorkerTakes
  <2>6. \A e : Says(w, e) => \A v \in Workers : v # w => pipe'[v] = pipe[v] BY DEF Says
  <2>7. \A a, id, f : Becomes(w, a, id, f) => worker'[w].at = a /\ DOMAIN worker' = Workers
                     /\ \A v \in Workers : v # w => worker'[v] = worker[v] BY DEF Becomes
  <2>8. \A v \in Workers : v # w => worker'[v] = worker[v] /\ pipe'[v] = pipe[v]
    BY <1>3, <2>6, <2>7 DEF WorkerTakes
  <2>9. worker'[w].at # "none" /\ DOMAIN worker' = Workers BY <1>3, <2>7 DEF WorkerTakes
  <2>1. worker[w].at = "idle" /\ worker'[w].at # "none" /\ DOMAIN worker' = Workers
        /\ \A v \in Workers : v # w => worker'[v] = worker[v] /\ inbox'[v] = inbox[v] /\ pipe'[v] = pipe[v]
    BY <2>5, <2>8, <2>9
  <2>2. UNCHANGED <<process, reader>> BY <1>3 DEF WorkerTakes
  <2>3. worker'[w].at # "gone" \/ worker[w].at = "idle" BY <2>1
  <2> QED BY <2>1, <2>2
<1>4. ASSUME NEW w \in Workers, WorkerSpeaks(w) PROVE FreshWorkers'
  <2>1. worker[w].at = "synthesizing" /\ worker'[w].at # "none" /\ DOMAIN worker' = Workers
        /\ UNCHANGED inbox
        /\ \A v \in Workers : v # w => worker'[v] = worker[v] /\ pipe'[v] = pipe[v]
    BY <1>4 DEF WorkerSpeaks, Says, Becomes
  <2>2. UNCHANGED <<process, reader>> BY <1>4 DEF WorkerSpeaks
  <2> QED BY <2>1, <2>2
<1>5. ASSUME NEW w \in Workers, WorkerDies(w) PROVE FreshWorkers'
  BY <1>5 DEF WorkerDies, Becomes
<1>6. ASSUME ReaderQueues PROVE FreshWorkers'
  BY <1>6 DEF ReaderQueues
<1>7. ASSUME StreamEnter PROVE FreshWorkers'
  BY <1>7 DEF StreamEnter
<1>8. ASSUME StartWorker PROVE FreshWorkers'
  <2>1. CASE Alive(process) BY <1>8, <2>1 DEF StartWorker
  <2>2. ASSUME NEW w \in Workers, worker[w].at = "none", ~Alive(process),
               worker' = [worker EXCEPT ![w].at = "loading"], process' = w, reader' = w,
               events' = <<>>, timedOut' = FALSE,
               caller' = [caller EXCEPT !.at = "ready", !.w = w]
        PROVE  FreshWorkers'
    <3>1. worker'[w].at = "loading" /\ \A v \in Workers : v # w => worker'[v] = worker[v] BY <2>2
    <3>2. caller'.at = "ready" /\ caller'.w = w /\ w # 0 BY <2>2
    <3>3. /\ caller.at = "start" /\ shutdown.at \notin {"locked", "bye"}
          /\ UNCHANGED <<inbox, pipe, requestLock, counter, shutdown>> BY <1>8 DEF StartWorker
    <3> QED BY <2>2, <3>1, <3>2, <3>3, EmptyIsSeq
  <2>3. ASSUME caller' = [caller EXCEPT !.at = "idle"], process' = 0, reader' = 0,
               UNCHANGED <<worker, events, timedOut>>
        PROVE  FreshWorkers'
    BY <1>8, <2>3 DEF StartWorker
  <2> QED BY <1>8, <2>1, <2>2, <2>3 DEF StartWorker
<1>9. ASSUME AwaitReady PROVE FreshWorkers'
  BY <1>9 DEF AwaitReady, TakeEvent, Terminate
<1>10. ASSUME TakeRequestLock PROVE FreshWorkers'
  BY <1>10 DEF TakeRequestLock
<1>11. ASSUME SendRequest PROVE FreshWorkers'
  BY <1>11 DEF SendRequest, GiveUp
<1>12. ASSUME AwaitAccepted PROVE FreshWorkers'
  BY <1>12 DEF AwaitAccepted, TakeEvent, GiveUp
<1>13. ASSUME Listen PROVE FreshWorkers'
  BY <1>13 DEF Listen, TakeEvent, GiveUp
<1>14. ASSUME Consume PROVE FreshWorkers'
  BY <1>14 DEF Consume
<1>15. ASSUME Drain PROVE FreshWorkers'
  BY <1>15 DEF Drain, TakeEvent, GiveUp
<1>16. ASSUME CloseWaits PROVE FreshWorkers'
  BY <1>16 DEF CloseWaits
<1>17. ASSUME CloseLocks PROVE FreshWorkers'
  BY <1>17 DEF CloseLocks
<1>18. ASSUME CloseQuits PROVE FreshWorkers'
  BY <1>18 DEF CloseQuits
<1>19. ASSUME CloseEnds PROVE FreshWorkers'
  BY <1>19 DEF CloseEnds, TakeEvent, Terminate
<1> QED BY <1>1, <1>2, <1>3, <1>4, <1>5, <1>6, <1>7, <1>8, <1>9, <1>10, <1>11, <1>12, 
           <1>13, <1>14, <1>15, <1>16, <1>17, <1>18, <1>19
        DEF PiperNext, WorkerStep, CallerStep, CloserStep


LEMMA ShapeKept == PiperShape /\ FreshWorkers /\ LocksAreKept /\ [PiperNext]_piperVars => PiperShape'
<1> SUFFICES ASSUME PiperShape /\ FreshWorkers /\ LocksAreKept, [PiperNext]_piperVars PROVE PiperShape'
  OBVIOUS
<1> USE PiperAssumption DEF PiperShape, FreshWorkers, LocksAreKept, Requesting, Closing, Alive, Workers
<1>1. CASE UNCHANGED piperVars
  BY <1>1 DEF piperVars
<1>2. ASSUME NEW w \in Workers, WorkerReady(w) PROVE PiperShape'
  <2>2. \A e : Says(w, e) => /\ DOMAIN pipe' = Workers /\ IsSeq(pipe'[w])
                             /\ \A v \in Workers : v # w => pipe'[v] = pipe[v]
    BY SeqGrows DEF Says
  <2>3. DOMAIN worker' = Workers /\ \A v \in Workers : DOMAIN worker'[v] = {"at", "id", "frames"}
    BY <1>2 DEF WorkerReady, Becomes
  <2>4. DOMAIN pipe' = Workers /\ \A v \in Workers : IsSeq(pipe'[v])
    BY <1>2, <2>2 DEF WorkerReady
  <2> QED BY <1>2, <2>3, <2>4 DEF WorkerReady
<1>3. ASSUME NEW w \in Workers, WorkerTakes(w) PROVE PiperShape'
  <2>1. IsSeq(inbox'[w]) /\ DOMAIN inbox' = Workers /\ \A v \in Workers : v # w => inbox'[v] = inbox[v]
    BY <1>3, SeqTail DEF WorkerTakes
  <2>2. \A e : Says(w, e) => /\ DOMAIN pipe' = Workers /\ IsSeq(pipe'[w])
                             /\ \A v \in Workers : v # w => pipe'[v] = pipe[v]
    BY SeqGrows DEF Says
  <2>3. DOMAIN worker' = Workers /\ \A v \in Workers : DOMAIN worker'[v] = {"at", "id", "frames"}
    BY <1>3 DEF WorkerTakes, Becomes
  <2>4. DOMAIN pipe' = Workers /\ \A v \in Workers : IsSeq(pipe'[v])
    BY <1>3, <2>2 DEF WorkerTakes
  <2> QED BY <1>3, <2>1, <2>3, <2>4 DEF WorkerTakes
<1>4. ASSUME NEW w \in Workers, WorkerSpeaks(w) PROVE PiperShape'
  <2>2. \A e : Says(w, e) => /\ DOMAIN pipe' = Workers /\ IsSeq(pipe'[w])
                             /\ \A v \in Workers : v # w => pipe'[v] = pipe[v]
    BY SeqGrows DEF Says
  <2>3. DOMAIN worker' = Workers /\ \A v \in Workers : DOMAIN worker'[v] = {"at", "id", "frames"}
    BY <1>4 DEF WorkerSpeaks, Becomes
  <2>4. DOMAIN pipe' = Workers /\ \A v \in Workers : IsSeq(pipe'[v])
    BY <1>4, <2>2 DEF WorkerSpeaks
  <2> QED BY <1>4, <2>3, <2>4 DEF WorkerSpeaks
<1>5. ASSUME NEW w \in Workers, WorkerDies(w) PROVE PiperShape'
  BY <1>5 DEF WorkerDies, Becomes
<1>6. ASSUME ReaderQueues PROVE PiperShape'
  <2>1. \A e : IsSeq(Append(events, e)) BY SeqGrows
  <2>2. reader \in Workers
    <3>1. reader # 0 BY <1>6 DEF ReaderQueues
    <3>2. reader = process BY <3>1
    <3> QED BY <3>1, <3>2
  <2>3. CASE pipe[reader] # << >>
    <3>1. IsSeq(Tail(pipe[reader])) BY <2>2, <2>3, SeqTail
    <3>2. /\ events' = Append(events, Head(pipe[reader]))
          /\ pipe' = [pipe EXCEPT ![reader] = Tail(pipe[reader])]
          /\ UNCHANGED <<process, worker, inbox, counter, caller, shutdown>>
      BY <1>6, <2>3 DEF ReaderQueues
    <3>3. DOMAIN pipe' = Workers /\ \A v \in Workers : IsSeq(pipe'[v]) BY <2>2, <3>1, <3>2
    <3> QED BY <2>1, <3>2, <3>3
  <2>4. CASE pipe[reader] = << >>
    <3>1. /\ events' = Append(events, Event("eof", 0))
          /\ UNCHANGED <<pipe, process, worker, inbox, counter, caller, shutdown>>
      BY <1>6, <2>4 DEF ReaderQueues
    <3> QED BY <2>1, <3>1
  <2> QED BY <2>3, <2>4
<1>7. ASSUME StreamEnter PROVE PiperShape'
  BY <1>7 DEF StreamEnter
<1>8. ASSUME StartWorker PROVE PiperShape'
  <2>1. CASE Alive(process) BY <1>8, <2>1 DEF StartWorker
  <2>2. ASSUME NEW w \in Workers, worker[w].at = "none", ~Alive(process),
               worker' = [worker EXCEPT ![w].at = "loading"], process' = w, reader' = w,
               events' = <<>>, timedOut' = FALSE,
               caller' = [caller EXCEPT !.at = "ready", !.w = w]
        PROVE  PiperShape'
    <3>1. worker'[w].at = "loading" /\ \A v \in Workers : v # w => worker'[v] = worker[v] BY <2>2
    <3>2. caller'.at = "ready" /\ caller'.w = w /\ w # 0 BY <2>2
    <3>3. /\ caller.at = "start" /\ shutdown.at \notin {"locked", "bye"}
          /\ UNCHANGED <<inbox, pipe, requestLock, counter, shutdown>> BY <1>8 DEF StartWorker
    <3> QED BY <2>2, <3>1, <3>2, <3>3, EmptyIsSeq
  <2>3. ASSUME caller' = [caller EXCEPT !.at = "idle"], process' = 0, reader' = 0,
               UNCHANGED <<worker, events, timedOut>>
        PROVE  PiperShape'
    BY <1>8, <2>3 DEF StartWorker
  <2> QED BY <1>8, <2>1, <2>2, <2>3 DEF StartWorker
<1>9. ASSUME AwaitReady PROVE PiperShape'
  <2>1. CASE events # << >>
    <3>1. IsSeq(Tail(events)) BY <2>1, SeqTail
    <3> QED BY <1>9, <2>1, <3>1 DEF AwaitReady, TakeEvent, Terminate
  <2>2. CASE events = << >> BY <1>9, <2>2 DEF AwaitReady, TakeEvent, Terminate
  <2> QED BY <2>1, <2>2
<1>10. ASSUME TakeRequestLock PROVE PiperShape'
  BY <1>10 DEF TakeRequestLock
<1>11. ASSUME SendRequest PROVE PiperShape'
  <2>1. counter' \in 0 .. MaxRequests BY <1>11 DEF SendRequest
  <2>2. CASE Alive(process)
    <3>1. process \in Workers /\ IsSeq(Append(inbox[process], counter + 1)) BY <2>2, SeqGrows
    <3>2. inbox' = [inbox EXCEPT ![process] = Append(inbox[process], counter + 1)]
      BY <1>11, <2>2 DEF SendRequest
    <3>3. DOMAIN inbox' = Workers /\ \A v \in Workers : IsSeq(inbox'[v]) BY <3>1, <3>2
    <3>4. DOMAIN caller' = {"at", "id", "w"} /\ caller'.at = "accept" BY <1>11, <2>2 DEF SendRequest
    <3> QED BY <1>11, <2>1, <3>3, <3>4 DEF SendRequest
  <2>3. CASE ~Alive(process) BY <1>11, <2>1, <2>3 DEF SendRequest, GiveUp
  <2> QED BY <2>2, <2>3
<1>12. ASSUME AwaitAccepted PROVE PiperShape'
  <2>1. CASE events # << >>
    <3>1. IsSeq(Tail(events)) BY <2>1, SeqTail
    <3> QED BY <1>12, <2>1, <3>1 DEF AwaitAccepted, TakeEvent, GiveUp
  <2>2. CASE events = << >> BY <1>12, <2>2 DEF AwaitAccepted, TakeEvent, GiveUp
  <2> QED BY <2>1, <2>2
<1>13. ASSUME Listen PROVE PiperShape'
  <2>1. CASE events # << >>
    <3>1. IsSeq(Tail(events)) BY <2>1, SeqTail
    <3> QED BY <1>13, <2>1, <3>1 DEF Listen, TakeEvent, GiveUp
  <2>2. CASE events = << >> BY <1>13, <2>2 DEF Listen, TakeEvent, GiveUp
  <2> QED BY <2>1, <2>2
<1>14. ASSUME Consume PROVE PiperShape'
  BY <1>14 DEF Consume
<1>15. ASSUME Drain PROVE PiperShape'
  <2>1. CASE events # << >>
    <3>1. IsSeq(Tail(events)) BY <2>1, SeqTail
    <3> QED BY <1>15, <2>1, <3>1 DEF Drain, TakeEvent, GiveUp
  <2>2. CASE events = << >> BY <1>15, <2>2 DEF Drain, TakeEvent, GiveUp
  <2> QED BY <2>1, <2>2
<1>16. ASSUME CloseWaits PROVE PiperShape'
  BY <1>16 DEF CloseWaits
<1>17. ASSUME CloseLocks PROVE PiperShape'
  BY <1>17 DEF CloseLocks
<1>18. ASSUME CloseQuits PROVE PiperShape'
  <2>1. Closing /\ shutdown.of \in Workers BY <1>18 DEF CloseQuits
  <2>2. IsSeq(Append(inbox[shutdown.of], Quit)) BY <2>1, SeqGrows
  <2>3. DOMAIN inbox' = Workers /\ \A v \in Workers : IsSeq(inbox'[v]) BY <1>18, <2>1, <2>2 DEF CloseQuits
  <2> QED BY <1>18, <2>3 DEF CloseQuits
<1>19. ASSUME CloseEnds PROVE PiperShape'
  <2>1. CASE events # << >>
    <3>1. IsSeq(Tail(events)) BY <2>1, SeqTail
    <3> QED BY <1>19, <2>1, <3>1 DEF CloseEnds, TakeEvent, Terminate
  <2>2. CASE events = << >> BY <1>19, <2>2 DEF CloseEnds, TakeEvent, Terminate
  <2> QED BY <2>1, <2>2
<1> QED BY <1>1, <1>2, <1>3, <1>4, <1>5, <1>6, <1>7, <1>8, <1>9, <1>10, <1>11, <1>12, 
           <1>13, <1>14, <1>15, <1>16, <1>17, <1>18, <1>19
        DEF PiperNext, WorkerStep, CallerStep, CloserStep


\* What a step leaves of the worker in use, of its pipes and of the queue.
LEMMA Positions ==
  ASSUME PiperInvariant
  PROVE  /\ caller.at \in {"idle", "start", "ready", "lock", "send", "accept", "listen", "yield", "drain"}
         /\ DOMAIN caller = {"at", "id", "w"} /\ DOMAIN shutdown = {"at", "of"}
BY DEF PiperInvariant, PiperShape, Requesting

LEMMA SessionWorker == ASSUME PiperShape, process # 0 PROVE process \in Workers
BY PiperAssumption DEF PiperShape, Workers

LEMMA ViewKept ==
  ASSUME PiperInvariant, UNCHANGED <<process, events, caller, shutdown, timedOut>>,
         process # 0 => /\ worker'[process] = worker[process]
                        /\ pipe'[process] = pipe[process]
                        /\ inbox'[process] = inbox[process]
  PROVE  (InSession => ChannelHolds)'
<1> SUFFICES ASSUME InSession' PROVE ChannelHolds'
  OBVIOUS
<1>1. process # 0 /\ process' = process BY DEF InSession, Alive
<1>2. Channel' = Channel BY <1>1 DEF Channel
<1>3. InSession BY <1>1 DEF InSession, Alive
<1> QED BY <1>1, <1>2, <1>3
        DEF PiperInvariant, ChannelHolds, StartingWith, AskedWith, Pending, PendingWith, CleanWith

LEMMA SaysSo ==
  ASSUME PiperInvariant, NEW w \in Workers
  PROVE  /\ \A e : Says(w, e) => pipe'[w] = Append(pipe[w], e)
         /\ \A at, id, f : Becomes(w, at, id, f) => worker'[w].at = at /\ worker'[w].id = id
<1> USE DEF PiperInvariant, PiperShape
<1>1. \A e : Says(w, e) => pipe'[w] = Append(pipe[w], e) BY DEF Says
<1>2. \A at, id, f : Becomes(w, at, id, f) => worker'[w].at = at /\ worker'[w].id = id BY DEF Becomes
<1> QED BY <1>1, <1>2

LEMMA OthersUntouched ==
  ASSUME PiperInvariant, NEW w \in Workers, WorkerStep(w) \/ WorkerDies(w), NEW v \in Workers, v # w
  PROVE  worker'[v] = worker[v] /\ pipe'[v] = pipe[v] /\ inbox'[v] = inbox[v]
<1> USE DEF PiperInvariant, PiperShape
<1>1. \A e : Says(w, e) => pipe'[v] = pipe[v] BY DEF Says
<1>2. \A at, id, f : Becomes(w, at, id, f) => worker'[v] = worker[v] BY DEF Becomes
<1>3. CASE WorkerReady(w) BY <1>1, <1>2, <1>3 DEF WorkerReady
<1>4. CASE WorkerTakes(w)
  <2>1. inbox'[v] = inbox[v] BY <1>4 DEF WorkerTakes
  <2> QED BY <1>1, <1>2, <1>4, <2>1 DEF WorkerTakes
<1>5. CASE WorkerSpeaks(w) BY <1>1, <1>2, <1>5 DEF WorkerSpeaks
<1>6. CASE WorkerDies(w) BY <1>2, <1>6 DEF WorkerDies
<1> QED BY <1>3, <1>4, <1>5, <1>6 DEF WorkerStep

LEMMA SaidBehind ==
  ASSUME PiperInvariant, process \in Workers, UNCHANGED <<process, events>>,
         NEW e, pipe'[process] = Append(pipe[process], e)
  PROVE  IsSeq(Channel) /\ Channel' = Append(Channel, e)
<1>1. IsSeq(events) /\ IsSeq(pipe[process]) BY DEF PiperInvariant, PiperShape
<1>2. Channel' = events \o Append(pipe[process], e) BY DEF Channel
<1>3. /\ IsSeq(events \o pipe[process])
      /\ events \o Append(pipe[process], e) = Append(events \o pipe[process], e)
  <2>1. \A a, b : IsSeq(a) /\ IsSeq(b) => IsSeq(a \o b) /\ a \o Append(b, e) = Append(a \o b, e)
    BY SaidLast
  <2> QED BY <1>1, <2>1
<1> QED BY <1>2, <1>3 DEF Channel

LEMMA TakenAhead ==
  ASSUME PiperInvariant, process \in Workers, events # << >>, events' = Tail(events),
         UNCHANGED <<process, pipe>>
  PROVE  IsSeq(Channel) /\ Channel # << >> /\ Head(events) = Head(Channel) /\ Channel' = Tail(Channel)
<1>1. IsSeq(events) /\ IsSeq(pipe[process]) BY DEF PiperInvariant, PiperShape
<1>2. Channel' = Tail(events) \o pipe[process] BY DEF Channel
<1>3. IsSeq(events \o pipe[process]) BY <1>1, SaidLast
<1> QED BY <1>1, <1>2, <1>3, TakenFirst DEF Channel

LEMMA ChannelKept == PiperInvariant /\ [PiperNext]_piperVars => (InSession => ChannelHolds)'
<1> SUFFICES ASSUME PiperInvariant, [PiperNext]_piperVars PROVE (InSession => ChannelHolds)'
  OBVIOUS
<1>1. CASE UNCHANGED piperVars
  BY <1>1, ViewKept DEF piperVars
<1>2. ASSUME NEW w \in Workers, WorkerReady(w) PROVE (InSession => ChannelHolds)'
  <2>1. UNCHANGED <<process, events, caller, shutdown, timedOut, reader>> BY <1>2 DEF WorkerReady
  <2>2. CASE w # process
    <3>1. process # 0 => process \in Workers BY SessionWorker DEF PiperInvariant
    <3>2. process # 0 => /\ worker'[process] = worker[process]
                         /\ pipe'[process] = pipe[process]
                         /\ inbox'[process] = inbox[process]
      BY <1>2, <2>2, <3>1, OthersUntouched DEF WorkerStep
    <3> QED BY <2>1, <3>2, ViewKept
  <2>3. CASE w = process
    <3>1. /\ worker[process].at = "loading" /\ pipe'[process] = Append(pipe[process], Event("ready", 0))
          /\ worker'[process].at = "idle" /\ worker'[process].id = 0 /\ UNCHANGED inbox
      BY <1>2, <2>3, SaysSo DEF WorkerReady
    <3>2. SUFFICES ASSUME InSession' PROVE ChannelHolds' OBVIOUS
    <3>3. InSession /\ ChannelHolds BY <2>1, <3>1, <3>2 DEF InSession, Alive, PiperInvariant
    <3>4. Channel' = Append(Channel, Event("ready", 0)) BY <2>1, <2>3, <3>1, SaidBehind
    <3>5. CASE caller.at = "ready"
      <4>1. Channel = << >> /\ inbox[process] = << >>
        BY <3>1, <3>3, <3>5 DEF ChannelHolds, StartingWith
      <4>2. Channel' = <<Event("ready", 0)>> BY <3>4, <4>1, SeqOfOne
      <4> QED BY <2>1, <3>1, <3>5, <4>1, <4>2 DEF ChannelHolds, StartingWith
    <3>6. CASE caller.at # "ready"
      <4>1. caller.at \in {"idle", "start", "lock", "send"} /\ shutdown.at = "bye"
        BY <3>1, <3>3, <3>6, Positions DEF ChannelHolds, AskedWith, Pending, PendingWith, CleanWith
      <4> QED BY <2>1, <4>1 DEF ChannelHolds
    <3> QED BY <3>5, <3>6
  <2> QED BY <2>2, <2>3
<1>3. ASSUME NEW w \in Workers, WorkerTakes(w) PROVE (InSession => ChannelHolds)'
  <2>1. UNCHANGED <<process, events, caller, shutdown, timedOut, reader>> BY <1>3 DEF WorkerTakes
  <2>2. CASE w # process
    <3>1. process # 0 => process \in Workers BY SessionWorker DEF PiperInvariant
    <3>2. process # 0 => /\ worker'[process] = worker[process]
                         /\ pipe'[process] = pipe[process]
                         /\ inbox'[process] = inbox[process]
      BY <1>3, <2>2, <3>1, OthersUntouched DEF WorkerStep
    <3> QED BY <2>1, <3>2, ViewKept
  <2>3. CASE w = process
    <3>1. SUFFICES ASSUME InSession' PROVE ChannelHolds' OBVIOUS
    <3>2. worker[process].at = "idle" /\ inbox[process] # << >> /\ inbox'[process] = Tail(inbox[process])
      BY <1>3, <2>3, SessionWorker DEF WorkerTakes, PiperInvariant, PiperShape
    <3>3. InSession /\ ChannelHolds BY <2>1, <3>1, <3>2 DEF InSession, Alive, PiperInvariant
    <3>4. CASE caller.at = "accept"
      <4>1. inbox[process] = <<caller.id>> /\ Channel = << >>
        BY <3>2, <3>3, <3>4 DEF ChannelHolds, AskedWith, Pending, PendingWith
      <4>2. caller.id \in 1 .. MaxRequests /\ Head(inbox[process]) = caller.id /\ Tail(inbox[process]) = << >>
        BY <3>4, <4>1 DEF PiperInvariant, LocksAreKept, Requesting
      <4>3. Head(inbox[process]) # Quit BY <4>2, PiperAssumption DEF Quit
      <4>4. /\ pipe'[process] = Append(pipe[process], Event("accepted", caller.id))
            /\ worker'[process].at = "synthesizing" /\ worker'[process].id = caller.id
        BY <1>3, <2>3, <4>2, <4>3, SaysSo DEF WorkerTakes
      <4>5. Channel' = <<Event("accepted", caller.id)>>
        BY <2>1, <2>3, <4>1, <4>4, SaidBehind, SeqOfOne
      <4>6. Channel' # << >> /\ Head(Channel') = Event("accepted", caller.id) /\ Tail(Channel') = << >>
        BY <4>5, SeqOfOne
      <4>7. PendingWith(worker'[process], inbox'[process], << >>, caller.id) BY <2>1, <3>2, <4>2, <4>4, EmptyIsSeq DEF Pending, PendingWith, AudioOf
      <4> QED BY <2>1, <3>4, <4>6, <4>7 DEF ChannelHolds, AskedWith, Pending
    <3>5. CASE caller.at # "accept"
      <4>1. caller.at \in {"idle", "start", "lock", "send"} /\ shutdown.at = "bye"
        BY <3>2, <3>3, <3>5, Positions DEF ChannelHolds, StartingWith, Pending, PendingWith, CleanWith
      <4> QED BY <2>1, <4>1 DEF ChannelHolds
    <3> QED BY <3>4, <3>5
  <2> QED BY <2>2, <2>3
<1>4. ASSUME NEW w \in Workers, WorkerSpeaks(w) PROVE (InSession => ChannelHolds)'
  <2>1. UNCHANGED <<process, events, caller, shutdown, timedOut, reader>> BY <1>4 DEF WorkerSpeaks
  <2>2. CASE w # process
    <3>1. process # 0 => process \in Workers BY SessionWorker DEF PiperInvariant
    <3>2. process # 0 => /\ worker'[process] = worker[process]
                         /\ pipe'[process] = pipe[process]
                         /\ inbox'[process] = inbox[process]
      BY <1>4, <2>2, <3>1, OthersUntouched DEF WorkerStep
    <3> QED BY <2>1, <3>2, ViewKept
  <2>3. CASE w = process
    <3>1. SUFFICES ASSUME InSession' PROVE ChannelHolds' OBVIOUS
    <3>2. worker[process].at = "synthesizing" /\ UNCHANGED inbox BY <1>4, <2>3 DEF WorkerSpeaks
    <3>3. InSession /\ ChannelHolds BY <2>1, <3>1, <3>2 DEF InSession, Alive, PiperInvariant
    <3>4. CASE caller.at \notin {"accept", "listen", "yield", "drain"}
      <4>1. caller.at \in {"idle", "start", "lock", "send"} /\ shutdown.at = "bye"
        BY <3>2, <3>3, <3>4, Positions DEF ChannelHolds, StartingWith, CleanWith
      <4> QED BY <2>1, <4>1 DEF ChannelHolds
    <3>5. CASE caller.at \in {"accept", "listen", "yield", "drain"}
      <4> DEFINE id == caller.id
      <4>1. worker[process].id = id
        BY <3>2, <3>3, <3>5 DEF ChannelHolds, AskedWith, Pending, PendingWith
      <4>2. PICK e : /\ pipe'[process] = Append(pipe[process], e)
                     /\ \/ e = Event("audio", id) /\ worker'[process].at = "synthesizing" /\ worker'[process].id = id
                        \/ EndOf(e, id) /\ worker'[process].at = "idle"
        <5>1. \/ Says(w, Event("audio", id)) /\ \E f : Becomes(w, "synthesizing", id, f)
              \/ Says(w, Event("done", id)) /\ Becomes(w, "idle", 0, 0)
              \/ Says(w, Event("error", 0)) /\ Becomes(w, "idle", 0, 0)
          BY <1>4, <2>3, <4>1 DEF WorkerSpeaks
        <5> QED BY <2>3, <5>1, SaysSo DEF EndOf
      <4>3. Channel' = Append(Channel, e) /\ IsSeq(Channel) BY <2>1, <2>3, <4>2, SaidBehind
      <4>4. ASSUME NEW s, IsSeq(s), PendingWith(worker[process], inbox[process], s, id)
            PROVE  PendingWith(worker'[process], inbox'[process], Append(s, e), id)
        <5>1. inbox[process] = << >> /\ AudioOf(s, id) BY <3>2, <4>4 DEF Pending, PendingWith
        <5>2. e = Event("audio", id) => AudioOf(Append(s, e), id) BY <4>4, <5>1, PendingSaid
        <5>3. EndOf(e, id) => OverOf(Append(s, e), id) BY <4>4, <5>1, PendingSaid
        <5> QED BY <2>1, <3>2, <4>2, <5>1, <5>2, <5>3 DEF Pending, PendingWith, AudioOf, OverOf, EndOf
      <4>5. CASE caller.at = "accept"
        <5>1. Channel # << >> /\ Head(Channel) = Event("accepted", id) /\ Pending(Tail(Channel), id)
          BY <3>2, <3>3, <4>5 DEF ChannelHolds, AskedWith
        <5>2. IsSeq(Tail(Channel)) BY <4>3, <5>1, SeqTail
        <5>3. PendingWith(worker'[process], inbox'[process], Append(Tail(Channel), e), id)
          BY <4>4, <5>1, <5>2 DEF Pending
        <5>4. Channel' # << >> /\ Head(Channel') = Head(Channel) /\ Tail(Channel') = Append(Tail(Channel), e)
          BY <4>3, <5>1, SeqGrows
        <5>5. PendingWith(worker'[process'], inbox'[process'], Tail(Channel'), caller'.id)
          BY <2>1, <5>3, <5>4
        <5> QED BY <2>1, <4>5, <5>1, <5>4, <5>5 DEF ChannelHolds, AskedWith, Pending
      <4>6. CASE caller.at # "accept"
        <5>1. Pending(Channel, id) BY <3>3, <3>5, <4>6 DEF ChannelHolds
        <5>2. PendingWith(worker'[process], inbox'[process], Append(Channel, e), id)
          BY <4>3, <4>4, <5>1 DEF Pending
        <5> QED BY <2>1, <3>5, <4>3, <4>6, <5>2 DEF ChannelHolds, Pending
      <4> QED BY <4>5, <4>6
    <3> QED BY <3>4, <3>5
  <2> QED BY <2>2, <2>3
<1>5. ASSUME NEW w \in Workers, WorkerDies(w) PROVE (InSession => ChannelHolds)'
  <2>1. UNCHANGED <<process, events, caller, shutdown, timedOut, reader>> BY <1>5 DEF WorkerDies
  <2>2. CASE w # process
    <3>1. process # 0 => process \in Workers BY SessionWorker DEF PiperInvariant
    <3>2. process # 0 => /\ worker'[process] = worker[process]
                         /\ pipe'[process] = pipe[process]
                         /\ inbox'[process] = inbox[process]
      BY <1>5, <2>2, <3>1, OthersUntouched DEF WorkerStep
    <3> QED BY <2>1, <3>2, ViewKept
  <2>3. CASE w = process
    <3>1. worker'[process].at = "gone" BY <1>5, <2>3, SaysSo DEF WorkerDies
    <3> QED BY <2>1, <3>1 DEF InSession, Alive
  <2> QED BY <2>2, <2>3
<1>6. ASSUME ReaderQueues PROVE (InSession => ChannelHolds)'
  <2>1. SUFFICES ASSUME InSession' PROVE ChannelHolds' OBVIOUS
  <2>2. UNCHANGED <<process, worker, inbox, caller, shutdown, timedOut>> BY <1>6 DEF ReaderQueues
  <2>3. InSession /\ reader = process /\ worker[process].at # "gone" /\ process \in Workers
    BY <2>1, <2>2, SessionWorker DEF InSession, Alive, PiperInvariant, FreshWorkers
  <2>4. /\ pipe[process] # << >> /\ events' = Append(events, Head(pipe[process]))
        /\ pipe' = [pipe EXCEPT ![process] = Tail(pipe[process])]
    BY <1>6, <2>3 DEF ReaderQueues
  <2>5. IsSeq(events) /\ IsSeq(pipe[process]) /\ DOMAIN pipe = Workers
    BY <2>3 DEF PiperInvariant, PiperShape
  <2>6. events' \o pipe'[process] = Channel BY <2>3, <2>4, <2>5, ReadAhead DEF Channel
  <2>7. Channel' = Channel BY <2>2, <2>6 DEF Channel
  <2>8. ChannelHolds BY <2>3 DEF PiperInvariant
  <2> QED BY <2>2, <2>7, <2>8
          DEF ChannelHolds, StartingWith, AskedWith, Pending, PendingWith, CleanWith
<1>7. ASSUME StreamEnter PROVE (InSession => ChannelHolds)'
  <2>1. /\ UNCHANGED <<process, worker, inbox, pipe, events, shutdown, timedOut>>
        /\ caller.at = "idle" /\ caller'.at = "start"
    BY <1>7, Positions DEF StreamEnter
  <2> QED BY <2>1 DEF PiperInvariant, ChannelHolds, Channel, InSession, Alive, CleanWith
<1>8. ASSUME StartWorker PROVE (InSession => ChannelHolds)'
  <2>1. UNCHANGED <<inbox, pipe, shutdown>> /\ caller.at = "start" /\ DOMAIN caller = {"at", "id", "w"}
    BY <1>8, Positions DEF StartWorker
  <2>2. CASE Alive(process)
    <3>1. caller'.at = "lock" /\ UNCHANGED <<process, worker, events, timedOut>>
      BY <1>8, <2>1, <2>2 DEF StartWorker
    <3> QED BY <2>1, <3>1 DEF PiperInvariant, ChannelHolds, Channel, InSession, Alive, CleanWith
  <2>3. ASSUME NEW w \in Workers, worker[w].at = "none",
               worker' = [worker EXCEPT ![w].at = "loading"], process' = w,
               events' = <<>>, caller' = [caller EXCEPT !.at = "ready", !.w = w]
        PROVE  ChannelHolds'
    <3>1. DOMAIN worker = Workers /\ DOMAIN worker[w] = {"at", "id", "frames"} /\ inbox[w] = << >> /\ pipe[w] = << >>
      BY <2>3 DEF PiperInvariant, PiperShape, FreshWorkers
    <3>2. worker'[w].at = "loading" /\ caller'.at = "ready" BY <2>1, <2>3, <3>1
    <3>3. Channel' = << >> BY <2>1, <2>3, <3>1, OnlyTheFirst, EmptyIsSeq DEF Channel
    <3> QED BY <2>1, <2>3, <3>1, <3>2, <3>3 DEF ChannelHolds, StartingWith
  <2>4. CASE process' = 0 BY <2>4 DEF InSession, Alive
  <2> QED BY <1>8, <2>2, <2>3, <2>4 DEF StartWorker
<1>9. ASSUME AwaitReady PROVE (InSession => ChannelHolds)'
  <2>1. SUFFICES ASSUME InSession' PROVE ChannelHolds' OBVIOUS
  <2>2. events # << >> /\ events' = Tail(events) /\ UNCHANGED timedOut /\ UNCHANGED <<inbox, pipe, shutdown>>
    BY <1>9, <2>1 DEF AwaitReady, TakeEvent, InSession
  <2>3. process' = process /\ UNCHANGED worker
    BY <1>9, <2>1, <2>2 DEF AwaitReady, TakeEvent, InSession, Alive
  <2>4. InSession /\ ChannelHolds BY <2>1, <2>2, <2>3 DEF InSession, Alive, PiperInvariant
  <2>5. /\ IsSeq(Channel) /\ Channel # << >> /\ Head(events) = Head(Channel) /\ Channel' = Tail(Channel)
    <3>1. process \in Workers BY <2>4, SessionWorker DEF InSession, Alive, PiperInvariant
    <3> QED BY <2>2, <2>3, <3>1, TakenAhead
  <2>6. caller.at = "ready" /\ ~Closing /\ caller'.at = "lock" /\ DOMAIN caller = {"at", "id", "w"}
    BY <1>9, <2>1, <2>2, Positions DEF AwaitReady, TakeEvent, InSession, Alive, PiperInvariant, LocksAreKept
  <2>7. Channel = <<Event("ready", 0)>> /\ worker[process].at = "idle" /\ inbox[process] = << >>
    BY <2>4, <2>5, <2>6 DEF ChannelHolds, StartingWith
  <2>8. Channel' = << >> BY <2>5, <2>7, SeqOfOne
  <2> QED BY <2>2, <2>3, <2>6, <2>7, <2>8 DEF ChannelHolds, CleanWith
<1>10. ASSUME TakeRequestLock PROVE (InSession => ChannelHolds)'
  <2>1. UNCHANGED <<process, worker, inbox, pipe, events, shutdown, timedOut>> /\ caller.at = "lock"
    BY <1>10 DEF TakeRequestLock
  <2>2. caller'.at \in {"send", "idle"} BY <1>10, Positions DEF TakeRequestLock
  <2> QED BY <2>1, <2>2 DEF PiperInvariant, ChannelHolds, Channel, InSession, Alive, CleanWith
<1>11. ASSUME SendRequest PROVE (InSession => ChannelHolds)'
  <2>1. SUFFICES ASSUME InSession' PROVE ChannelHolds' OBVIOUS
  <2>2. UNCHANGED <<process, worker, pipe, events, shutdown, timedOut>> /\ caller.at = "send"
    BY <1>11 DEF SendRequest
  <2>3. InSession /\ Alive(process) /\ process \in Workers
    BY <2>1, <2>2, SessionWorker DEF InSession, Alive, PiperInvariant
  <2>4. /\ caller'.at = "accept" /\ caller'.id = counter + 1
        /\ inbox' = [inbox EXCEPT ![process] = Append(inbox[process], counter + 1)]
    BY <1>11, <2>3, Positions DEF SendRequest
  <2>5. shutdown.at # "bye" BY <2>2 DEF PiperInvariant, LocksAreKept, Requesting
  <2>6. CleanWith(Channel) BY <2>2, <2>3, <2>5 DEF PiperInvariant, ChannelHolds
  <2>7. inbox'[process] = <<counter + 1>>
    <3>1. inbox'[process] = Append(inbox[process], counter + 1)
      BY <2>3, <2>4 DEF PiperInvariant, PiperShape
    <3>2. inbox[process] = << >> BY <2>6 DEF CleanWith
    <3> QED BY <3>1, <3>2, SeqOfOne
  <2>8. Channel' = << >> /\ worker'[process].at = "idle" BY <2>2, <2>6 DEF CleanWith, Channel
  <2> QED BY <2>2, <2>4, <2>7, <2>8 DEF ChannelHolds, AskedWith
<1>12. ASSUME AwaitAccepted PROVE (InSession => ChannelHolds)'
  <2>1. SUFFICES ASSUME InSession' PROVE ChannelHolds' OBVIOUS
  <2>2. events # << >> /\ events' = Tail(events) /\ UNCHANGED timedOut /\ UNCHANGED <<inbox, pipe, shutdown>>
    BY <1>12, <2>1 DEF AwaitAccepted, TakeEvent, InSession
  <2>3. process' = process /\ UNCHANGED worker
    BY <1>12, <2>1, <2>2 DEF AwaitAccepted, TakeEvent, InSession, Alive
  <2>4. InSession /\ ChannelHolds BY <2>1, <2>2, <2>3 DEF InSession, Alive, PiperInvariant
  <2>5. /\ IsSeq(Channel) /\ Channel # << >> /\ Head(events) = Head(Channel) /\ Channel' = Tail(Channel)
    <3>1. process \in Workers BY <2>4, SessionWorker DEF InSession, Alive, PiperInvariant
    <3> QED BY <2>2, <2>3, <3>1, TakenAhead
  <2>6. caller.at = "accept" /\ DOMAIN caller = {"at", "id", "w"} BY <1>12, Positions DEF AwaitAccepted
  <2>7. Head(Channel) = Event("accepted", caller.id) /\ Pending(Tail(Channel), caller.id)
    BY <2>4, <2>5, <2>6 DEF ChannelHolds, AskedWith
  <2>8. caller'.at = "listen" /\ caller'.id = caller.id
    BY <1>12, <2>2, <2>5, <2>6, <2>7 DEF AwaitAccepted, TakeEvent
  <2>9. Pending(Channel, caller.id)' BY <2>2, <2>3, <2>5, <2>7, <2>8 DEF Pending
  <2> QED BY <2>8, <2>9 DEF ChannelHolds
<1>13. ASSUME Listen PROVE (InSession => ChannelHolds)'
  <2>1. SUFFICES ASSUME InSession' PROVE ChannelHolds' OBVIOUS
  <2>2. events # << >> /\ events' = Tail(events) /\ UNCHANGED timedOut /\ UNCHANGED <<inbox, pipe, shutdown>>
    BY <1>13, <2>1 DEF Listen, TakeEvent, InSession
  <2>3. process' = process /\ UNCHANGED worker
    BY <1>13, <2>1, <2>2 DEF Listen, TakeEvent, InSession, Alive
  <2>4. InSession /\ ChannelHolds BY <2>1, <2>2, <2>3 DEF InSession, Alive, PiperInvariant
  <2>5. /\ IsSeq(Channel) /\ Channel # << >> /\ Head(events) = Head(Channel) /\ Channel' = Tail(Channel)
    <3>1. process \in Workers BY <2>4, SessionWorker DEF InSession, Alive, PiperInvariant
    <3> QED BY <2>2, <2>3, <3>1, TakenAhead
  <2>6. caller.at = "listen" /\ DOMAIN caller = {"at", "id", "w"} BY <1>13, Positions DEF Listen
  <2>7. Pending(Channel, caller.id) BY <2>4, <2>6 DEF ChannelHolds
  <2>8. CASE Head(Channel) = Event("audio", caller.id)
    <3>1. Pending(Tail(Channel), caller.id) BY <2>5, <2>7, <2>8, PendingTaken DEF Pending, PendingWith
    <3>2. caller'.at = "yield" /\ caller'.id = caller.id
      BY <1>13, <2>2, <2>5, <2>6, <2>8 DEF Listen, TakeEvent, Event
    <3>3. Pending(Channel, caller.id)' BY <2>2, <2>3, <2>5, <3>1, <3>2 DEF Pending
    <3> QED BY <3>2, <3>3 DEF ChannelHolds
  <2>9. CASE Head(Channel) # Event("audio", caller.id)
    <3>1. ~AudioOf(Channel, caller.id) BY <2>5, <2>9, PendingTaken
    <3>2. /\ worker[process].at = "idle" /\ inbox[process] = << >>
          /\ Tail(Channel) = << >> /\ EndOf(Head(Channel), caller.id)
      BY <2>5, <2>7, <2>9, <3>1, PendingTaken DEF Pending, PendingWith
    <3>3. caller'.at = "idle"
      BY <1>13, <2>2, <2>5, <2>6, <2>9, <3>2 DEF Listen, TakeEvent, GiveUp, EndOf, Event
    <3>4. CleanWith(Channel)' BY <2>2, <2>3, <2>5, <3>2 DEF CleanWith
    <3> QED BY <3>3, <3>4 DEF ChannelHolds
  <2> QED BY <2>8, <2>9
<1>14. ASSUME Consume PROVE (InSession => ChannelHolds)'
  <2>1. /\ UNCHANGED <<process, worker, inbox, pipe, events, shutdown, timedOut>>
        /\ caller.at = "yield" /\ caller'.at \in {"listen", "drain"} /\ caller'.id = caller.id
    BY <1>14, Positions DEF Consume
  <2> QED BY <2>1 DEF PiperInvariant, ChannelHolds, Channel, InSession, Alive, Pending, PendingWith
<1>15. ASSUME Drain PROVE (InSession => ChannelHolds)'
  <2>1. SUFFICES ASSUME InSession' PROVE ChannelHolds' OBVIOUS
  <2>2. events # << >> /\ events' = Tail(events) /\ UNCHANGED timedOut /\ UNCHANGED <<inbox, pipe, shutdown>>
    BY <1>15, <2>1 DEF Drain, TakeEvent, InSession
  <2>3. process' = process /\ UNCHANGED worker
    BY <1>15, <2>1, <2>2 DEF Drain, TakeEvent, InSession, Alive
  <2>4. InSession /\ ChannelHolds BY <2>1, <2>2, <2>3 DEF InSession, Alive, PiperInvariant
  <2>5. /\ IsSeq(Channel) /\ Channel # << >> /\ Head(events) = Head(Channel) /\ Channel' = Tail(Channel)
    <3>1. process \in Workers BY <2>4, SessionWorker DEF InSession, Alive, PiperInvariant
    <3> QED BY <2>2, <2>3, <3>1, TakenAhead
  <2>6. caller.at = "drain" /\ DOMAIN caller = {"at", "id", "w"} BY <1>15, Positions DEF Drain
  <2>7. Pending(Channel, caller.id) BY <2>4, <2>6 DEF ChannelHolds
  <2>8. CASE Head(Channel) = Event("audio", caller.id)
    <3>1. Pending(Tail(Channel), caller.id) BY <2>5, <2>7, <2>8, PendingTaken DEF Pending, PendingWith
    <3>2. caller'.at = "drain" /\ caller'.id = caller.id
      BY <1>15, <2>2, <2>5, <2>6, <2>8 DEF Drain, TakeEvent, Event
    <3>3. Pending(Channel, caller.id)' BY <2>2, <2>3, <2>5, <3>1, <3>2 DEF Pending
    <3> QED BY <3>2, <3>3 DEF ChannelHolds
  <2>9. CASE Head(Channel) # Event("audio", caller.id)
    <3>1. ~AudioOf(Channel, caller.id) BY <2>5, <2>9, PendingTaken
    <3>2. /\ worker[process].at = "idle" /\ inbox[process] = << >>
          /\ Tail(Channel) = << >> /\ EndOf(Head(Channel), caller.id)
      BY <2>5, <2>7, <2>9, <3>1, PendingTaken DEF Pending, PendingWith
    <3>3. caller'.at = "idle"
      BY <1>15, <2>2, <2>5, <2>6, <2>9, <3>2 DEF Drain, TakeEvent, GiveUp, EndOf, Event
    <3>4. CleanWith(Channel)' BY <2>2, <2>3, <2>5, <3>2 DEF CleanWith
    <3> QED BY <3>3, <3>4 DEF ChannelHolds
  <2> QED BY <2>8, <2>9
<1>16. ASSUME CloseWaits PROVE (InSession => ChannelHolds)'
  <2>1. /\ UNCHANGED <<process, worker, inbox, pipe, events, caller, timedOut>>
        /\ shutdown.at = "open"
    BY <1>16 DEF CloseWaits
  <2> QED BY <2>1 DEF PiperInvariant, ChannelHolds, Channel, InSession, Alive, Pending, PendingWith, StartingWith,
                    AskedWith, CleanWith
<1>17. ASSUME CloseLocks PROVE (InSession => ChannelHolds)'
  <2>1. /\ UNCHANGED <<process, worker, inbox, pipe, events, caller, timedOut>>
        /\ shutdown.at = "waiting"
    BY <1>17 DEF CloseLocks
  <2> QED BY <2>1 DEF PiperInvariant, ChannelHolds, Channel, InSession, Alive, Pending, PendingWith, StartingWith,
                    AskedWith, CleanWith
<1>18. ASSUME CloseQuits PROVE (InSession => ChannelHolds)'
  <2>1. UNCHANGED caller /\ shutdown'.at = "bye" /\ Closing /\ requestLock = "closer"
    BY <1>18, Positions DEF CloseQuits, Closing, PiperInvariant, LocksAreKept
  <2>2. caller.at \in {"idle", "start", "lock"}
    BY <2>1, Positions DEF PiperInvariant, LocksAreKept, Requesting
  <2> QED BY <2>1, <2>2 DEF ChannelHolds
<1>19. ASSUME CloseEnds PROVE (InSession => ChannelHolds)'
  BY <1>19 DEF CloseEnds, TakeEvent, InSession, Alive
<1> QED BY <1>1, <1>2, <1>3, <1>4, <1>5, <1>6, <1>7, <1>8, <1>9, <1>10, <1>11, <1>12, 
           <1>13, <1>14, <1>15, <1>16, <1>17, <1>18, <1>19
        DEF PiperNext, WorkerStep, CallerStep, CloserStep


LEMMA PiperInvariantHolds == PiperSpec => []PiperInvariant
<1>1. PiperInit => PiperInvariant
  BY PiperAssumption, EmptyIsSeq
     DEF PiperInit, PiperInvariant, PiperShape, FreshWorkers, LocksAreKept, InSession, Alive,
         Requesting, Closing, Workers
<1>2. PiperInvariant /\ [PiperNext]_piperVars => PiperInvariant'
  BY LocksKept, WorkersFresh, ShapeKept, ChannelKept DEF PiperInvariant
<1> QED BY <1>1, <1>2, PTL DEF PiperSpec

\* A request that ended, to its end or given up half way and drained, leaves nothing behind that
\* a later one could take for its own: no frame in the queue or in the pipe, no request the worker
\* still works on, unless a wait timed out.
THEOREM RequestsLeaveNothing == PiperSpec => []ChannelIsClean
<1>1. PiperInvariant => ChannelIsClean
  <2> SUFFICES ASSUME PiperInvariant, requestLock = "free", ~timedOut, caller.at # "ready", Alive(process)
               PROVE  /\ \A e \in Frames : e.kind = "ready"
                      /\ worker[process].at \in {"loading", "idle"} /\ inbox[process] = << >>
    BY DEF ChannelIsClean
  <2>1. caller.at \in {"idle", "start", "lock"} /\ shutdown.at # "bye"
    BY Positions DEF PiperInvariant, LocksAreKept, Requesting
  <2>2. CleanWith(Channel) BY <2>1 DEF PiperInvariant, InSession, ChannelHolds
  <2>3. reader = process /\ process \in Workers
    BY SessionWorker DEF PiperInvariant, FreshWorkers, Alive
  <2>4. IsSeq(events) /\ IsSeq(pipe[process]) BY <2>3 DEF PiperInvariant, PiperShape
  <2>5. events = << >>
    <3>1. events # << >> => Channel # << >> BY <2>4, TakenFirst DEF Channel
    <3> QED BY <2>2, <3>1 DEF CleanWith
  <2>6. pipe[process] = << >> BY <2>2, <2>4, <2>5, OnlyTheFirst DEF CleanWith, Channel
  <2>7. Frames = {} BY <2>3, <2>5, <2>6, EmptyIsSeq DEF Frames
  <2> QED BY <2>2, <2>7 DEF CleanWith
<1> QED BY <1>1, PiperInvariantHolds, PTL

=============================================================================
