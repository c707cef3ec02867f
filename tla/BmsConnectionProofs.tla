------------------------ MODULE BmsConnectionProofs ------------------------
(***************************************************************************)
(* Proofs about BmsConnection, for every length of the deadline and of the *)
(* grace period, any number of retries and any answers: types; that the    *)
(* response returned after a clean flush is the answer to its own request; *)
(* and with a console that is in time, that a flush is clean unless        *)
(* something was left that no flag tells of, and that only silence, or a   *)
(* line that came too late for the grace period, times out.                *)
(***************************************************************************)
EXTENDS BmsConnection, SequenceTheorems, TLAPS

-----------------------------------------------------------------------------
(***************************************************************************)
(* Sequences of pieces.                                                    *)
(***************************************************************************)

\* The first piece goes from one queue to the end of the other.
LEMMA MoveHeadType ==
  ASSUME NEW r \in Seq(Pieces), NEW p \in Seq(Pieces), p # <<>>
  PROVE  Append(r, Head(p)) \in Seq(Pieces) /\ Tail(p) \in Seq(Pieces)
BY HeadTailProperties, AppendProperties

LEMMA MoveHead ==
  ASSUME NEW d \in Seq(Pieces), NEW r \in Seq(Pieces), NEW p \in Seq(Pieces), p # <<>>
  PROVE  (d \o Append(r, Head(p))) \o Tail(p) = (d \o r) \o p
<1>1. Head(p) \in Pieces /\ Tail(p) \in Seq(Pieces)
  BY HeadTailProperties
<1>2. Append(r, Head(p)) = r \o <<Head(p)>> /\ <<Head(p)>> \in Seq(Pieces)
  BY <1>1, AppendIsConcat
<1>3. <<Head(p)>> \o Tail(p) = p
  <2>1. /\ Len(p) \in Nat \ {0} /\ Len(Tail(p)) = Len(p) - 1
        /\ \A i \in 1 .. Len(Tail(p)) : Tail(p)[i] = p[i + 1]
    BY HeadTailProperties, EmptySeq
  <2>2. /\ <<Head(p)>> \o Tail(p) \in Seq(Pieces)
        /\ Len(<<Head(p)>> \o Tail(p)) = 1 + Len(Tail(p))
        /\ \A i \in 1 .. 1 + Len(Tail(p)) :
             (<<Head(p)>> \o Tail(p))[i] = IF i <= 1 THEN Head(p) ELSE Tail(p)[i - 1]
    BY <1>1, <1>2, ConcatProperties
  <2>3. \A i \in 1 .. Len(p) : (<<Head(p)>> \o Tail(p))[i] = p[i]
    BY <2>1, <2>2
  <2> QED
    BY <2>1, <2>2, <2>3, SeqEqual
<1>4. (d \o (r \o <<Head(p)>>)) \o Tail(p) = (d \o r) \o (<<Head(p)>> \o Tail(p))
  <2> DEFINE h == <<Head(p)>>
             t == Tail(p)
  <2>1. h \in Seq(Pieces) /\ t \in Seq(Pieces) /\ d \o r \in Seq(Pieces)
    BY <1>1, <1>2, ConcatProperties
  <2>2. d \o (r \o h) = (d \o r) \o h
    BY <2>1, ConcatAssociative
  <2>3. ((d \o r) \o h) \o t = (d \o r) \o (h \o t)
    BY <2>1, ConcatAssociative
  <2> QED
    BY <2>2, <2>3
<1> QED
  BY <1>2, <1>3, <1>4

\* The first piece of two queues in a row is the first of the first one.
LEMMA ConcatHeadTail ==
  ASSUME NEW S, NEW a \in Seq(S), NEW p \in Seq(S), a # <<>>
  PROVE  /\ a \o p # <<>> /\ Head(a \o p) = Head(a)
         /\ Tail(a) \o p = Tail(a \o p)
<1>1. a \o p \in Seq(S) /\ Len(a \o p) = Len(a) + Len(p)
      /\ \A i \in 1 .. Len(a) + Len(p) :
           (a \o p)[i] = IF i <= Len(a) THEN a[i] ELSE p[i - Len(a)]
  BY ConcatProperties
<1>2. Len(a) \in Nat \ {0} /\ Len(p) \in Nat
  BY EmptySeq, LenProperties
<1>3. a \o p # <<>> /\ Head(a \o p) = Head(a)
  BY <1>1, <1>2
<1>4. /\ Tail(a) \in Seq(S) /\ Len(Tail(a)) = Len(a) - 1
      /\ \A i \in 1 .. Len(Tail(a)) : Tail(a)[i] = a[i + 1]
  BY HeadTailProperties
<1>5. /\ Tail(a \o p) \in Seq(S) /\ Len(Tail(a \o p)) = Len(a \o p) - 1
      /\ \A i \in 1 .. Len(Tail(a \o p)) : Tail(a \o p)[i] = (a \o p)[i + 1]
  BY <1>1, <1>3, HeadTailProperties
<1>6. /\ Tail(a) \o p \in Seq(S) /\ Len(Tail(a) \o p) = Len(Tail(a)) + Len(p)
      /\ \A i \in 1 .. Len(Tail(a)) + Len(p) :
           (Tail(a) \o p)[i] = IF i <= Len(Tail(a)) THEN Tail(a)[i]
                               ELSE p[i - Len(Tail(a))]
  BY <1>4, ConcatProperties
<1>7. \A i \in 1 .. Len(Tail(a) \o p) : (Tail(a) \o p)[i] = Tail(a \o p)[i]
  <2> SUFFICES ASSUME NEW i \in 1 .. Len(Tail(a) \o p)
               PROVE  (Tail(a) \o p)[i] = Tail(a \o p)[i]
    OBVIOUS
  <2>1. i \in 1 .. Len(a) + Len(p) - 1 /\ Tail(a \o p)[i] = (a \o p)[i + 1]
    BY <1>1, <1>2, <1>4, <1>5, <1>6
  <2>2. CASE i <= Len(a) - 1
    BY <1>1, <1>2, <1>4, <1>6, <2>1, <2>2
  <2>3. CASE ~(i <= Len(a) - 1)
    BY <1>1, <1>2, <1>4, <1>6, <2>1, <2>3
  <2> QED
    BY <2>2, <2>3
<1>8. Len(Tail(a) \o p) = Len(Tail(a \o p))
  BY <1>1, <1>2, <1>4, <1>5, <1>6
<1> QED
  BY <1>3, <1>5, <1>6, <1>7, <1>8, SeqEqual

\* What two queues in a row hold is what either holds.
LEMMA KindsOfConcat ==
  ASSUME NEW s \in Seq(Pieces), NEW t \in Seq(Pieces)
  PROVE  /\ KindsIn(s \o t) = KindsIn(s) \cup KindsIn(t)
         /\ \A i \in DOMAIN s : (s \o t)[i] = s[i]
         /\ \A i \in DOMAIN t : (s \o t)[Len(s) + i] = t[i]
         /\ DOMAIN (s \o t) = 1 .. Len(s) + Len(t)
<1>1. /\ s \o t \in Seq(Pieces) /\ Len(s \o t) = Len(s) + Len(t)
      /\ \A i \in 1 .. Len(s) + Len(t) :
           (s \o t)[i] = IF i <= Len(s) THEN s[i] ELSE t[i - Len(s)]
  BY ConcatProperties
<1>2. /\ DOMAIN s = 1 .. Len(s) /\ DOMAIN t = 1 .. Len(t)
      /\ DOMAIN (s \o t) = 1 .. Len(s) + Len(t)
      /\ Len(s) \in Nat /\ Len(t) \in Nat
  BY <1>1, LenProperties
<1>3. \A i \in DOMAIN s : (s \o t)[i] = s[i]
  BY <1>1, <1>2
<1>4. \A i \in DOMAIN t : (s \o t)[Len(s) + i] = t[i] /\ Len(s) + i \in DOMAIN (s \o t)
  BY <1>1, <1>2
<1>5. KindsIn(s \o t) \subseteq KindsIn(s) \cup KindsIn(t)
  <2> SUFFICES ASSUME NEW i \in DOMAIN (s \o t)
               PROVE  (s \o t)[i].kind \in KindsIn(s) \cup KindsIn(t)
    BY DEF KindsIn
  <2>1. CASE i <= Len(s)
    BY <1>1, <1>2, <2>1 DEF KindsIn
  <2>2. CASE ~(i <= Len(s))
    <3>1. i - Len(s) \in DOMAIN t /\ (s \o t)[i] = t[i - Len(s)]
      BY <1>1, <1>2, <2>2
    <3> QED
      BY <3>1 DEF KindsIn
  <2> QED
    BY <2>1, <2>2
<1>6. KindsIn(s) \subseteq KindsIn(s \o t)
  BY <1>2, <1>3 DEF KindsIn
<1>7. KindsIn(t) \subseteq KindsIn(s \o t)
  BY <1>4, Zenon DEF KindsIn
<1> QED
  BY <1>2, <1>3, <1>4, <1>5, <1>6, <1>7

\* An answer consists of its kinds, each of it the request's own.
LEMMA AnswerPieces ==
  ASSUME NEW kinds \in Seq(Kinds)
  PROVE  /\ Answer(kinds) \in Seq(Pieces) /\ Len(Answer(kinds)) = Len(kinds)
         /\ DOMAIN Answer(kinds) = DOMAIN kinds
         /\ \A i \in DOMAIN kinds : /\ Answer(kinds)[i].kind = kinds[i]
                                    /\ Answer(kinds)[i].tag = "own"
<1>1. Len(kinds) \in Nat /\ DOMAIN kinds = 1 .. Len(kinds)
      /\ \A i \in DOMAIN kinds : kinds[i] \in Kinds
  BY LenProperties, ElementOfSeq
<1>2. \A i \in DOMAIN kinds : [kind |-> kinds[i], tag |-> "own"] \in Pieces
  BY <1>1 DEF Pieces
<1> QED
  BY <1>1, <1>2 DEF Answer

LEMMA LatePieces ==
  ASSUME NEW s \in Seq(Pieces)
  PROVE  /\ Late(s) \in Seq(Pieces) /\ Len(Late(s)) = Len(s)
         /\ DOMAIN Late(s) = DOMAIN s
         /\ \A i \in DOMAIN s : Late(s)[i].kind = s[i].kind /\ Late(s)[i].tag = "late"
<1>1. Len(s) \in Nat /\ DOMAIN s = 1 .. Len(s) /\ \A i \in DOMAIN s : s[i] \in Pieces
  BY LenProperties, ElementOfSeq
<1>2. \A p \in Pieces : /\ [p EXCEPT !.tag = "late"] \in Pieces
                        /\ [p EXCEPT !.tag = "late"].kind = p.kind
                        /\ [p EXCEPT !.tag = "late"].tag = "late"
  BY DEF Pieces
<1> DEFINE t == [i \in DOMAIN s |-> [s[i] EXCEPT !.tag = "late"]]
<1>3. /\ DOMAIN t = 1 .. Len(s)
      /\ \A i \in DOMAIN s : t[i] \in Pieces /\ t[i].kind = s[i].kind /\ t[i].tag = "late"
  BY <1>1, <1>2
<1>4. t = [i \in 1 .. Len(s) |-> t[i]]
  BY <1>1
<1>5. Late(s) = t
  BY DEF Late
<1> HIDE DEF t
<1>6. t \in Seq(Pieces) /\ Len(t) = Len(s)
  BY <1>1, <1>3, <1>4
<1> QED
  BY <1>1, <1>3, <1>5, <1>6

LEMMA EmptyConcat ==
  ASSUME NEW s \in Seq(Pieces)
  PROVE  <<>> \o s = s /\ s \o <<>> = s /\ <<>> \in Seq(Pieces)
BY ConcatEmptySeq, EmptySeq

\* What the console's next piece, the prompt it greets with, is.
LEMMA InheritedPieces ==
  ASSUME TypeOK
  PROVE  /\ Inherited \in Seq(Pieces)
         /\ \A i \in DOMAIN Inherited : Inherited[i].tag = "late"
<1>1. CASE setting.link = "console"
  <2>1. [kind |-> "prompt", tag |-> "late"] \in Pieces
    BY DEF Pieces, Kinds
  <2> QED
    BY <1>1, <2>1 DEF Inherited
<1>2. CASE setting.link # "console"
  BY <1>2, LatePieces DEF Inherited, TypeOK
<1> QED
  BY <1>1, <1>2

-----------------------------------------------------------------------------
(***************************************************************************)
(* Types: they hold whatever the console does.                             *)
(***************************************************************************)

LEMMA InitType == Init => TypeOK
<1> SUFFICES ASSUME Init PROVE TypeOK
  OBVIOUS
<1>1. data \in Seq(Pieces) /\ pending \in Seq(Pieces) /\ rx \in Seq(Pieces)
  BY EmptySeq DEF Init
<1>2. attempt \in 0 .. Retries /\ deadline \in 0 .. ReadTimeout /\ grace \in -1 .. Grace
  BY ConfigAssumption DEF Init
<1> QED
  BY <1>1, <1>2 DEF Init, TypeOK

\* A request, behind what was to come before it.
LEMMA WriteType ==
  ASSUME NEW backlog \in Seq(Pieces), NEW answers \in SUBSET Seq(Kinds),
         Write(backlog, answers)
  PROVE  pending' \in Seq(Pieces) /\ answered' \in BOOLEAN
<1>1. CASE pending' = backlog /\ answered' = FALSE
  BY <1>1
<1>2. ASSUME NEW kinds \in answers, pending' = backlog \o Answer(kinds),
             answered' = TRUE
      PROVE  pending' \in Seq(Pieces) /\ answered' \in BOOLEAN
  BY <1>2, AnswerPieces, ConcatProperties
<1> QED
  BY <1>1, <1>2 DEF Write

\* What a read has is made of what it had and of what had arrived.
LEMMA ReceivedPieces ==
  ASSUME TypeOK
  PROVE  /\ data \in Seq(Pieces) /\ rx \in Seq(Pieces) /\ pending \in Seq(Pieces)
         /\ data \o rx \in Seq(Pieces) /\ Received \in Seq(Pieces)
<1> DEFINE a == data \o rx
<1>1. /\ data \in Seq(Pieces) /\ rx \in Seq(Pieces) /\ pending \in Seq(Pieces)
      /\ a \in Seq(Pieces)
  BY ConcatProperties DEF TypeOK
<1>2. a # <<>> => Tail(a) \in Seq(Pieces)
  BY <1>1, HeadTailProperties
<1> QED
  BY <1>1, <1>2 DEF Received, IsStraggler

LEMMA NextType == TypeOK /\ [Next]_vars => TypeOK'
<1> SUFFICES ASSUME TypeOK, [Next]_vars PROVE TypeOK'
  OBVIOUS
<1> USE ConfigAssumption
<1>1. <<>> \in Seq(Pieces)
  BY EmptySeq
<1>2. CASE Open
  <2>1. pending' \in Seq(Pieces) /\ answered' \in BOOLEAN
    <3>1. {<<"prompt">>} \in SUBSET Seq(Kinds)
      BY DEF Kinds
    <3> QED
      BY <1>2, <3>1, InheritedPieces, WriteType DEF Open
  <2>2. deadline' \in 0 .. ReadTimeout /\ grace' \in -1 .. Grace /\ data' = <<>>
    BY <1>2 DEF Open, StartRead
  <2>3. clean' \in BOOLEAN /\ loose' \in BOOLEAN
    BY <1>2, Zenon DEF Open
  <2> QED
    BY <1>1, <1>2, <2>1, <2>2, <2>3 DEF Open, TypeOK
<1>3. CASE OpenFails \/ Call \/ WriteFails \/ ReadEof
  BY <1>3 DEF OpenFails, Call, WriteFails, ReadEof, reader, wire, history, TypeOK
<1>4. CASE Flush
  <2>1. clean' \in BOOLEAN /\ loose' \in BOOLEAN
    BY <1>4, Zenon DEF Flush, OnlyStraggler, TypeOK
  <2> QED
    BY <1>1, <1>4, <2>1 DEF Flush, _flush_stale_input, reader, TypeOK
<1>5. CASE WriteCommand
  <2>1. pending' \in Seq(Pieces) /\ answered' \in BOOLEAN
    <3>1. (IF eof THEN {} ELSE Responses) \in SUBSET Seq(Kinds)
      OBVIOUS
    <3>2. Late(pending) \in Seq(Pieces)
      BY LatePieces DEF TypeOK
    <3> QED
      BY <1>5, <3>1, <3>2, WriteType DEF WriteCommand
  <2>2. deadline' \in 0 .. ReadTimeout /\ grace' \in -1 .. Grace /\ data' = <<>>
    BY <1>5 DEF WriteCommand, StartRead
  <2>3. rx' \in Seq(Pieces)
    BY <1>5, LatePieces DEF WriteCommand, TypeOK
  <2> QED
    BY <1>1, <1>5, <2>1, <2>2, <2>3 DEF WriteCommand, history, TypeOK
<1>6. CASE Poll
  <2>1. deadline' \in 0 .. ReadTimeout
    <3>1. deadline \in 0 .. ReadTimeout /\ deadline > 0
      BY <1>6 DEF Poll, TypeOK
    <3>2. PICK t \in {0, 1} : deadline' = deadline - t
      BY <1>6 DEF Poll, Elapsed
    <3> QED
      BY <3>1, <3>2
  <2>2. grace' \in -1 .. Grace
    <3>1. grace \in -1 .. Grace /\ Grace \in Nat
      BY DEF TypeOK
    <3>2. PICK t \in {0, 1} :
            \/ grace' = grace
            \/ ~(grace >= 0 /\ grace - t <= 0) /\ grace' = IF grace = -1 THEN Grace ELSE grace - t
            \/ grace' = IF "done" \notin KindsIn(Received) THEN grace
                        ELSE IF grace = -1 THEN Grace ELSE grace - t
      BY <1>6, Zenon DEF Poll, Elapsed
    <3> QED
      BY <3>1, <3>2
  <2>3. pc' \in {"priming", "flushing", "reading", "returned"}
    BY <1>6 DEF Poll, InRead, ReturnFromRead
  <2>4. stray' \in BOOLEAN /\ loose' \in BOOLEAN
    BY <1>6, Zenon DEF Poll, ExpectStraggler, TypeOK
  <2>5. data' \in Seq(Pieces) /\ rx' \in Seq(Pieces)
    BY <1>1, <1>6, ReceivedPieces DEF Poll
  <2> QED
    BY <1>6, <2>1, <2>2, <2>3, <2>4, <2>5 DEF Poll, TypeOK
<1>7. CASE Timeout
  <2>1. attempt' \in 0 .. Retries
    BY <1>7 DEF Timeout, TypeOK
  <2>2. loose' \in BOOLEAN
    BY <1>7, Zenon DEF Timeout, TypeOK
  <2> QED
    BY <1>7, <2>1, <2>2 DEF Timeout, reader, wire, TypeOK
<1>8. CASE Take \/ Swallow
  <2>1. /\ pc' = "idle" /\ attempt' = 0 /\ data' = <<>>
        /\ UNCHANGED <<setting, opened, stray, deadline, grace, pending, rx, eof, answered,
                       clean, loose>>
    BY <1>8 DEF Take, Swallow, wire, history
  <2> QED
    BY <1>1, <2>1 DEF TypeOK
<1>9. CASE close
  <2>1. deadline' \in 0 .. ReadTimeout /\ grace' \in -1 .. Grace /\ attempt' \in 0 .. Retries
    BY <1>9 DEF close
  <2>2. data' \in Seq(Pieces) /\ rx' \in Seq(Pieces)
    BY <1>1, <1>9 DEF close
  <2> QED
    BY <1>9, <2>1, <2>2 DEF close, history, TypeOK
<1>10. CASE Arrive
  <2>1. rx' \in Seq(Pieces) /\ pending' \in Seq(Pieces)
    BY <1>10, MoveHeadType DEF Arrive, TypeOK
  <2> QED
    BY <1>10, <2>1 DEF Arrive, reader, history, TypeOK
<1>11. CASE Unheard
  <2>1. pending' \in Seq(Pieces)
    BY <1>11, HeadTailProperties DEF Unheard, TypeOK
  <2> QED
    BY <1>11, <2>1 DEF Unheard, reader, history, TypeOK
<1>12. CASE PeerCloses
  BY <1>12 DEF PeerCloses, reader, history, TypeOK
<1>13. CASE UNCHANGED vars
  BY <1>13 DEF vars, reader, wire, history, TypeOK
<1> QED
  BY <1>2, <1>3, <1>4, <1>5, <1>6, <1>7, <1>8, <1>9, <1>10, <1>11, <1>12, <1>13
     DEF Next, send_command

\* Every variable of the connection keeps its type: the deadline and the grace
\* period are counted down to zero and not below it.
THEOREM TypeCorrect == Spec => []TypeOK
BY InitType, NextType, PTL DEF Spec

-----------------------------------------------------------------------------
(***************************************************************************)
(* The line in a read: what is read, has arrived and is to come.           *)
(***************************************************************************)

LEMMA LineParts ==
  ASSUME TypeOK
  PROVE  /\ Line \in Seq(Pieces) /\ rx \o pending \in Seq(Pieces)
         /\ Line = data \o (rx \o pending)
         /\ Len(rx \o pending) = Len(rx) + Len(pending)
         /\ Len(Line) = Len(data) + Len(rx) + Len(pending)
         /\ Len(data) \in Nat /\ Len(rx) \in Nat /\ Len(pending) \in Nat
         /\ \A i \in DOMAIN data : Line[i] = data[i]
         /\ \A i \in DOMAIN (rx \o pending) : Line[Len(data) + i] = (rx \o pending)[i]
         /\ DOMAIN data = 1 .. Len(data)
         /\ DOMAIN (rx \o pending) = 1 .. Len(rx) + Len(pending)
<1>1. data \in Seq(Pieces) /\ rx \in Seq(Pieces) /\ pending \in Seq(Pieces)
  BY DEF TypeOK
<1>2. rx \o pending \in Seq(Pieces) /\ data \o rx \in Seq(Pieces)
  BY <1>1, ConcatProperties
<1>3. Line = data \o (rx \o pending)
  BY <1>1, ConcatAssociative DEF Line
<1>4. Len(rx \o pending) = Len(rx) + Len(pending)
  BY <1>1, ConcatProperties
<1>5. /\ data \o (rx \o pending) \in Seq(Pieces)
      /\ Len(data \o (rx \o pending)) = Len(data) + Len(rx \o pending)
  BY <1>1, <1>2, ConcatProperties
<1>6. /\ \A i \in DOMAIN data : (data \o (rx \o pending))[i] = data[i]
      /\ \A i \in DOMAIN (rx \o pending) :
           (data \o (rx \o pending))[Len(data) + i] = (rx \o pending)[i]
  BY <1>1, <1>2, KindsOfConcat
<1>7. /\ Len(data) \in Nat /\ Len(rx) \in Nat /\ Len(pending) \in Nat
      /\ DOMAIN data = 1 .. Len(data)
      /\ DOMAIN (rx \o pending) = 1 .. Len(rx \o pending)
  BY <1>1, <1>2, LenProperties
<1> QED
  BY <1>2, <1>3, <1>4, <1>5, <1>6, <1>7

\* Every answer that may be expected is one the priming or a command may have.
LEMMA ExpectedKinds ==
  ASSUME NEW kinds \in Expected, InRead
  PROVE  /\ kinds \in Seq(Kinds) /\ Len(kinds) \in Nat /\ DOMAIN kinds = 1 .. Len(kinds)
         /\ ~answered => Len(kinds) = 0
         /\ answered /\ pc = "priming" => Len(kinds) = 1 /\ kinds[1] = "prompt"
         /\ answered /\ pc = "reading" => Len(kinds) > 0 /\ kinds[1] = "body"
         /\ answered => \E i \in DOMAIN kinds : kinds[i] \in {"done", "prompt"}
         /\ \A i, j \in DOMAIN kinds : i < j =>
              /\ kinds[i] # "prompt"
              /\ kinds[i] = "done" => kinds[j] \in {"trail", "prompt"}
<1>1. CASE ~answered
  <2>1. kinds = <<>> /\ <<>> \in Seq(Kinds) /\ Len(<<>>) = 0 /\ DOMAIN <<>> = {}
    BY <1>1, EmptySeq DEF Expected
  <2> QED
    BY <1>1, <2>1
<1>2. CASE answered /\ pc = "priming"
  <2>1. kinds = <<"prompt">> /\ "prompt" \in Kinds
    BY <1>2 DEF Expected, Kinds
  <2>2. kinds \in Seq(Kinds) /\ Len(kinds) = 1 /\ DOMAIN kinds = 1 .. 1 /\ kinds[1] = "prompt"
    BY <2>1
  <2> QED
    BY <1>2, <2>2
<1>3. CASE answered /\ pc = "reading"
  <2>1. kinds \in Responses
    BY <1>3 DEF Expected
  <2>2. /\ kinds \in Seq(Kinds) /\ kinds # <<>> /\ kinds[1] = "body"
        /\ \E i \in DOMAIN kinds : kinds[i] \in {"done", "prompt"}
        /\ \A i, j \in DOMAIN kinds : i < j =>
              /\ kinds[i] # "prompt"
              /\ kinds[i] = "done" => kinds[j] \in {"trail", "prompt"}
    BY <2>1, ConfigAssumption
  <2>3. Len(kinds) \in Nat /\ DOMAIN kinds = 1 .. Len(kinds) /\ Len(kinds) # 0
    BY <2>2, EmptySeq, LenProperties
  <2> QED
    BY <1>3, <2>2, <2>3
<1> QED
  BY <1>1, <1>2, <1>3 DEF InRead

(***************************************************************************)
(* A turn of the loop drops an older prompt at the head and nothing else:  *)
(* what is left still ends with the answer.                                *)
(***************************************************************************)
Rest == Received \o pending

LEMMA ReceivedLine ==
  ASSUME TypeOK
  PROVE  /\ Rest = IF IsStraggler(data \o rx) THEN Tail(Line) ELSE Line
         /\ IsStraggler(data \o rx) =>
              Line # <<>> /\ Head(Line).kind = "prompt" /\ stray
         /\ Rest \in Seq(Pieces) /\ Received \in Seq(Pieces)
         /\ Len(Received) \in Nat /\ DOMAIN Received = 1 .. Len(Received)
         /\ Len(Rest) = Len(Received) + Len(pending) /\ Len(pending) \in Nat
         /\ DOMAIN pending = 1 .. Len(pending)
         /\ \A i \in DOMAIN Received : Rest[i] = Received[i]
         /\ \A i \in DOMAIN pending : Rest[Len(Received) + i] = pending[i]
<1> DEFINE a == data \o rx
<1>1. a \in Seq(Pieces) /\ pending \in Seq(Pieces) /\ Received \in Seq(Pieces)
  BY ReceivedPieces
<1>2. Line = a \o pending /\ Received = IF IsStraggler(a) THEN Tail(a) ELSE a
  BY DEF Line, Received
<1>3. IsStraggler(a) => a # <<>> /\ Head(a).kind = "prompt" /\ stray
  BY DEF IsStraggler
<1> HIDE DEF a
<1>4. a # <<>> => /\ a \o pending # <<>> /\ Head(a \o pending) = Head(a)
                  /\ Tail(a) \o pending = Tail(a \o pending)
  BY <1>1, ConcatHeadTail
<1>5. /\ Rest = IF IsStraggler(a) THEN Tail(Line) ELSE Line
      /\ IsStraggler(a) => Line # <<>> /\ Head(Line).kind = "prompt" /\ stray
  BY <1>2, <1>3, <1>4 DEF Rest
<1>6. /\ Rest \in Seq(Pieces) /\ Len(Rest) = Len(Received) + Len(pending)
      /\ \A i \in DOMAIN Received : Rest[i] = Received[i]
      /\ \A i \in DOMAIN pending : Rest[Len(Received) + i] = pending[i]
  BY <1>1, ConcatProperties, KindsOfConcat DEF Rest
<1>7. /\ Len(Received) \in Nat /\ DOMAIN Received = 1 .. Len(Received)
      /\ Len(pending) \in Nat /\ DOMAIN pending = 1 .. Len(pending)
  BY <1>1, LenProperties
<1> QED
  BY <1>1, <1>5, <1>6, <1>7 DEF a

\* After a clean flush: the straggler has yet to arrive.
Unread(n) ==
  n = 1 /\ Rest[1].kind = "prompt" /\ stray /\ ~IsStraggler(data \o rx) /\ Received = <<>>

LEMMA StragglerDropped ==
  ASSUME TypeOK, InRead, Stream, pc = "priming" => ~stray
  PROVE  \E kinds \in Expected, n \in 0 .. Len(Rest) :
           Holds(Rest, n, kinds) /\ (clean => n = 0 \/ Unread(n))
<1> DEFINE a == data \o rx
<1>1. PICK kinds \in Expected, n \in 0 .. Len(Line) :
        /\ Holds(Line, n, kinds)
        /\ clean /\ n > 0 => n = 1 /\ Line[1].kind = "prompt" /\ stray /\ data = <<>>
  BY DEF Stream
<1>2. /\ Len(Line) = n + Len(kinds) /\ n \in Nat
      /\ \A i \in 1 .. n : Line[i].tag = "late"
      /\ \A i \in DOMAIN kinds : Line[n + i].kind = kinds[i] /\ Line[n + i].tag = "own"
  BY <1>1, LineParts DEF Holds
<1>3. /\ Len(kinds) \in Nat /\ DOMAIN kinds = 1 .. Len(kinds)
      /\ Line \in Seq(Pieces) /\ Len(Line) \in Nat
      /\ DOMAIN Line = 1 .. Len(Line) /\ DOMAIN Rest = 1 .. Len(Rest)
  BY ExpectedKinds, LineParts, ReceivedLine, LenProperties
<1>4. CASE IsStraggler(a)
  <2>1. Line # <<>> /\ Head(Line).kind = "prompt" /\ stray /\ Rest = Tail(Line)
    BY <1>4, ReceivedLine
  <2>2. /\ Rest \in Seq(Pieces) /\ Len(Rest) = Len(Line) - 1 /\ Head(Line) = Line[1]
        /\ \A i \in 1 .. Len(Rest) : Rest[i] = Line[i + 1]
        /\ Len(Line) \in Nat \ {0}
    BY <1>3, <2>1, HeadTailProperties, EmptySeq
  <2>3. n # 0
    <3> SUFFICES ASSUME n = 0 PROVE FALSE
      OBVIOUS
    <3>1. 1 \in DOMAIN kinds /\ Line[0 + 1].kind = kinds[1]
      BY <1>2, <1>3, <2>2
    <3>2. kinds[1] = "prompt" /\ Len(kinds) # 0
      BY <1>3, <2>1, <2>2, <3>1
    <3>3. answered /\ pc = "reading"
      BY <2>1, <3>2, ExpectedKinds DEF InRead, TypeOK
    <3> QED
      BY <3>2, <3>3, ExpectedKinds
  <2>4. n - 1 \in 0 .. Len(Rest) /\ Len(Rest) = (n - 1) + Len(kinds)
    BY <1>2, <1>3, <2>2, <2>3
  <2>5. \A i \in 1 .. (n - 1) : Rest[i].tag = "late"
    <3> SUFFICES ASSUME NEW i \in 1 .. (n - 1) PROVE Rest[i].tag = "late"
      OBVIOUS
    <3>1. i + 1 \in 1 .. n /\ i \in 1 .. Len(Rest)
      BY <1>2, <1>3, <2>4
    <3> QED
      BY <1>2, <2>2, <3>1
  <2>6. \A i \in DOMAIN kinds : Rest[(n - 1) + i].kind = kinds[i] /\ Rest[(n - 1) + i].tag = "own"
    <3> SUFFICES ASSUME NEW i \in DOMAIN kinds
                 PROVE  Rest[(n - 1) + i].kind = kinds[i] /\ Rest[(n - 1) + i].tag = "own"
      OBVIOUS
    <3>1. (n - 1) + i \in 1 .. Len(Rest) /\ ((n - 1) + i) + 1 = n + i
      BY <1>2, <1>3, <2>3, <2>4
    <3>2. Rest[(n - 1) + i] = Line[n + i]
      BY <2>2, <3>1
    <3> QED
      BY <1>2, <3>2
  <2>7. Holds(Rest, n - 1, kinds)
    BY <2>4, <2>5, <2>6 DEF Holds
  <2>8. clean => n - 1 = 0
    BY <1>1, <1>2, <2>3
  <2> QED
    BY <2>4, <2>7, <2>8
<1>5. CASE ~IsStraggler(a)
  <2>1. Rest = Line /\ Received = a
    BY <1>5, ReceivedLine DEF Received
  <2>2. Holds(Rest, n, kinds) /\ n \in 0 .. Len(Rest)
    BY <1>1, <2>1
  <2>3. ASSUME clean, n # 0 PROVE Unread(n)
    <3>1. n = 1 /\ Line[1].kind = "prompt" /\ stray /\ data = <<>>
      BY <1>1, <1>2, <2>3
    <3>2. a = <<>>
      <4> SUFFICES ASSUME a # <<>> PROVE FALSE
        OBVIOUS
      <4>1. Line = a \o pending /\ a \in Seq(Pieces) /\ pending \in Seq(Pieces)
        BY ReceivedPieces DEF Line
      <4> HIDE DEF a
      <4>2. Len(a) \in Nat \ {0} /\ DOMAIN a = 1 .. Len(a) /\ Head(a) = a[1]
        BY <4>1, EmptySeq, LenProperties, HeadTailProperties
      <4>3. Line[1] = a[1]
        <5>1. \A i \in DOMAIN a : Line[i] = a[i]
          BY <4>1, KindsOfConcat
        <5> QED
          BY <4>2, <5>1
      <4>4. IsStraggler(a)
        BY <3>1, <4>2, <4>3 DEF IsStraggler
      <4> QED
        BY <1>5, <4>4
    <3> QED
      BY <1>5, <2>1, <3>1, <3>2 DEF Unread
  <2> QED
    BY <2>2, <2>3
<1> QED
  BY <1>4, <1>5

\* A read that returns after a clean flush has the text, and all of it is own.
LEMMA ReturnedIsOwn ==
  ASSUME TypeOK, pc = "reading", NEW kinds \in Expected, Holds(Rest, 0, kinds),
         Received # <<>>
  PROVE  IsOwn(Received)
<1>1. InRead
  BY DEF InRead
<1>2. /\ Len(kinds) \in Nat /\ DOMAIN kinds = 1 .. Len(kinds)
      /\ Len(Rest) = Len(kinds)
      /\ \A i \in DOMAIN kinds : Rest[i].kind = kinds[i] /\ Rest[i].tag = "own"
  <2>1. Len(kinds) \in Nat /\ DOMAIN kinds = 1 .. Len(kinds)
    BY <1>1, ExpectedKinds
  <2>2. \A i \in DOMAIN kinds : 0 + i = i
    BY <2>1
  <2> QED
    BY <2>1, <2>2 DEF Holds
<1>3. /\ Len(Received) \in Nat \ {0} /\ DOMAIN Received = 1 .. Len(Received)
      /\ \A i \in DOMAIN Received : Received[i] = Rest[i] /\ i \in DOMAIN kinds
  BY <1>2, ReceivedLine, EmptySeq
<1>4. 1 \in DOMAIN Received /\ Len(kinds) # 0
  BY <1>2, <1>3
<1>5. kinds[1] = "body"
  BY <1>1, <1>4, ExpectedKinds DEF TypeOK
<1> QED
  BY <1>2, <1>3, <1>4, <1>5 DEF IsOwn, KindsIn

\* Behind the prompt nothing is to come, behind the line the trailer or a prompt.
LEMMA RestOfAnswer ==
  ASSUME TypeOK, InRead, NEW kinds \in Expected, Holds(Rest, 0, kinds)
  PROVE  /\ "prompt" \in KindsIn(Received) => pending = <<>>
         /\ "done" \in KindsIn(Received) /\ "trail" \notin KindsIn(pending) =>
              pending = <<>> \/ (Len(pending) = 1 /\ pending[1].kind = "prompt")
<1>1. /\ Len(kinds) \in Nat /\ DOMAIN kinds = 1 .. Len(kinds)
      /\ \A i, j \in DOMAIN kinds : i < j =>
              /\ kinds[i] # "prompt"
              /\ kinds[i] = "done" => kinds[j] \in {"trail", "prompt"}
  BY ExpectedKinds
<1>2. /\ Len(Rest) = Len(kinds)
      /\ \A i \in DOMAIN kinds : Rest[i].kind = kinds[i]
  <2>1. \A i \in DOMAIN kinds : 0 + i = i
    BY <1>1
  <2> QED
    BY <1>1, <2>1 DEF Holds
<1>3. /\ Len(Received) \in Nat /\ DOMAIN Received = 1 .. Len(Received)
      /\ Len(pending) \in Nat /\ DOMAIN pending = 1 .. Len(pending)
      /\ pending # <<>> => Len(pending) # 0
      /\ Len(kinds) = Len(Received) + Len(pending)
      /\ \A i \in DOMAIN Received : Rest[i] = Received[i]
      /\ \A i \in DOMAIN pending : Rest[Len(Received) + i] = pending[i]
  <2>1. pending # <<>> => Len(pending) # 0
    BY EmptySeq DEF TypeOK
  <2> QED
    BY <1>2, <2>1, ReceivedLine
<1>4. /\ \A i \in DOMAIN Received : i \in DOMAIN kinds /\ Received[i].kind = kinds[i]
      /\ \A i \in DOMAIN pending : /\ Len(Received) + i \in DOMAIN kinds
                                    /\ pending[i].kind = kinds[Len(Received) + i]
  BY <1>1, <1>2, <1>3
<1>5. ASSUME NEW i \in DOMAIN Received, NEW j \in DOMAIN pending
      PROVE  /\ Received[i].kind # "prompt"
             /\ Received[i].kind = "done" => pending[j].kind \in {"trail", "prompt"}
  <2>1. i < Len(Received) + j
    BY <1>3
  <2> QED
    BY <1>1, <1>4, <2>1
<1>6. ASSUME "prompt" \in KindsIn(Received), pending # <<>> PROVE FALSE
  <2>1. 1 \in DOMAIN pending
    BY <1>3, <1>6
  <2> QED
    BY <1>5, <1>6, <2>1 DEF KindsIn
<1>7. ASSUME "done" \in KindsIn(Received), "trail" \notin KindsIn(pending), pending # <<>>
      PROVE  Len(pending) = 1 /\ pending[1].kind = "prompt"
  <2>1. 1 \in DOMAIN pending
    BY <1>3, <1>7
  <2>2. \A j \in DOMAIN pending : pending[j].kind = "prompt"
    BY <1>5, <1>7 DEF KindsIn
  <2>3. ASSUME Len(pending) # 1 PROVE FALSE
    <3>1. 2 \in DOMAIN pending /\ Len(Received) + 1 < Len(Received) + 2
      BY <1>3, <2>1, <2>3
    <3> QED
      BY <1>1, <1>4, <2>1, <2>2, <3>1
  <2> QED
    BY <2>1, <2>2, <2>3
<1> QED
  BY <1>6, <1>7

\* The line is kept, whatever is dropped before it.
LEMMA DoneKept ==
  ASSUME TypeOK, "done" \in KindsIn(data \o rx)
  PROVE  "done" \in KindsIn(Received)
<1> DEFINE a == data \o rx
<1>1. a \in Seq(Pieces) /\ "done" \in KindsIn(a)
  BY ReceivedPieces
<1>2. Received = IF IsStraggler(a) THEN Tail(a) ELSE a
  BY DEF Received
<1> HIDE DEF a
<1>3. ASSUME IsStraggler(a)
      PROVE  "done" \in KindsIn(Tail(a))
  <2>1. a # <<>> /\ Head(a).kind = "prompt"
    BY <1>3 DEF IsStraggler
  <2>2. /\ Tail(a) \in Seq(Pieces) /\ Len(Tail(a)) = Len(a) - 1 /\ Head(a) = a[1]
        /\ \A i \in 1 .. Len(Tail(a)) : Tail(a)[i] = a[i + 1]
        /\ Len(a) \in Nat \ {0}
    BY <1>1, <2>1, HeadTailProperties, EmptySeq
  <2>3. DOMAIN Tail(a) = 1 .. Len(a) - 1 /\ DOMAIN a = 1 .. Len(a)
    BY <1>1, <2>2, LenProperties
  <2>4. PICK i \in DOMAIN a : a[i].kind = "done"
    BY <1>1 DEF KindsIn
  <2>5. i # 1
    BY <2>1, <2>2, <2>4
  <2>6. i - 1 \in DOMAIN Tail(a) /\ (i - 1) + 1 = i
    BY <2>3, <2>5
  <2>7. Tail(a)[i - 1].kind = "done"
    BY <2>2, <2>3, <2>4, <2>6
  <2> QED
    BY <2>6, <2>7, Zenon DEF KindsIn
<1> QED
  BY <1>1, <1>2, <1>3

\* Once a punctual console has nothing left to deliver before the deadline, what
\* it has yet to send is no terminator the read waits for.
LEMMA NothingDue ==
  ASSUME TypeOK, ~Due, data' = Received, rx' = <<>>, pending' = pending
  PROVE  Delivered'
<1>1. rx' \o pending' = pending
  BY EmptyConcat DEF TypeOK
<1>2. ASSUME NEW i \in DOMAIN pending, pending[i].tag = "own"
      PROVE  /\ pending[i].kind \in {"trail", "prompt"}
             /\ pending[i].kind = "prompt" => "done" \in KindsIn(Received)
  <2>1. /\ pending[i].kind \notin {"body", "done"}
        /\ pending[i].kind = "prompt" => "done" \in KindsIn(data \o rx)
    BY <1>2 DEF Due
  <2>2. pending[i] \in Pieces
    <3>1. pending \in Seq(Pieces) /\ i \in 1 .. Len(pending)
      BY LenProperties DEF TypeOK
    <3> QED
      BY <3>1, ElementOfSeq
  <2> QED
    BY <2>1, <2>2, DoneKept DEF Pieces, Kinds
<1>3. "done" \in KindsIn(data)' <=> "done" \in KindsIn(Received)
  BY DEF KindsIn
<1> QED
  BY <1>1, <1>2, <1>3 DEF Delivered

\* One turn of the loop takes a tick or none, and returns with the prompt, returns
\* without it once the grace period is over, or goes on.
LEMMA PollTurn ==
  ASSUME Poll
  PROVE  /\ data' = Received /\ rx' = <<>> /\ InRead
         /\ UNCHANGED <<setting, opened, attempt, pending, eof, answered, clean>>
         /\ \E t \in Elapsed : deadline' = deadline - t
         /\ \/ /\ "prompt" \in KindsIn(Received) /\ ReturnFromRead
               /\ stray' = (stray /\ ~IsStraggler(data \o rx)) /\ loose' = loose
            \/ /\ "prompt" \notin KindsIn(Received) /\ "done" \in KindsIn(Received)
               /\ stray' = TRUE /\ ReturnFromRead
               /\ loose' = (loose \/ "trail" \in KindsIn(pending))
            \/ /\ "prompt" \notin KindsIn(Received)
               /\ stray' = (stray /\ ~IsStraggler(data \o rx))
               /\ pc' = pc /\ loose' = loose
<1>1. PICK t \in Elapsed :
        /\ deadline' = deadline - t
        /\ LET expired == grace >= 0 /\ grace - t <= 0
               straggler == IsStraggler(data \o rx)
           IN  CASE "prompt" \in KindsIn(Received) ->
                      /\ stray' = (stray /\ ~straggler)
                      /\ ReturnFromRead
                      /\ UNCHANGED <<grace, loose>>
                 [] "prompt" \notin KindsIn(Received)
                      /\ "done" \in KindsIn(Received) /\ expired ->
                      /\ ExpectStraggler
                      /\ loose' = (loose \/ "trail" \in KindsIn(pending))
                      /\ ReturnFromRead
                      /\ UNCHANGED grace
                 [] OTHER ->
                      /\ stray' = (stray /\ ~straggler)
                      /\ grace' = IF "done" \notin KindsIn(Received) THEN grace
                                  ELSE IF grace = -1 THEN Grace ELSE grace - t
                      /\ UNCHANGED <<pc, loose>>
  BY Zenon DEF Poll
<1>2. CASE "prompt" \in KindsIn(Received)
  <2>1. ReturnFromRead /\ stray' = (stray /\ ~IsStraggler(data \o rx)) /\ loose' = loose
    BY <1>1, <1>2, Zenon
  <2> QED
    BY <1>1, <1>2, <2>1, Zenon DEF Poll
<1>3. CASE /\ "prompt" \notin KindsIn(Received) /\ "done" \in KindsIn(Received)
           /\ grace >= 0 /\ grace - t <= 0
  <2>1. /\ stray' = TRUE /\ ReturnFromRead
        /\ loose' = (loose \/ "trail" \in KindsIn(pending))
    BY <1>1, <1>3, Zenon DEF ExpectStraggler
  <2> QED
    BY <1>1, <1>3, <2>1, Zenon DEF Poll
<1>4. CASE /\ "prompt" \notin KindsIn(Received)
           /\ ~("done" \in KindsIn(Received) /\ grace >= 0 /\ grace - t <= 0)
  <2>1. /\ stray' = (stray /\ ~IsStraggler(data \o rx))
        /\ pc' = pc /\ loose' = loose
    BY <1>1, <1>4, Zenon
  <2> QED
    BY <1>1, <1>4, <2>1, Zenon DEF Poll
<1> QED
  BY <1>2, <1>3, <1>4, Zenon

LEMMA PollInv ==
  ASSUME IInv, Poll
  PROVE  IInv'
<1>1. TypeOK /\ TypeOK'
  BY NextType DEF IInv, Next, send_command
<1>2. /\ data' = Received /\ rx' = <<>> /\ InRead
      /\ UNCHANGED <<setting, opened, attempt, pending, eof, answered, clean>>
  BY PollTurn
<1>3. PICK t \in Elapsed : deadline' = deadline - t
  BY PollTurn
<1>4. opened /\ Stream /\ (pc = "priming" => ~stray)
  BY <1>2 DEF IInv, InRead
<1>5. PICK kinds \in Expected, n \in 0 .. Len(Rest) :
        Holds(Rest, n, kinds) /\ (clean => n = 0 \/ Unread(n))
  BY <1>1, <1>2, <1>4, StragglerDropped
<1>6. KindsIn(<<>>) = {}
  BY DEF KindsIn
<1>7. setting.punctual /\ deadline' = 0 => Delivered'
  <2> SUFFICES ASSUME setting.punctual, deadline' = 0 PROVE Delivered'
    OBVIOUS
  <2>1. ~Due
    BY <1>3 DEF Elapsed
  <2> QED
    BY <1>1, <1>2, <2>1, NothingDue
<1>8. \A k \in Kinds : k \in KindsIn(data)' <=> k \in KindsIn(Received)
  BY <1>2 DEF KindsIn
<1>9. clean /\ Received # <<>> => Holds(Rest, 0, kinds)
  BY <1>5 DEF Unread
<1>10. ASSUME ReturnFromRead, "prompt" \in KindsIn(Received) \/ "done" \in KindsIn(Received),
              clean /\ ~loose' => OnlyStraggler'
       PROVE  IInv'
  <2>1. pc' \in {"flushing", "returned"} /\ (pc' = "returned" => pc = "reading")
    BY <1>2, <1>10 DEF ReturnFromRead, InRead
  <2>2. Received # <<>>
    BY <1>6, <1>10
  <2>3. pc' = "returned" /\ clean => IsOwn(data)'
    <3>1. pc' = "returned" /\ clean => IsOwn(Received)
      BY <1>1, <1>5, <1>9, <2>1, <2>2, ReturnedIsOwn
    <3> QED
      BY <1>2, <3>1 DEF IsOwn, KindsIn
  <2>4. setting.punctual /\ ~eof /\ ~loose' => clean
    <3>1. ~loose' => ~loose
      BY PollTurn, Zenon
    <3>2. setting.punctual /\ ~eof /\ ~loose => clean
      BY <1>2, <1>4 DEF IInv, InRead
    <3> QED
      BY <3>1, <3>2
  <2> QED
    BY <1>1, <1>2, <1>4, <1>10, <2>1, <2>3, <2>4 DEF IInv, InRead
<1>11. CASE /\ "prompt" \in KindsIn(Received) /\ ReturnFromRead
            /\ stray' = (stray /\ ~IsStraggler(data \o rx)) /\ loose' = loose
  <2>1. clean => pending = <<>>
    BY <1>1, <1>2, <1>5, <1>6, <1>9, <1>11, RestOfAnswer
  <2> QED
    BY <1>2, <1>10, <1>11, <2>1 DEF OnlyStraggler
<1>12. CASE /\ "prompt" \notin KindsIn(Received) /\ "done" \in KindsIn(Received)
            /\ stray' = TRUE /\ ReturnFromRead
            /\ loose' = (loose \/ "trail" \in KindsIn(pending))
  <2>1. clean /\ "trail" \notin KindsIn(pending) =>
          pending = <<>> \/ (Len(pending) = 1 /\ pending[1].kind = "prompt")
    BY <1>1, <1>2, <1>5, <1>6, <1>9, <1>12, RestOfAnswer
  <2>2. clean /\ ~loose' => OnlyStraggler'
    BY <1>2, <1>12, <2>1 DEF OnlyStraggler
  <2> QED
    BY <1>10, <1>12, <2>2
<1>13. CASE /\ "prompt" \notin KindsIn(Received)
            /\ stray' = (stray /\ ~IsStraggler(data \o rx))
            /\ pc' = pc /\ loose' = loose
  <2>1. Expected' = Expected
    BY <1>2, <1>13 DEF Expected
  <2>2. Line' = Rest
    <3>1. (Received \o <<>>) \o pending = Rest
      BY <1>1, ReceivedPieces, EmptyConcat DEF Rest
    <3> QED
      BY <1>2, <3>1 DEF Line
  <2>3. clean' /\ n > 0 => n = 1 /\ Rest[1].kind = "prompt" /\ stray' /\ data' = <<>>
    <3> SUFFICES ASSUME clean', n > 0
                 PROVE  n = 1 /\ Rest[1].kind = "prompt" /\ stray' /\ data' = <<>>
      OBVIOUS
    <3>1. clean
      BY <1>2
    <3>2. n # 0
      OBVIOUS
    <3>3. Unread(n)
      BY <1>5, <3>1, <3>2
    <3>4. stray'
      BY <1>13, <3>3, Zenon DEF Unread
    <3> QED
      BY <1>2, <3>3, <3>4 DEF Unread
  <2>4. Stream'
    <3>1. (\E k \in Expected', m \in 0 .. Len(Rest) :
             /\ Holds(Rest, m, k)
             /\ clean' /\ m > 0 => m = 1 /\ Rest[1].kind = "prompt" /\ stray' /\ data' = <<>>)
      BY <1>5, <2>1, <2>3
    <3> QED
      BY <2>2, <3>1 DEF Stream, Holds
  <2>5. InRead' /\ pc' \in {"priming", "reading"} /\ (pc' = "priming" => ~stray')
    BY <1>2, <1>4, <1>13 DEF InRead
  <2>6. "prompt" \notin KindsIn(data)'
    BY <1>2, <1>13 DEF KindsIn
  <2>7. setting.punctual /\ ~eof /\ ~loose' => clean
    BY <1>2, <1>4, <1>13 DEF IInv, InRead
  <2> QED
    BY <1>1, <1>2, <1>4, <1>7, <2>4, <2>5, <2>6, <2>7 DEF IInv
<1> QED
  BY <1>11, <1>12, <1>13, PollTurn

-----------------------------------------------------------------------------
(***************************************************************************)
(* A read that times out.                                                  *)
(***************************************************************************)

\* With a punctual console it has no answer to wait for, or the line at hand.
LEMMA TimeoutIsSilence ==
  ASSUME IInv, setting.punctual, Timeout
  PROVE  ~answered \/ "done" \in KindsIn(data)
<1> SUFFICES ASSUME answered, "done" \notin KindsIn(data) PROVE FALSE
  BY DEF IInv, TypeOK
<1>1. TypeOK /\ InRead /\ Stream /\ Delivered /\ "prompt" \notin KindsIn(data)
  BY DEF IInv, Timeout
<1>2. PICK kinds \in Expected, n \in 0 .. Len(Line) : Holds(Line, n, kinds)
  BY <1>1 DEF Stream
<1>3. PICK i \in DOMAIN kinds : kinds[i] \in {"done", "prompt"}
  BY <1>1, ExpectedKinds
<1>4. Line[n + i].kind = kinds[i] /\ Line[n + i].tag = "own" /\ n + i \in 1 .. Len(Line)
  BY <1>1, <1>2, <1>3, ExpectedKinds, LineParts DEF Holds
<1>5. CASE n + i \in DOMAIN data
  BY <1>1, <1>3, <1>4, <1>5, LineParts DEF KindsIn
<1>6. CASE n + i \notin DOMAIN data
  <2>1. PICK j \in DOMAIN (rx \o pending) : Len(data) + j = n + i
    <3>1. (n + i) - Len(data) \in DOMAIN (rx \o pending)
      BY <1>1, <1>4, <1>6, LineParts
    <3> QED
      BY <1>1, <1>4, <3>1, LineParts
  <2>2. (rx \o pending)[j].kind = kinds[i] /\ (rx \o pending)[j].tag = "own"
    BY <1>1, <1>4, <2>1, LineParts
  <2> QED
    BY <1>1, <1>3, <2>2 DEF Delivered
<1> QED
  BY <1>5, <1>6

\* After a clean flush and a request that was lost, nothing but the straggler is
\* to come.
LEMMA SilenceLeavesStraggler ==
  ASSUME TypeOK, InRead, Stream, clean, ~answered
  PROVE  OnlyStraggler
<1>1. PICK kinds \in Expected, n \in 0 .. Len(Line) :
        /\ Holds(Line, n, kinds)
        /\ clean /\ n > 0 => n = 1 /\ Line[1].kind = "prompt" /\ stray /\ data = <<>>
  BY DEF Stream
<1>2. Len(kinds) = 0 /\ Len(Line) = n + Len(kinds)
  BY <1>1, ExpectedKinds DEF Holds
<1>3. /\ Len(data) \in Nat /\ Len(rx) \in Nat /\ Len(pending) \in Nat
      /\ Len(Line) = Len(data) + Len(rx) + Len(pending)
  BY LineParts
<1>4. CASE pending = <<>>
  BY <1>4 DEF OnlyStraggler
<1>5. CASE pending # <<>>
  <2>1. Len(pending) # 0 /\ pending \in Seq(Pieces)
    BY <1>5, EmptySeq DEF TypeOK
  <2>2. n > 0
    BY <1>2, <1>3, <2>1
  <2>3. n = 1 /\ Line[1].kind = "prompt" /\ stray /\ data = <<>>
    BY <1>1, <2>2
  <2>4. Len(data) = 0 /\ Len(rx) = 0 /\ Len(pending) = 1
    <3>1. Len(data) = 0
      BY <2>3
    <3>2. Len(rx) + Len(pending) = 1
      BY <1>2, <1>3, <2>3, <3>1
    <3>3. Len(rx) \in Nat /\ Len(pending) \in Nat \ {0}
      BY <1>3, <2>1
    <3>4. \A x \in Nat, y \in Nat \ {0} : x + y = 1 => x = 0 /\ y = 1
      OBVIOUS
    <3>5. Len(rx) = 0 /\ Len(pending) = 1
      BY <3>2, <3>3, <3>4
    <3> QED
      BY <3>1, <3>5
  <2>5. data = <<>> /\ rx = <<>>
    BY <2>4, EmptySeq DEF TypeOK
  <2>6. Line = pending
    BY <2>1, <2>5, EmptyConcat DEF Line
  <2> QED
    BY <2>3, <2>4, <2>6 DEF OnlyStraggler
<1> QED
  BY <1>4, <1>5

LEMMA TimeoutInv ==
  ASSUME IInv, Timeout
  PROVE  IInv'
<1>1. TypeOK' /\ TypeOK
  BY NextType DEF IInv, Next, send_command
<1>2. /\ InRead /\ Stream /\ opened /\ pc' \in {"flushing", "failed"}
      /\ UNCHANGED <<setting, opened, stray, pending, eof, clean>>
      /\ loose' = (loose \/ "done" \in KindsIn(data))
  BY DEF Timeout, wire, IInv, InRead
<1>3. setting.punctual /\ ~eof /\ ~loose' => OnlyStraggler'
  <2> SUFFICES ASSUME setting.punctual, ~eof, ~loose' PROVE OnlyStraggler'
    OBVIOUS
  <2>1. ~loose /\ "done" \notin KindsIn(data)
    BY <1>2, Zenon
  <2>2. ~answered
    BY <2>1, TimeoutIsSilence
  <2>3. clean
    BY <1>2, <2>1 DEF IInv, InRead
  <2>4. OnlyStraggler
    BY <1>1, <1>2, <2>2, <2>3, SilenceLeavesStraggler
  <2> QED
    BY <1>2, <2>4 DEF OnlyStraggler
<1> QED
  BY <1>1, <1>2, <1>3 DEF IInv, InRead

-----------------------------------------------------------------------------
(***************************************************************************)
(* Opening, flushing and writing.                                          *)
(***************************************************************************)

\* A request is written behind what has arrived since the flush and what was to
\* come: the line is that, then the answer.
LEMMA WriteStream ==
  ASSUME NEW r \in Seq(Pieces), NEW b \in Seq(Pieces),
         \A i \in DOMAIN r : r[i].tag = "late",
         \A i \in DOMAIN b : b[i].tag = "late",
         NEW answers \in SUBSET Seq(Kinds), Write(b, answers),
         answers \subseteq IF pc' = "priming" THEN {<<"prompt">>} ELSE Responses,
         data' = <<>>, rx' = r,
         clean' => \/ r \o b = <<>>
                   \/ stray' /\ Len(r \o b) = 1 /\ (r \o b)[1].kind = "prompt"
  PROVE  Stream'
<1> DEFINE w == r \o b
<1>1. /\ w \in Seq(Pieces) /\ Len(w) \in Nat /\ DOMAIN w = 1 .. Len(w)
      /\ \A i \in DOMAIN w : w[i].tag = "late"
  <2>1. /\ w \in Seq(Pieces) /\ Len(w) = Len(r) + Len(b)
        /\ \A i \in 1 .. Len(r) + Len(b) : w[i] = IF i <= Len(r) THEN r[i] ELSE b[i - Len(r)]
    BY ConcatProperties
  <2>2. /\ Len(r) \in Nat /\ DOMAIN r = 1 .. Len(r)
        /\ Len(b) \in Nat /\ DOMAIN b = 1 .. Len(b)
        /\ Len(w) \in Nat /\ DOMAIN w = 1 .. Len(w)
    BY <2>1, LenProperties
  <2>3. ASSUME NEW i \in DOMAIN w PROVE w[i].tag = "late"
    <3>1. CASE i <= Len(r)
      BY <2>1, <2>2, <3>1
    <3>2. CASE ~(i <= Len(r))
      <4>1. i - Len(r) \in DOMAIN b /\ w[i] = b[i - Len(r)]
        BY <2>1, <2>2, <3>2
      <4> QED
        BY <4>1
    <3> QED
      BY <3>1, <3>2
  <2> QED
    BY <2>1, <2>2, <2>3
<1>2. PICK k \in Expected' : k \in Seq(Kinds) /\ pending' = b \o Answer(k)
  <2>1. CASE pending' = b /\ answered' = FALSE
    <3>1. Answer(<<>>) = <<>> /\ b \o <<>> = b /\ <<>> \in Seq(Kinds)
      BY EmptyConcat, EmptySeq DEF Answer
    <3>2. <<>> \in Expected'
      BY <2>1 DEF Expected
    <3> QED
      BY <2>1, <3>1, <3>2
  <2>2. CASE \E k \in answers : pending' = b \o Answer(k) /\ answered' = TRUE
    <3>1. PICK k \in answers : pending' = b \o Answer(k) /\ answered' = TRUE
      BY <2>2
    <3>2. k \in Expected' /\ k \in Seq(Kinds)
      BY <3>1 DEF Expected
    <3> QED
      BY <3>1, <3>2
  <2> QED
    BY <2>1, <2>2 DEF Write
<1>3. /\ Answer(k) \in Seq(Pieces) /\ Len(Answer(k)) = Len(k)
      /\ DOMAIN Answer(k) = DOMAIN k /\ Len(k) \in Nat /\ DOMAIN k = 1 .. Len(k)
      /\ \A i \in DOMAIN k : Answer(k)[i].kind = k[i] /\ Answer(k)[i].tag = "own"
  BY <1>2, AnswerPieces, LenProperties
<1>4. Line' = w \o Answer(k)
  <2> DEFINE a == Answer(k)
  <2>1. a \in Seq(Pieces)
    BY <1>3
  <2> HIDE DEF a
  <2>2. <<>> \o r = r
    BY EmptyConcat
  <2>3. (r \o b) \o a = r \o (b \o a)
    BY <2>1, ConcatAssociative
  <2>4. Line' = (<<>> \o r) \o (b \o a)
    BY <1>2 DEF Line, a
  <2> QED
    BY <2>2, <2>3, <2>4 DEF a
<1>5. w = <<>> => Len(w) = 0
  OBVIOUS
<1>6. clean' /\ Len(w) > 0 => Len(w) = 1 /\ w[1].kind = "prompt" /\ stray'
  BY <1>5
<1> DEFINE a == Answer(k)
           l == Line'
<1>7. /\ l = w \o a /\ a \in Seq(Pieces) /\ DOMAIN a = 1 .. Len(k) /\ Len(a) = Len(k)
      /\ \A i \in DOMAIN k : a[i].kind = k[i] /\ a[i].tag = "own"
  BY <1>3, <1>4
<1> HIDE DEF w, a, l
<1>8. /\ Len(l) = Len(w) + Len(k)
      /\ \A i \in DOMAIN w : l[i] = w[i]
      /\ \A i \in DOMAIN k : l[Len(w) + i] = a[i]
  <2>1. Len(w \o a) = Len(w) + Len(a)
    <3>1. w \in Seq(Pieces) /\ a \in Seq(Pieces)
      BY <1>1, <1>7
    <3> QED
      BY <3>1, ConcatProperties
  <2>2. /\ \A i \in DOMAIN w : (w \o a)[i] = w[i]
        /\ \A i \in DOMAIN a : (w \o a)[Len(w) + i] = a[i]
    BY <1>1, <1>7, KindsOfConcat
  <2> QED
    BY <1>3, <1>7, <2>1, <2>2
<1>9. Len(w) \in 0 .. Len(l)
  BY <1>1, <1>3, <1>8
<1>10. Holds(l, Len(w), k)
  <2>1. \A i \in 1 .. Len(w) : l[i].tag = "late"
    BY <1>1, <1>8
  <2>2. \A i \in DOMAIN k : l[Len(w) + i].kind = k[i] /\ l[Len(w) + i].tag = "own"
    BY <1>7, <1>8
  <2> QED
    BY <1>8, <2>1, <2>2 DEF Holds
<1>11. ASSUME clean', Len(w) > 0
       PROVE  Len(w) = 1 /\ l[1].kind = "prompt" /\ stray' /\ data' = <<>>
  <2>1. Len(w) = 1 /\ w[1].kind = "prompt" /\ stray'
    BY <1>6, <1>11
  <2>2. l[1] = w[1]
    BY <1>1, <1>8, <2>1
  <2> QED
    BY <2>1, <2>2
<1>12. \E kinds \in Expected', n \in 0 .. Len(Line') :
         /\ Holds(Line', n, kinds)
         /\ clean' /\ n > 0 => n = 1 /\ Line'[1].kind = "prompt" /\ stray' /\ data' = <<>>
  BY <1>2, <1>9, <1>10, <1>11 DEF l
<1> QED
  BY <1>12 DEF Stream, Holds

LEMMA OpenInv ==
  ASSUME IInv, Open
  PROVE  IInv'
<1>1. TypeOK' /\ TypeOK
  BY NextType DEF IInv, Next
<1>2. /\ opened' /\ ~eof' /\ rx' = <<>> /\ pc' = "priming" /\ stray' = stray /\ ~opened
      /\ Write(Inherited, {<<"prompt">>}) /\ data' = <<>> /\ deadline' = ReadTimeout
      /\ clean' = (Inherited = <<>>) /\ loose' = ~clean'
  BY DEF Open, StartRead
<1>3. ~stray'
  BY <1>2 DEF IInv
<1>4. {<<"prompt">>} \in SUBSET Seq(Kinds)
  BY DEF Kinds
<1>5. <<>> \in Seq(Pieces) /\ DOMAIN <<>> = {} /\ KindsIn(<<>>) = {}
  BY EmptySeq DEF KindsIn
<1>6. Stream'
  <2>1. clean' => <<>> \o Inherited = <<>>
    BY <1>1, <1>2, InheritedPieces, EmptyConcat
  <2> QED
    BY <1>1, <1>2, <1>4, <1>5, <2>1, InheritedPieces, WriteStream
<1>7. "prompt" \notin KindsIn(data)' /\ deadline' # 0
  BY <1>2, <1>5, ConfigAssumption DEF KindsIn
<1>8. ~loose' => clean'
  BY <1>2, Zenon
<1> QED
  BY <1>1, <1>2, <1>3, <1>6, <1>7, <1>8 DEF IInv

LEMMA FlushInv ==
  ASSUME IInv, Flush
  PROVE  IInv'
<1>1. TypeOK' /\ TypeOK
  BY NextType DEF IInv, Next, send_command
<1>2. /\ pc = "flushing" /\ pc' = "writing" /\ rx' = <<>>
      /\ clean' = OnlyStraggler /\ loose' = (loose /\ ~OnlyStraggler)
      /\ UNCHANGED <<setting, opened, stray, pending, eof>>
  BY DEF Flush, _flush_stale_input
<1>3. opened
  BY <1>2 DEF IInv
<1>4. rx' \o pending' = pending
  BY <1>1, <1>2, EmptyConcat DEF TypeOK
<1>5. clean' => CleanLine'
  BY <1>2, <1>4 DEF OnlyStraggler, CleanLine
<1>6. ~eof /\ setting.punctual /\ ~loose' => clean'
  <2>1. ~eof /\ setting.punctual /\ ~loose => OnlyStraggler
    BY <1>2, <1>3 DEF IInv
  <2> QED
    BY <1>2, <2>1, Zenon
<1> QED
  BY <1>1, <1>2, <1>3, <1>5, <1>6 DEF IInv, InRead

LEMMA WriteCommandInv ==
  ASSUME IInv, WriteCommand
  PROVE  IInv'
<1>1. TypeOK' /\ TypeOK
  BY NextType DEF IInv, Next, send_command
<1>2. /\ pc = "writing" /\ pc' = "reading" /\ rx' = Late(rx)
      /\ Write(Late(pending), IF eof THEN {} ELSE Responses)
      /\ data' = <<>> /\ deadline' = ReadTimeout
      /\ UNCHANGED <<setting, opened, stray, eof, clean, loose>>
  BY DEF WriteCommand, StartRead, history
<1>3. opened
  BY <1>2 DEF IInv
<1>4. /\ Late(rx) \in Seq(Pieces) /\ Late(pending) \in Seq(Pieces)
      /\ Len(Late(rx)) = Len(rx) /\ Len(Late(pending)) = Len(pending)
      /\ \A i \in DOMAIN Late(rx) : Late(rx)[i].tag = "late"
      /\ \A i \in DOMAIN Late(pending) : Late(pending)[i].tag = "late"
  BY <1>1, LatePieces DEF TypeOK
<1>5. /\ Len(Late(rx) \o Late(pending)) = Len(rx \o pending)
      /\ Late(rx) \o Late(pending) \in Seq(Pieces) /\ rx \o pending \in Seq(Pieces)
      /\ \A i \in 1 .. Len(rx \o pending) :
           (Late(rx) \o Late(pending))[i].kind = (rx \o pending)[i].kind
  <2> DEFINE a == Late(rx)
             b == Late(pending)
  <2>1. /\ rx \in Seq(Pieces) /\ pending \in Seq(Pieces)
        /\ Len(rx) \in Nat /\ Len(pending) \in Nat
        /\ DOMAIN rx = 1 .. Len(rx) /\ DOMAIN pending = 1 .. Len(pending)
    BY <1>1, LenProperties DEF TypeOK
  <2>2. /\ a \in Seq(Pieces) /\ b \in Seq(Pieces)
        /\ Len(a) = Len(rx) /\ Len(b) = Len(pending)
        /\ \A i \in DOMAIN rx : a[i].kind = rx[i].kind
        /\ \A i \in DOMAIN pending : b[i].kind = pending[i].kind
    BY <2>1, LatePieces
  <2> HIDE DEF a, b
  <2>3. /\ a \o b \in Seq(Pieces) /\ Len(a \o b) = Len(rx) + Len(pending)
        /\ \A i \in 1 .. Len(rx) + Len(pending) :
             (a \o b)[i] = IF i <= Len(rx) THEN a[i] ELSE b[i - Len(rx)]
    <3>1. /\ a \o b \in Seq(Pieces) /\ Len(a \o b) = Len(a) + Len(b)
          /\ \A i \in 1 .. Len(a) + Len(b) :
               (a \o b)[i] = IF i <= Len(a) THEN a[i] ELSE b[i - Len(a)]
      <4>1. a \in Seq(Pieces) /\ b \in Seq(Pieces)
        BY <2>2
      <4> QED
        BY <4>1, ConcatProperties
    <3> QED
      BY <2>2, <3>1
  <2>4. /\ rx \o pending \in Seq(Pieces) /\ Len(rx \o pending) = Len(rx) + Len(pending)
        /\ \A i \in 1 .. Len(rx) + Len(pending) :
             (rx \o pending)[i] = IF i <= Len(rx) THEN rx[i] ELSE pending[i - Len(rx)]
    BY <2>1, ConcatProperties
  <2>5. ASSUME NEW i \in 1 .. Len(rx) + Len(pending)
        PROVE  (a \o b)[i].kind = (rx \o pending)[i].kind
    <3>1. CASE i <= Len(rx)
      BY <2>1, <2>2, <2>3, <2>4, <3>1
    <3>2. CASE ~(i <= Len(rx))
      <4>1. i - Len(rx) \in DOMAIN pending
        BY <2>1, <3>2
      <4> QED
        BY <2>2, <2>3, <2>4, <3>2, <4>1
    <3> QED
      BY <3>1, <3>2
  <2> QED
    BY <2>3, <2>4, <2>5 DEF a, b
<1>6. clean' => \/ Late(rx) \o Late(pending) = <<>>
                \/ /\ stray' /\ Len(Late(rx) \o Late(pending)) = 1
                   /\ (Late(rx) \o Late(pending))[1].kind = "prompt"
  <2> SUFFICES ASSUME clean, CleanLine
               PROVE  \/ Late(rx) \o Late(pending) = <<>>
                      \/ /\ stray /\ Len(Late(rx) \o Late(pending)) = 1
                         /\ (Late(rx) \o Late(pending))[1].kind = "prompt"
    BY <1>2 DEF IInv
  <2>1. CASE rx \o pending = <<>>
    <3>1. Len(Late(rx) \o Late(pending)) = 0
      BY <1>5, <2>1
    <3> QED
      BY <1>5, <3>1, EmptySeq
  <2>2. CASE stray /\ Len(rx \o pending) = 1 /\ (rx \o pending)[1].kind = "prompt"
    BY <1>5, <2>2
  <2> QED
    BY <2>1, <2>2 DEF CleanLine
<1>7. Stream'
  <2>1. /\ (IF eof THEN {} ELSE Responses) \in SUBSET Seq(Kinds)
        /\ (IF eof THEN {} ELSE Responses)
             \subseteq IF pc' = "priming" THEN {<<"prompt">>} ELSE Responses
    BY <1>2, ConfigAssumption
  <2> QED
    BY <1>2, <1>4, <1>6, <2>1, WriteStream
<1>8. "prompt" \notin KindsIn(data)' /\ deadline' # 0
  BY <1>2, ConfigAssumption DEF KindsIn
<1>9. ~eof /\ setting.punctual /\ ~loose => clean
  BY <1>2, <1>3 DEF IInv
<1> QED
  BY <1>1, <1>2, <1>3, <1>7, <1>8, <1>9 DEF IInv

-----------------------------------------------------------------------------
(***************************************************************************)
(* The other steps.                                                        *)
(***************************************************************************)

\* A piece arrives: the line is the same, and so is what is to come.
LEMMA ArriveInv ==
  ASSUME IInv, Arrive
  PROVE  IInv'
<1>1. TypeOK' /\ TypeOK
  BY NextType DEF IInv, Next
<1>2. /\ opened /\ ~eof /\ pending # <<>>
      /\ rx' = Append(rx, Head(pending)) /\ pending' = Tail(pending)
      /\ UNCHANGED <<setting, pc, opened, stray, data, deadline, eof, answered, clean, loose>>
  BY DEF Arrive, reader, history
<1>3. /\ data \in Seq(Pieces) /\ rx \in Seq(Pieces) /\ pending \in Seq(Pieces)
      /\ rx' \in Seq(Pieces) /\ pending' \in Seq(Pieces)
  BY <1>1 DEF TypeOK
<1>4. Line' = Line
  <2>0. pending # <<>> /\ data \in Seq(Pieces) /\ rx \in Seq(Pieces) /\ pending \in Seq(Pieces)
    BY <1>2, <1>3
  <2>1. (data \o Append(rx, Head(pending))) \o Tail(pending) = (data \o rx) \o pending
    BY <2>0, MoveHead, Zenon
  <2> QED
    BY <1>2, <2>1 DEF Line
<1>5. rx' \o pending' = rx \o pending
  <2>0. pending # <<>> /\ <<>> \in Seq(Pieces) /\ rx \in Seq(Pieces) /\ pending \in Seq(Pieces)
    BY <1>2, <1>3, EmptySeq
  <2>1. (<<>> \o Append(rx, Head(pending))) \o Tail(pending) = (<<>> \o rx) \o pending
    BY <2>0, MoveHead, Zenon
  <2>2. <<>> \o rx = rx /\ <<>> \o rx' = rx'
    BY <1>3, EmptyConcat
  <2> QED
    BY <1>2, <2>1, <2>2
<1>6. Stream => Stream'
  <2>1. Expected' = Expected
    BY <1>2 DEF Expected
  <2> QED
    BY <1>2, <1>4, <2>1 DEF Stream, Holds
<1>7. (Delivered => Delivered') /\ (CleanLine => CleanLine')
  <2>1. KindsIn(data)' = KindsIn(data)
    BY <1>2 DEF KindsIn
  <2> QED
    BY <1>2, <1>5, <2>1 DEF Delivered, CleanLine
<1>8. OnlyStraggler => OnlyStraggler'
  <2> SUFFICES ASSUME Len(pending) = 1 PROVE pending' = <<>>
    BY <1>2 DEF OnlyStraggler
  <2>1. Len(Tail(pending)) = 0
    BY <1>2, <1>3, HeadTailProperties
  <2> QED
    BY <1>2, <1>3, <2>1, EmptySeq
<1>9. KindsIn(data)' = KindsIn(data) /\ (IsOwn(data) => IsOwn(data)')
  BY <1>2 DEF KindsIn, IsOwn
<1> QED
  BY <1>1, <1>2, <1>6, <1>7, <1>8, <1>9 DEF IInv, InRead

\* A step that leaves the queues and the flags alone, and ends no flush or read.
LEMMA KeptInv ==
  ASSUME IInv, TypeOK',
         UNCHANGED <<setting, opened, stray, pending, eof, clean, loose>>,
         pc' \in {"idle", "flushing", "failed"},
         opened \/ pc' # "flushing",
         opened /\ ~eof => pc \notin {"priming", "writing", "reading"}
  PROVE  IInv'
<1>1. OnlyStraggler' <=> OnlyStraggler
  BY DEF OnlyStraggler
<1> QED
  BY <1>1 DEF IInv, InRead

LEMMA NextInv == IInv /\ [Next]_vars => IInv'
<1> SUFFICES ASSUME IInv, [Next]_vars PROVE IInv'
  OBVIOUS
<1>1. TypeOK'
  BY NextType DEF IInv
<1>2. CASE OpenFails \/ Call
  BY <1>1, <1>2, KeptInv DEF OpenFails, Call, wire, history
<1>3. CASE WriteFails \/ ReadEof
  BY <1>1, <1>3, KeptInv DEF WriteFails, ReadEof, wire, history
<1>4. CASE Take \/ Swallow
  BY <1>1, <1>4, KeptInv DEF Take, Swallow, wire, history
<1>5. CASE close
  BY <1>1, <1>5 DEF close, IInv, InRead
<1>6. CASE Unheard
  <2>1. /\ ~opened /\ ~opened' /\ UNCHANGED <<setting, pc, stray>>
    BY <1>6 DEF Unheard
  <2> QED
    BY <1>1, <2>1 DEF IInv, InRead
<1>7. ASSUME UNCHANGED <<setting, pc, opened, stray, data, deadline, pending, rx, answered,
                         clean, loose>>,
             ~eof' => ~eof
      PROVE  IInv'
  <2>1. Expected' = Expected /\ Line' = Line
    BY <1>7 DEF Expected, Line
  <2>2. Stream => Stream'
    BY <1>7, <2>1 DEF Stream, Holds
  <2>3. /\ KindsIn(data)' = KindsIn(data) /\ (IsOwn(data) => IsOwn(data)')
        /\ (Delivered => Delivered') /\ (CleanLine => CleanLine')
        /\ (OnlyStraggler => OnlyStraggler')
    BY <1>7 DEF KindsIn, IsOwn, Delivered, CleanLine, OnlyStraggler
  <2> QED
    BY <1>1, <1>7, <2>2, <2>3 DEF IInv, InRead
<1>8. CASE PeerCloses
  BY <1>7, <1>8 DEF PeerCloses, reader, history
<1>9. CASE UNCHANGED vars
  BY <1>7, <1>9 DEF vars, reader, wire, history
<1> QED
  BY <1>2, <1>3, <1>4, <1>5, <1>6, <1>8, <1>9, OpenInv, FlushInv, WriteCommandInv, PollInv,
     TimeoutInv, ArriveInv DEF Next, send_command

LEMMA InitInv == Init => IInv
BY InitType DEF Init, IInv, InRead

\* In a read, what is read, has arrived and is still to come is something older
\* and then the answer to the request written last; after a clean flush what is
\* older is an expected prompt at most; and a flush of a console in time is clean
\* unless something is loose.
THEOREM InductiveInvariant == Spec => []IInv
BY InitInv, NextInv, PTL DEF Spec

\* With any console, over any link: the response returned after a clean flush is
\* the answer to the request it is returned for, and has its text.  The prompt an
\* earlier read did not wait for is stripped, and nothing but that prompt is.
THEOREM ResponsesAreOwn == Spec => []ResponseIsOwn
<1>1. IInv => ResponseIsOwn
  BY DEF IInv, ResponseIsOwn
<1> QED
  BY <1>1, InductiveInvariant, PTL

\* With a punctual console a flush is clean unless one of the three leftovers is on
\* the way that the flag does not tell of.
THEOREM LeftoversAreKnown == Spec => []OnlyFlaggedLeft
<1>1. IInv => OnlyFlaggedLeft
  <2> SUFFICES ASSUME IInv, setting.punctual, ~eof, ~loose,
                      pc \in {"writing", "reading", "returned"}
               PROVE  clean
    BY DEF OnlyFlaggedLeft
  <2>1. opened
    BY DEF IInv
  <2> QED
    BY <2>1 DEF IInv
<1> QED
  BY <1>1, InductiveInvariant, PTL

\* With such a console a read times out only when its request was lost, or with
\* the line at hand and the grace period cut short by the deadline.
THEOREM OnlySilenceTimesOut == Spec => TimeoutMeansSilence
<1>1. IInv /\ [Next]_vars =>
        [setting.punctual /\ Timeout => ~answered \/ "done" \in KindsIn(data)]_vars
  BY TimeoutIsSilence
<1> QED
  BY <1>1, InductiveInvariant, PTL DEF Spec, TimeoutMeansSilence
=============================================================================
